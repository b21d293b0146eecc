--------------------------- MODULE ImageRegistry ---------------------------
(***************************************************************************)
(* ops/datastore_browser.py: the image registry.                           *)
(*                                                                         *)
(* scan_all_datastore_images lists the datastores of one vCenter, browses  *)
(* them one after the other, which takes minutes and holds no lock, and    *)
(* then merges what it found into image_registry.json under both locks of  *)
(* FileLock.  The file is shared by every vCenter, MCP server and command; *)
(* rows written before targets were recorded name none.                    *)
(***************************************************************************)
EXTENDS FileLock, FiniteSets, Integers

CONSTANTS
  Targets,      \* the vCenters
  Datastores,   \* names, which two vCenters may both use
  Images,
  Legacy,       \* the target of a row that names none
  Unreadable,   \* what a registry that does not parse holds
  NoScan,
  MaxChanges,   \* bound: changes of the datastores
  MaxFaults     \* bound: failed browses, failed writes, kills

Rows  == [target : Targets \cup {Legacy}, ds : Datastores, image : Images]
Scans == [target : Targets, listed : SUBSET Datastores, todo : SUBSET Datastores,
          browsed : SUBSET Datastores, found : SUBSET Rows]

ASSUME RegistryAssumption ==
  /\ Legacy \notin Targets /\ NoScan \notin Scans
  /\ MaxChanges \in Nat /\ MaxFaults \in Nat

VARIABLES
  holds,      \* [Targets -> [Datastores -> SUBSET Images]]
  state,      \* [Targets -> [Datastores -> {"up", "down", "gone"}]]
  file,       \* image_registry.json: a set of rows, or Unreadable
  at,         \* [Callers -> Label]
  scan,       \* [Callers -> Scans \cup {NoScan}]: what each call has in memory
  seen,       \* history: what browses of a target's datastore have found
  changes, faults

calls   == <<at, scan>>
world   == <<holds, state>>
vars    == <<holds, state, file, at, scan, seen, changes, faults, locks>>

Label == {"idle", "scanning", "waiting", "load", "save"}

TypeOK ==
  /\ LockTypeOK
  /\ holds \in [Targets -> [Datastores -> SUBSET Images]]
  /\ state \in [Targets -> [Datastores -> {"up", "down", "gone"}]]
  /\ file = Unreadable \/ file \subseteq Rows
  /\ at \in [Callers -> Label]
  /\ scan \in [Callers -> Scans \cup {NoScan}]
  /\ \A c \in Callers : at[c] = "idle" <=> scan[c] = NoScan
  /\ seen \in [Targets -> [Datastores -> SUBSET SUBSET Images]]
  /\ changes \in 0..MaxChanges /\ faults \in 0..MaxFaults

\* An empty registry, one of a release without targets, or a damaged one.
Init ==
  /\ LockInit
  /\ holds = [t \in Targets |-> [d \in Datastores |-> {}]]
  /\ state = [t \in Targets |-> [d \in Datastores |-> "up"]]
  /\ \/ file = Unreadable
     \/ \E rs \in SUBSET {r \in Rows : r.target = Legacy} : Cardinality(rs) < 2 /\ file = rs
  /\ at = [c \in Callers |-> "idle"] /\ scan = [c \in Callers |-> NoScan]
  /\ seen = [t \in Targets |-> [d \in Datastores |-> {}]]
  /\ changes = 0 /\ faults = 0

-----------------------------------------------------------------------------
(* The vCenters                                                            *)

FileComesOrGoes(t, d, i) ==
  /\ changes < MaxChanges /\ state[t][d] # "gone"
  /\ holds' = [holds EXCEPT ![t][d] = IF i \in @ THEN @ \ {i} ELSE @ \cup {i}]
  /\ changes' = changes + 1
  /\ UNCHANGED <<state, file, calls, seen, faults, locks>>

DatastoreTurns(t, d, s) ==
  /\ changes < MaxChanges /\ state[t][d] # s
  /\ state' = [state EXCEPT ![t][d] = s]
  /\ changes' = changes + 1
  /\ UNCHANGED <<holds, file, calls, seen, faults, locks>>

-----------------------------------------------------------------------------
(* update_registry                                                         *)

Go(c, label) == at' = [at EXCEPT ![c] = label]

\* list_datastores: an inaccessible datastore is listed, and skipped.
StartScan(c, t) ==
  /\ at[c] = "idle"
  /\ Go(c, "scanning")
  /\ scan' = [scan EXCEPT ![c] =
       [target |-> t, listed |-> {d \in Datastores : state[t][d] # "gone"},
        todo |-> {d \in Datastores : state[t][d] = "up"}, browsed |-> {}, found |-> {}]]
  /\ UNCHANGED <<world, file, seen, changes, faults, locks>>

\* Fault: the rows of a release that recorded no target.
RowsUntargeted(t, d, is) == {[ds |-> d, image |-> i] : i \in is}

RowsOf(t, d, is) == {[target |-> t, ds |-> d, image |-> i] : i \in is}

\* scan_images: the images of one datastore, by each of the patterns.
Browse(c, d) ==
  LET t == scan[c].target IN
  /\ at[c] = "scanning" /\ d \in scan[c].todo
  /\ state[t][d] = "up"
  /\ scan' = [scan EXCEPT ![c].todo = @ \ {d}, ![c].browsed = @ \cup {d},
                          ![c].found = @ \cup RowsOf(t, d, holds[t][d])]
  /\ seen' = [seen EXCEPT ![t][d] = @ \cup {holds[t][d]}]
  /\ UNCHANGED <<world, file, at, changes, faults, locks>>

\* The datastore went away, the search failed or timed out: no answer for it.
BrowseFails(c, d) ==
  /\ at[c] = "scanning" /\ d \in scan[c].todo
  /\ IF state[scan[c].target][d] = "up"
     THEN faults < MaxFaults /\ faults' = faults + 1
     ELSE UNCHANGED faults
  /\ scan' = [scan EXCEPT ![c].todo = @ \ {d}]
  /\ UNCHANGED <<world, file, at, seen, changes, locks>>

EnterProcess(c) ==
  /\ at[c] = "scanning" /\ scan[c].todo = {}
  /\ TakeMutex(c)
  /\ Go(c, "waiting")
  /\ UNCHANGED <<world, file, scan, seen, changes, faults>>

EnterFile(c) ==
  /\ at[c] = "waiting"
  /\ TryLock(c)
  /\ Go(c, "load")
  /\ UNCHANGED <<world, file, scan, seen, changes, faults>>

\* The lock times out: the images are returned with a cache_note.
LockFails(c) ==
  /\ at[c] = "waiting" /\ flock # Nobody
  /\ GiveUp(c)
  /\ Go(c, "idle") /\ scan' = [scan EXCEPT ![c] = NoScan]
  /\ UNCHANGED <<world, file, seen, changes, faults>>

\* Fault: a target's own row is kept whenever its datastore is listed.
KeepOwnListed(s, r) ==
  CASE r.target = Legacy       -> r.ds \notin s.browsed
    [] r.target \in Targets \ {s.target} -> TRUE
    [] OTHER                   -> r.ds \in s.listed

\* _keep: does row r outlive scan s?
Keep(s, r) ==
  CASE r.target = Legacy       -> r.ds \notin s.browsed
    [] r.target \in Targets \ {s.target} -> TRUE
    [] OTHER                   -> r.ds \in s.listed \ s.browsed

\* _load_registry: an unreadable registry is rebuilt from this scan.
RowsOnFile == IF file = Unreadable THEN {} ELSE file

Load(c) ==
  /\ at[c] = "load"
  /\ Go(c, "save")
  /\ scan' = [scan EXCEPT ![c].found = @ \cup {r \in RowsOnFile : Keep(scan[c], r)}]
  /\ UNCHANGED <<world, file, seen, changes, faults, locks>>

\* By a temporary file and a rename.
Save(c) ==
  /\ at[c] = "save"
  /\ file' = scan[c].found
  /\ Unlock(c)
  /\ Go(c, "idle") /\ scan' = [scan EXCEPT ![c] = NoScan]
  /\ UNCHANGED <<world, seen, changes, faults>>

\* The read or the write raises: a cache_note, and the file stays as it was.
UpdateFails(c) ==
  /\ at[c] \in {"load", "save"} /\ faults < MaxFaults
  /\ faults' = faults + 1
  /\ Unlock(c)
  /\ Go(c, "idle") /\ scan' = [scan EXCEPT ![c] = NoScan]
  /\ UNCHANGED <<world, file, seen, changes>>

Crash(r) ==
  /\ faults < MaxFaults /\ faults' = faults + 1
  /\ ProcessDies(r)
  /\ at' = [c \in Callers |-> IF ProcOf[c] = r THEN "idle" ELSE at[c]]
  /\ scan' = [c \in Callers |-> IF ProcOf[c] = r THEN NoScan ELSE scan[c]]
  /\ UNCHANGED <<world, file, seen, changes>>

Step(c) ==
  \/ \E d \in Datastores : Browse(c, d) \/ BrowseFails(c, d)
  \/ EnterProcess(c) \/ EnterFile(c) \/ LockFails(c) \/ Load(c) \/ Save(c) \/ UpdateFails(c)

Next ==
  \/ \E t \in Targets, d \in Datastores :
       \/ \E i \in Images : FileComesOrGoes(t, d, i)
       \/ \E s \in {"up", "down", "gone"} : DatastoreTurns(t, d, s)
  \/ \E c \in Callers : Step(c) \/ \E t \in Targets : StartScan(c, t)
  \/ \E r \in Procs : Crash(r)

Spec == Init /\ [][Next]_vars

-----------------------------------------------------------------------------
Dropped == IF file = Unreadable THEN {} ELSE file \ file'

(* datastore_browser.py:289, :323: whichever scans of two vCenters overlap  *)
(* in two processes, a row goes only with a scan of its own target (or     *)
(* names none) that browsed its datastore, or that did not find the        *)
(* datastore any more: what a scan could not browse, it does not forget.   *)
OnlyTheBrowsedIsReplaced ==
  [][\A r \in Dropped : \E c \in Callers :
       /\ at[c] = "save" /\ r.target \in {scan[c].target, Legacy}
       /\ \/ r.ds \in scan[c].browsed
          \/ r.target = scan[c].target /\ r.ds \notin scan[c].listed]_file

(* The rows of one datastore are what one browse of it found: no update    *)
(* mixes them with those of an earlier scan, or of another vCenter's       *)
(* datastore of the same name.                                             *)
OneBrowsePerDatastore ==
  file # Unreadable =>
    \A t \in Targets, d \in Datastores :
      LET is == {i \in Images : [target |-> t, ds |-> d, image |-> i] \in file}
      IN  is # {} => is \in seen[t][d]
=============================================================================
