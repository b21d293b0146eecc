------------------------------ MODULE TtlStore ------------------------------
(***************************************************************************)
(* ops/ttl.py: the TTL store.  set_ttl, cancel_ttl and remove_entry each   *)
(* load the whole JSON file, change one entry and write the file again,    *)
(* under both locks of FileLock.  They run in MCP servers, CLI commands    *)
(* and the daemon.                                                         *)
(***************************************************************************)
EXTENDS FileLock

CONSTANTS VmNames, Entries, NoTtl, NoUpdate,
          Torn,          \* the content of a file that does not parse
          ReadsCanFail   \* BOOLEAN: reading the file may raise an OSError

Books   == [VmNames -> Entries \cup {NoTtl}]
Updates == [name : VmNames, entry : Entries \cup {NoTtl}]

ASSUME StoreAssumption ==
  /\ NoTtl \notin Entries /\ NoUpdate \notin Updates /\ Torn \notin Books
  /\ ReadsCanFail \in BOOLEAN

VARIABLES
  file,      \* what ttl.json holds
  at,        \* [Callers -> Label]
  update,    \* [Callers -> Updates \cup {NoUpdate}]: what each call is to do
  copy       \* [Callers -> Books]: the store each call has in memory

store == <<at, update, copy>>
storeVars == <<file, store, locks>>

\* asked: waits for the thread lock.  waiting: has it, and waits for the lock file.
Label == {"idle", "asked", "waiting", "load", "write", "replace", "done", "failed"}

StoreTypeOK ==
  /\ LockTypeOK
  /\ file \in Books
  /\ at \in [Callers -> Label]
  /\ update \in [Callers -> Updates \cup {NoUpdate}]
  /\ copy \in [Callers -> Books]

Empty == [n \in VmNames |-> NoTtl]

StoreInit ==
  /\ LockInit
  /\ file \in Books
  /\ at = [c \in Callers |-> "idle"]
  /\ update = [c \in Callers |-> NoUpdate]
  /\ copy = [c \in Callers |-> Empty]

-----------------------------------------------------------------------------
Go(c, label) == at' = [at EXCEPT ![c] = label]

Updated(b, w) == [b EXCEPT ![w.name] = w.entry]

\* _load_ttl_store: no file, or one that cannot be read, is an empty store.
Loaded(content) == IF content = Torn THEN Empty ELSE content

\* What a read may give; one that raises gives nothing that parses.
Readable == {file} \cup {x \in {Torn} : ReadsCanFail}

Ask(c, w) ==
  /\ at[c] = "idle"
  /\ Go(c, "asked")
  /\ update' = [update EXCEPT ![c] = w]
  /\ UNCHANGED <<file, copy, locks>>

EnterProcess(c) ==
  /\ at[c] = "asked"
  /\ TakeMutex(c)
  /\ Go(c, "waiting")
  /\ UNCHANGED <<file, update, copy>>

EnterFile(c) ==
  /\ at[c] = "waiting"
  /\ TryLock(c)
  /\ Go(c, "load")
  /\ UNCHANGED <<file, update, copy>>

LockFails(c) ==
  /\ at[c] = "waiting"
  /\ GiveUp(c)
  /\ Go(c, "failed")
  /\ UNCHANGED <<file, update, copy>>

\* cancel_ttl and remove_entry return if there is nothing to remove.
Load(c) ==
  /\ at[c] = "load"
  /\ \E content \in Readable :
       /\ copy' = [copy EXCEPT ![c] = Updated(Loaded(content), update[c])]
       /\ Go(c, IF update[c].entry = NoTtl /\ Loaded(content)[update[c].name] = NoTtl
                THEN "done" ELSE "write")
  /\ UNCHANGED <<file, update, locks>>

\* Fault: the file is written where it stands.
WriteInPlace(c) ==
  /\ at[c] = "write"
  /\ file' = Torn
  /\ Go(c, "replace")
  /\ UNCHANGED <<update, copy, locks>>

\* atomic_write_text writes a temporary file ...
WriteTemp(c) ==
  /\ at[c] = "write"
  /\ Go(c, "replace")
  /\ UNCHANGED <<file, update, copy, locks>>

\* ... and renames it over the store.
Replace(c) ==
  /\ at[c] = "replace"
  /\ file' = copy[c]
  /\ Go(c, "done")
  /\ UNCHANGED <<update, copy, locks>>

\* The disk is full, or the rename fails: the exception leaves the file as it was.
WriteFails(c) ==
  /\ at[c] \in {"write", "replace"}
  /\ Unlock(c)
  /\ Go(c, "failed")
  /\ UNCHANGED <<file, update, copy>>

\* The call returns, or its exception reaches the caller.
Return(c) ==
  /\ at[c] \in {"done", "failed"}
  /\ IF at[c] = "done" THEN Unlock(c) ELSE UNCHANGED locks
  /\ Go(c, "idle")
  /\ update' = [update EXCEPT ![c] = NoUpdate]
  /\ copy' = [copy EXCEPT ![c] = Empty]
  /\ UNCHANGED file

\* A process is killed between any two steps.
Killed(r) ==
  /\ ProcessDies(r)
  /\ at' = [c \in Callers |-> IF ProcOf[c] = r THEN "idle" ELSE at[c]]
  /\ update' = [c \in Callers |-> IF ProcOf[c] = r THEN NoUpdate ELSE update[c]]
  /\ copy' = [c \in Callers |-> IF ProcOf[c] = r THEN Empty ELSE copy[c]]
  /\ UNCHANGED file

Step(c) ==
  \/ EnterProcess(c) \/ EnterFile(c) \/ LockFails(c) \/ Load(c)
  \/ WriteTemp(c) \/ Replace(c) \/ WriteFails(c) \/ Return(c)

StoreNext ==
  \/ \E c \in Callers : Step(c) \/ \E w \in Updates : Ask(c, w)
  \/ \E r \in Procs : Killed(r)

StoreSpec == StoreInit /\ [][StoreNext]_storeVars

\* A thread that can go on goes on: the wait for the lock file has a deadline.
StoreFairSpec == StoreSpec /\ \A c \in Callers : WF_storeVars(Step(c))

-----------------------------------------------------------------------------
Stage(c) ==
  CASE at[c] \in {"idle", "done", "failed"} -> at[c]
    [] OTHER                                -> "asked"

Atomic == INSTANCE TtlBook WITH Names <- VmNames, NoEntry <- NoTtl,
                                 book <- file, stage <- [c \in Callers |-> Stage(c)]

(* Whatever threads and processes update the store at once, and whichever  *)
(* of them die, each update takes effect whole, once, on the store as it   *)
(* is, or not at all: no call drops an entry another one wrote.            *)
ImplementsBook == Atomic!Spec

(* The lock file and the thread locks do not stay locked: no update that   *)
(* fails or dies stops the later ones.                                     *)
LocksAreReleased ==
  /\ \A c \in Callers : flock = c ~> flock # c
  /\ \A r \in Procs, c \in Callers : mutex[r] = c ~> mutex[r] # c

(* An entry leaves the store only by an update of that entry:              *)
(* _fsutil.py:39, a reader sees the old file or the new one, so that the   *)
(* save that follows does not write the other entries away.                *)
OthersAreKept ==
  [][\A n \in VmNames : file[n] # NoTtl /\ file'[n] = NoTtl
       => \E c \in Callers : update[c] = [name |-> n, entry |-> NoTtl]]_file
=============================================================================
