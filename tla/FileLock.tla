------------------------------ MODULE FileLock ------------------------------
(***************************************************************************)
(* The two locks around a read-modify-write of a JSON file: a thread lock  *)
(* in each process, then _filelock.locked on a sibling lock file, which    *)
(* serialises processes.  The thread lock is waited for without limit, the *)
(* lock file for a bounded time, and the operating system frees the lock   *)
(* file of a process that dies.                                            *)
(***************************************************************************)
CONSTANTS
  Callers,   \* the threads that update the file
  Procs,     \* their processes: MCP servers, CLI commands, the daemon
  ProcOf,    \* [Callers -> Procs]
  Nobody

ASSUME LockAssumption == ProcOf \in [Callers -> Procs] /\ Nobody \notin Callers

VARIABLES
  mutex,     \* [Procs -> Callers \cup {Nobody}]: the thread lock
  flock      \* Callers \cup {Nobody}: the lock file

locks == <<mutex, flock>>

LockTypeOK ==
  /\ mutex \in [Procs -> Callers \cup {Nobody}]
  /\ flock \in Callers \cup {Nobody}

LockInit == mutex = [r \in Procs |-> Nobody] /\ flock = Nobody

TakeMutex(c) ==
  /\ mutex[ProcOf[c]] = Nobody
  /\ mutex' = [mutex EXCEPT ![ProcOf[c]] = c]
  /\ UNCHANGED flock

\* Fault: the lock file is taken for granted.
TryLockBlindly(c) == flock' = c /\ UNCHANGED mutex

\* _try_lock, until it is free.
TryLock(c) == flock = Nobody /\ flock' = c /\ UNCHANGED mutex

\* FileLockTimeoutError at the deadline, if the last try found it held; or at once,
\* on a file system that cannot lock.  The thread lock is released.
GiveUp(c) == mutex' = [mutex EXCEPT ![ProcOf[c]] = Nobody] /\ UNCHANGED flock

\* Fault: an update that fails leaves the lock file locked.
UnlockMutexOnly(c) == mutex' = [mutex EXCEPT ![ProcOf[c]] = Nobody] /\ UNCHANGED flock

\* The end of the with block, on every way out of it.
Unlock(c) ==
  /\ flock' = Nobody
  /\ mutex' = [mutex EXCEPT ![ProcOf[c]] = Nobody]

\* The operating system closes the files of a dead process.
ProcessDies(r) ==
  /\ mutex' = [mutex EXCEPT ![r] = Nobody]
  /\ flock' = IF flock \in {c \in Callers : ProcOf[c] = r} THEN Nobody ELSE flock
=============================================================================
