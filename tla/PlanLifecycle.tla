--------------------------- MODULE PlanLifecycle ---------------------------
(***************************************************************************)
(* What the plan store promises about a plan: the status flow of           *)
(* docs/plans/2026-03-09-plan-apply-design.md and of the Plan dataclass,    *)
(* with at most one call working on a plan.                                *)
(*                                                                         *)
(*   absent -> pending -> executing -> completed -> absent                 *)
(*                                  -> failed -> rolled_back               *)
(*                                                                         *)
(* A file older than a day may also be swept, whatever its status; a call  *)
(* that is working on that plan writes the file again when it saves.  A    *)
(* crash takes the workers away and leaves the status where it was; so     *)
(* does a save that raises.                                                *)
(***************************************************************************)
CONSTANT Plans

VARIABLES
  status,   \* [Plans -> Status], of the plan's file
  worker,   \* [Plans -> Worker]: what the call that holds the plan is doing
  created   \* the plan ids create_plan has handed out

vars == <<status, worker, created>>

Status == {"absent", "pending", "executing", "completed", "failed", "rolled_back"}

\* apply, rollback: has the plan and has not changed anything yet.
Worker == {"none", "apply", "steps", "done", "rollback", "undo"}

Init ==
  /\ status = [p \in Plans |-> "absent"]
  /\ worker = [p \in Plans |-> "none"]
  /\ created = {}

Become(p, s, w) ==
  /\ status' = [status EXCEPT ![p] = s]
  /\ worker' = [worker EXCEPT ![p] = w]
  /\ UNCHANGED created

\* The file says s, or it was swept while a call worked on the plan.
OnFile(p, s) == p \in created /\ status[p] \in {s, "absent"}

\* A plan id is used once.
Create(p) ==
  /\ p \notin created
  /\ status' = [status EXCEPT ![p] = "pending"]
  /\ created' = created \cup {p}
  /\ UNCHANGED worker

Claim(p, w) == worker[p] = "none" /\ w \in {"apply", "rollback"} /\ Become(p, status[p], w)

\* The call finds the plan missing or in another status and runs nothing, or it
\* cannot read, save or remove the file and the exception ends it.
Release(p) == worker[p] # "none" /\ Become(p, status[p], "none")

StartSteps(p) == worker[p] = "apply" /\ OnFile(p, "pending") /\ Become(p, "executing", "steps")
Complete(p)   == worker[p] = "steps" /\ OnFile(p, "executing") /\ Become(p, "completed", "done")
Fail(p)       == worker[p] = "steps" /\ OnFile(p, "executing") /\ Become(p, "failed", "none")
Discard(p)    == worker[p] = "done" /\ OnFile(p, "completed") /\ Become(p, "absent", "none")

StartUndo(p) == worker[p] = "rollback" /\ status[p] = "failed" /\ Become(p, "failed", "undo")

\* A refused undo leaves the plan failed; a finished rollback closes it.
EndUndo(p, s) ==
  /\ worker[p] = "undo" /\ OnFile(p, "failed")
  /\ s \in {"failed", "rolled_back"}
  /\ Become(p, s, "none")

Sweep(p) == Become(p, "absent", worker[p])

\* The server dies: nobody works on any plan.
Crash == worker' = [p \in Plans |-> "none"] /\ UNCHANGED <<status, created>>

Next ==
  \/ \E p \in Plans :
       \/ Create(p) \/ Release(p) \/ StartSteps(p) \/ Complete(p) \/ Fail(p)
       \/ Discard(p) \/ StartUndo(p) \/ Sweep(p)
       \/ \E w \in Worker : Claim(p, w)
       \/ \E s \in Status : EndUndo(p, s)
  \/ Crash

Spec == Init /\ [][Next]_vars
=============================================================================
