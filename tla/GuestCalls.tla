----------------------------- MODULE GuestCalls -----------------------------
(***************************************************************************)
(* Commands, uploads, downloads and provisioning inside a guest:           *)
(* ops/guest_ops, ops/guest_gate and mcp_server/tools/guest.py, and the    *)
(* commands of cli/vm.py that call the same executors.                     *)
(*                                                                         *)
(* A confirmed tool measures the VM of a name, asks the policy, and runs   *)
(* its steps one after the other; each step looks the VM up again.  All    *)
(* calls name one VM name; which VMs bear it, and whether they run, is     *)
(* others' doing.  A preview changes nothing and has no action here.       *)
(***************************************************************************)
EXTENDS Naturals, Sequences, FiniteSets

CONSTANTS
  Vms,        \* the VMs that may bear the name
  Windows,    \* those with a Windows guest
  NoVm,
  Provisions, \* the step lists of provision_vm_guest
  MaxChanges  \* bound: what others do while the call works

ASSUME GuestAssumption ==
  /\ NoVm \notin Vms /\ Windows \subseteq Vms /\ MaxChanges \in Nat
  /\ Provisions \subseteq Seq({"exec", "service", "upload", "bad"})

VARIABLES
  vm,       \* whether a VM bears the name, and how its guest stands
  tmp,      \* the guests with an output file in them
  src,      \* the local file an upload reads
  dst,      \* the local file a download writes; "ours" once the call wrote it
  denied,   \* the tools rules.yaml denies
  call,
  work,     \* history: what took effect in a guest, in order
  changes

vars  == <<vm, tmp, src, dst, denied, call, work, changes>>
files == <<tmp, src, dst, work>>

Guests == {"away", "off", "mute", "up"}   \* mute: VMware Tools does not run
Local  == {"none", "file", "odd"}         \* odd: a symlink, a hard link, not a file
Kinds  == {"run", "exec", "service", "upload", "download", "bad"}
Tools  == {"run", "run_output", "upload", "download", "provision"}
Exits  == {"none", "zero", "other", "lost", "timeout"}

Idle == [tool |-> "none", steps |-> <<>>, over |-> FALSE, vm |-> NoVm, pos |-> 1,
         at |-> "idle", ref |-> NoVm, first |-> NoVm, exit |-> "none", captured |-> FALSE,
         answer |-> "none", completed |-> 0, calm |-> TRUE]

Stages == {"idle", "policy", "step", "inner", "start", "wait", "fetch", "clean", "read",
           "send", "transfer", "write", "over"}

Call == [tool : Tools, steps : Seq(Kinds), over : BOOLEAN, vm : Vms \cup {NoVm}, pos : Nat,
         at : Stages, ref : Vms \cup {NoVm}, first : Vms \cup {NoVm}, exit : Exits,
         captured : BOOLEAN, answer : {"none", "refused", "error", "failed", "success"},
         completed : Nat, calm : BOOLEAN]

\* One step that took effect: the VM its first look-up found, the one it acted on.
Effect == [step : Nat, first : Vms, vm : Vms, good : BOOLEAN]

TypeOK ==
  /\ vm \in [Vms -> Guests] /\ tmp \subseteq Vms /\ src \in Local /\ dst \in Local \cup {"ours"}
  /\ denied \subseteq Tools /\ changes \in 0..MaxChanges /\ call \in Call /\ work \in Seq(Effect)
  /\ call.at \notin {"idle", "over"} => call.pos \in 1..Len(call.steps)
  /\ call.completed \in 0..Len(call.steps)

-----------------------------------------------------------------------------
(* What a call sees                                                        *)

Named == {v \in Vms : vm[v] # "away"}

\* Fault: the first VM of the name is taken, whatever was measured.
FoundByName(expected) == {v \in Named : vm[v] = "up"}

\* _require_vm_with_tools: the one VM of the name, the expected one if one is
\* expected, powered on with VMware Tools running.  Otherwise it raises.
Found(expected) ==
  {v \in Named : /\ Named = {v} /\ vm[v] = "up"
                 /\ expected = NoVm \/ v = expected}

\* _describe_step: what stands in the way of one step of a provision.
StepBlocked(kind, v) ==
  \/ kind = "bad"
  \/ kind = "upload" /\ src = "none"
  \/ kind = "service" /\ v \in Windows

\* _check_download_destination
DestinationRefused(file, over) == file = "odd" \/ (file # "none" /\ ~over)

\* Fault: what was there before the transfer is relied on.
OpenRefusedOdd(file, over) == file = "odd"

\* _write_download: O_EXCL, O_NOFOLLOW, and the link count once it is open.
OpenRefused(file, over) == file = "odd" \/ (file # "none" /\ ~over)

\* The temporary file exec_with_output makes for the output exists when the
\* download checks it, and overwrite is left at its default.
OutputRefused == DestinationRefused("file", FALSE)

-----------------------------------------------------------------------------
(* The call up to its first step                                           *)

Answered(c, answer) == [c EXCEPT !.at = "over", !.answer = answer]

StepsOf(tool) ==
  CASE tool = "run"        -> {<<"run">>}
    [] tool = "run_output" -> {<<"exec">>}
    [] tool = "upload"     -> {<<"upload">>}
    [] tool = "download"   -> {<<"download">>}
    [] tool = "provision"  -> Provisions

Init ==
  /\ vm \in [Vms -> Guests] /\ Cardinality(Named) <= 1
  /\ tmp = {} /\ src \in Local /\ dst \in Local
  /\ denied \in {{}, {"upload"}, {"download"}}
  /\ work = <<>> /\ changes = 0
  /\ \E tool \in Tools : \E steps \in StepsOf(tool), over \in BOOLEAN :
       call = [Idle EXCEPT !.tool = tool, !.steps = steps, !.over = over /\ tool = "download"]

\* A command, or the download tool: no measurement, and no VM is expected.
Begin ==
  /\ call.at = "idle" /\ call.tool \in {"run", "upload", "download"}
  /\ call' = IF call.tool \in denied THEN Answered(call, "refused")
             ELSE [call EXCEPT !.at = "step"]
  /\ UNCHANGED <<vm, files, denied, changes>>

\* measure_guest_*, and refuse_on.  What cannot be read refuses, too.
Measure ==
  /\ call.at = "idle" /\ call.tool # "download"
  /\ \/ call' = Answered(call, "refused")
     \/ /\ call.tool \notin denied
        /\ \E v \in Found(NoVm) :
             /\ call.steps # <<>>
             /\ \A i \in 1..Len(call.steps) : ~StepBlocked(call.steps[i], v)
             /\ call' = [call EXCEPT !.at = "policy", !.vm = v]
  /\ UNCHANGED <<vm, files, denied, changes>>

\* used_by_provision, REACHES
Used ==
  CASE call.tool = "run_output" -> {"run", "download"}
    [] call.tool = "provision"  ->
         UNION {IF call.steps[i] = "upload" THEN {"upload"} ELSE {"run", "run_output"} :
                  i \in 1..Len(call.steps)}
    [] OTHER -> {}

Authorize ==
  /\ call.at = "policy"
  /\ call' = IF Used \cap denied # {} THEN Answered(call, "refused")
             ELSE [call EXCEPT !.at = "step"]
  /\ UNCHANGED <<vm, files, denied, changes>>

-----------------------------------------------------------------------------
(* The steps                                                               *)

Kind == call.steps[call.pos]

\* Fault: the end of the list is not noticed.
NextStepOnly(c) ==
  [c EXCEPT !.completed = c.pos, !.pos = @ + 1, !.at = "step", !.exit = "none"]

\* A step that went well: the next one, or the end of the call.
NextStep(c) ==
  IF c.pos = Len(c.steps) THEN [Answered(c, "success") EXCEPT !.completed = c.pos]
  ELSE [c EXCEPT !.completed = c.pos, !.pos = @ + 1, !.at = "step", !.exit = "none"]

\* A step that raised: a provision answers with what it completed, a call of
\* one step with the error.
StepRaised(c) == Answered(c, IF c.tool = "provision" THEN "failed" ELSE "error")

\* guest_exec has an exit code; -1 when it timed out or the process is gone.
Exited(c) == IF c.exit = "zero" THEN NextStep(c) ELSE Answered(c, "failed")

Raise == call' = [StepRaised(call) EXCEPT !.calm = FALSE]

Look ==
  /\ call.at = "step" /\ Kind \in {"run", "exec", "service", "upload"}
  /\ IF Found(call.vm) = {} THEN call' = StepRaised(call)
     ELSE \E v \in Found(call.vm) :
            call' = [call EXCEPT !.ref = v, !.first = v,
                                 !.at = CASE Kind = "run"    -> "start"
                                          [] Kind = "upload" -> "read"
                                          [] OTHER           -> "inner"]
  /\ UNCHANGED <<vm, files, denied, changes>>

\* guest_exec_with_output calls guest_exec, which looks the name up once more
\* and expects no VM.
LookAgain ==
  /\ call.at = "inner"
  /\ IF Found(NoVm) = {} THEN call' = StepRaised(call)
     ELSE \E v \in Found(NoVm) : call' = [call EXCEPT !.ref = v, !.at = "start"]
  /\ UNCHANGED <<vm, files, denied, changes>>

Did(good) == work' = Append(work, [step |-> call.pos, first |-> call.first, vm |-> call.ref,
                                   good |-> good])

\* StartProgramInGuest: the process starts, or the guest refuses.
Start ==
  /\ call.at = "start"
  /\ \/ /\ vm[call.ref] = "up"
        /\ call' = [call EXCEPT !.at = "wait"]
        /\ Did(FALSE)
        /\ tmp' = IF Kind = "run" THEN tmp ELSE tmp \cup {call.ref}
     \/ Raise /\ UNCHANGED <<work, tmp>>
  /\ UNCHANGED <<vm, src, dst, denied, changes>>

\* The process ended.  The call sees the exit code, or finds it gone.
Ends ==
  /\ call.at = "wait" /\ vm[call.ref] = "up"
  /\ \E zero \in BOOLEAN, exit \in {"zero", "other", "lost"} :
       /\ exit = "zero" => zero
       /\ exit = "other" => ~zero
       /\ work' = [work EXCEPT ![Len(work)].good = zero]
       /\ LET c == [call EXCEPT !.exit = exit, !.calm = @ /\ exit # "lost"]
          IN  call' = IF Kind = "run" THEN Exited(c) ELSE [c EXCEPT !.at = "fetch"]
  /\ UNCHANGED <<vm, tmp, src, dst, denied, changes>>

\* The wait is over; the process goes on.
TimesOut ==
  /\ call.at = "wait"
  /\ LET c == [call EXCEPT !.exit = "timeout", !.calm = FALSE]
     IN  call' = IF Kind = "run" THEN Exited(c) ELSE [c EXCEPT !.at = "fetch"]
  /\ UNCHANGED <<vm, files, denied, changes>>

\* ListProcessesInGuest raises.
PollFails ==
  /\ call.at = "wait" /\ Raise
  /\ UNCHANGED <<vm, files, denied, changes>>

\* The download of the output, by name; whatever it raises is logged.
Fetch ==
  /\ call.at = "fetch"
  /\ \E got \in {FALSE, ~OutputRefused /\ Found(NoVm) \cap tmp # {}} :
       call' = [call EXCEPT !.at = "clean", !.captured = got,
                            !.calm = @ /\ (got \/ OutputRefused)]
  /\ UNCHANGED <<vm, files, denied, changes>>

\* rm, by name; best effort.
Clean ==
  /\ call.at = "clean"
  /\ call' = Exited(call)
  /\ tmp' \in {tmp} \cup {tmp \ {v} : v \in Found(NoVm)}
  /\ UNCHANGED <<vm, src, dst, denied, work, changes>>

\* _read_upload_source
ReadSource ==
  /\ call.at = "read"
  /\ call' = IF src = "file" THEN [call EXCEPT !.at = "send"] ELSE StepRaised(call)
  /\ UNCHANGED <<vm, files, denied, changes>>

\* The upload lands, does not, or lands and is reported as failed.
Send ==
  /\ call.at = "send"
  /\ \/ vm[call.ref] = "up" /\ call' = NextStep(call) /\ Did(TRUE)
     \/ vm[call.ref] = "up" /\ Raise /\ Did(FALSE)
     \/ Raise /\ UNCHANGED work
  /\ UNCHANGED <<vm, tmp, src, dst, denied, changes>>

\* guest_download, of the VM of the name: the destination first.
Destination ==
  /\ call.at = "step" /\ Kind = "download"
  /\ IF DestinationRefused(dst, call.over) \/ Found(NoVm) = {} THEN call' = StepRaised(call)
     ELSE \E v \in Found(NoVm) : call' = [call EXCEPT !.ref = v, !.at = "transfer"]
  /\ UNCHANGED <<vm, files, denied, changes>>

Transfer ==
  /\ call.at = "transfer"
  /\ \/ vm[call.ref] = "up" /\ call' = [call EXCEPT !.at = "write"]
     \/ Raise
  /\ UNCHANGED <<vm, files, denied, changes>>

Write ==
  /\ call.at = "write"
  /\ IF OpenRefused(dst, call.over)
     THEN call' = StepRaised(call) /\ UNCHANGED dst
     ELSE call' = NextStep(call) /\ dst' = "ours"
  /\ UNCHANGED <<vm, tmp, src, denied, work, changes>>

-----------------------------------------------------------------------------
(* Everyone else                                                           *)

Others ==
  /\ call.at # "over" /\ changes < MaxChanges /\ changes' = changes + 1
  /\ call' = [call EXCEPT !.calm = FALSE]

\* VMs start, stop, are destroyed, created or renamed.
VmTurns ==
  /\ Others
  /\ \E v \in Vms, g \in Guests : g # vm[v] /\ vm' = [vm EXCEPT ![v] = g]
  /\ UNCHANGED <<files, denied>>

\* One VM takes another's name.
VmSwapped ==
  /\ Others
  /\ \E u, v \in Vms : /\ vm[u] # "away" /\ vm[v] = "away"
                       /\ vm' = [vm EXCEPT ![u] = "away", ![v] = "up"]
  /\ UNCHANGED <<files, denied>>

LocalTurns ==
  /\ Others
  /\ \/ src' \in Local \ {src} /\ UNCHANGED dst
     \/ dst' \in Local \ {dst} /\ UNCHANGED src
  /\ UNCHANGED <<vm, tmp, denied, work>>

Next ==
  \/ Begin \/ Measure \/ Authorize
  \/ Look \/ LookAgain \/ Start \/ Ends \/ TimesOut \/ PollFails \/ Fetch \/ Clean
  \/ ReadSource \/ Send \/ Destination \/ Transfer \/ Write
  \/ VmTurns \/ VmSwapped \/ LocalTurns

Spec == Init /\ [][Next]_vars

-----------------------------------------------------------------------------
(* guest_provision: the steps take effect in their order and each one on   *)
(* the VM that was measured, whatever happens to the name between two      *)
(* steps; none runs after one that failed, timed out or was lost sight of; *)
(* and the answer counts the steps that did.  A process that exec with     *)
(* output starts is on the VM of the name as its second look-up finds it.  *)
DoesWhatItSays ==
  /\ call.answer = "refused" => work = <<>>
  /\ \A i \in 1..Len(work) :
       /\ work[i].step = i
       /\ i < Len(work) => work[i].good
       /\ call.vm = NoVm \/ work[i].first = call.vm
       /\ work[i].vm = work[i].first \/ call.steps[i] \in {"exec", "service"}
  /\ call.answer \in {"failed", "error"} => Len(work) \in {call.completed, call.completed + 1}
  /\ call.answer = "success" /\ call.tool # "download" =>
       Len(work) = Len(call.steps) /\ \A i \in 1..Len(work) : work[i].good

(* _write_download: whatever appears at the destination while the guest    *)
(* sends the file, a download writes no file that it was not told to       *)
(* overwrite, and never through a link.                                    *)
LocalFilesAreKept ==
  [][dst' = "ours" => dst = "none" \/ (dst = "file" /\ call.over)]_dst

(* README.md:429: run_vm_guest_command_with_output captures the output.    *)
OutputIsCaptured ==
  call.tool = "run_output" /\ call.answer = "success" /\ call.calm => call.captured
=============================================================================
