--------------------------- MODULE GuestCallsProof ---------------------------
(***************************************************************************)
(* Commands, uploads, downloads and provisioning of GuestCalls, for any    *)
(* number of VMs, any step lists and any number of changes others make     *)
(* while the call works.                                                   *)
(*                                                                         *)
(* The argument: where a call is tells how many of its steps took effect.  *)
(* Up to the start of a step it is those before it, and all went well;     *)
(* once a process runs it is one more, and only that one may have gone     *)
(* wrong; and what a step acts on was found under the name a moment ago,   *)
(* as the VM that was measured, or by the second look-up of exec with      *)
(* output.                                                                 *)
(***************************************************************************)
EXTENDS GuestCalls, TLAPS

\* The steps are those the call began with.
Listed(c) == c.steps \in StepsOf(c.tool)

Before == {"step", "inner", "start", "read", "send", "transfer", "write"}
After  == {"wait", "fetch", "clean"}

\* Where the call is tells the step it is at, and that it found a VM for it.
Placed(c) ==
  /\ c.at \in {"idle", "policy"} => c.pos = 1
  /\ c.at \notin {"idle", "over"} => c.pos \in 1..Len(c.steps)
  /\ c.tool = "download" => c.at \in {"idle", "step", "transfer", "write", "over"}
  /\ c.at \in {"transfer", "write"} => c.tool = "download"
  /\ c.at \in After \cup {"inner", "start", "read", "send"} =>
       c.ref \in Vms /\ c.first \in Vms /\ (c.vm # NoVm => c.first = c.vm)
  /\ c.at = "inner" => c.steps[c.pos] \in {"exec", "service"}
  /\ c.at \in {"start", "read", "send"} =>
       c.ref = c.first \/ c.steps[c.pos] \in {"exec", "service"}
  /\ (c.at = "over") = (c.answer # "none")

\* How many of the steps took effect by now.
Counted(c, w) ==
  /\ c.completed <= Len(c.steps)
  /\ c.tool = "download" => w = <<>>
  /\ c.at \in {"idle", "policy"} => c.completed = 0 /\ w = <<>>
  /\ c.at \in Before => c.completed = c.pos - 1 /\ (c.tool # "download" => Len(w) = c.pos - 1)
  /\ c.at \in After => c.completed = c.pos - 1 /\ Len(w) = c.pos
  /\ c.answer = "refused" => w = <<>>
  /\ c.answer \in {"failed", "error"} => Len(w) \in {c.completed, c.completed + 1}
  /\ c.answer = "success" /\ c.tool # "download" => Len(w) = Len(c.steps)

AllGood(w) == \A i \in 1..Len(w) : w[i].good

\* Every one of them but the last went well, and that one, too, once the call has moved on.
GoesWell(c, w) ==
  /\ \A i \in 1..Len(w) : i < Len(w) => w[i].good
  /\ c.at \in Before \/ c.answer = "success" => AllGood(w)
  /\ c.at \in {"fetch", "clean"} /\ c.exit = "zero" => AllGood(w)

\* Each took effect in its turn, on the VM that was measured.
InOrder(c, w) ==
  \A i \in 1..Len(w) :
    /\ i <= Len(c.steps)
    /\ w[i].step = i
    /\ c.vm = NoVm \/ w[i].first = c.vm
    /\ w[i].vm = w[i].first \/ c.steps[i] \in {"exec", "service"}

Sound(c, w) == Listed(c) /\ Placed(c) /\ Counted(c, w) /\ GoesWell(c, w) /\ InOrder(c, w)

World ==
  /\ vm \in [Vms -> Guests] /\ tmp \subseteq Vms /\ src \in Local /\ dst \in Local \cup {"ours"}
  /\ denied \subseteq Tools /\ changes \in 0..MaxChanges

Inv == World /\ call \in Call /\ work \in Seq(Effect) /\ Sound(call, work)

-----------------------------------------------------------------------------
(* Operators                                                               *)

(* A look-up finds a VM, and the expected one if one is expected.          *)
LEMMA FoundIsExpected ==
  ASSUME NEW e \in Vms \cup {NoVm}, NEW v \in Found(e)
  PROVE  v \in Vms /\ (e # NoVm => v = e)
  BY DEF Found, Named

(* A list of one step has one step.                                        *)
LEMMA ListOfOne ==
  ASSUME NEW s, NEW k, s = <<k>>
  PROVE  Len(s) = 1 /\ \A i \in 1..Len(s) : s[i] = k
  OBVIOUS

(* The step lists of the tools.                                            *)
LEMMA StepsOfTools ==
  /\ StepsOf("run") = {<<"run">>} /\ StepsOf("run_output") = {<<"exec">>}
  /\ StepsOf("upload") = {<<"upload">>} /\ StepsOf("download") = {<<"download">>}
  /\ StepsOf("provision") = Provisions
  BY DEF StepsOf

(* A download is one step, and no other call has such a step; a call that  *)
(* nothing measures has a step.                                            *)
LEMMA StepsAreListed ==
  ASSUME NEW tool \in Tools, NEW steps \in StepsOf(tool)
  PROVE  /\ steps \in Seq(Kinds)
         /\ tool = "download" => steps = <<"download">>
         /\ tool # "download" => \A i \in 1..Len(steps) : steps[i] # "download"
         /\ tool \in {"run", "upload", "download"} => 1 \in 1..Len(steps)
<1> USE StepsOfTools
<1>1. CASE tool = "provision"
    BY <1>1, GuestAssumption DEF Kinds
<1>2. CASE tool = "run"
  <2>1. steps = <<"run">>
      BY <1>2
  <2> QED BY <2>1, <1>2, ListOfOne DEF Kinds
<1>3. CASE tool = "run_output"
  <2>1. steps = <<"exec">>
      BY <1>3
  <2> QED BY <2>1, <1>3, ListOfOne DEF Kinds
<1>4. CASE tool = "upload"
  <2>1. steps = <<"upload">>
      BY <1>4
  <2> QED BY <2>1, <1>4, ListOfOne DEF Kinds
<1>5. CASE tool = "download"
  <2>1. steps = <<"download">>
      BY <1>5
  <2> QED BY <2>1, <1>5, ListOfOne DEF Kinds
<1> QED BY <1>1, <1>2, <1>3, <1>4, <1>5 DEF Tools

(* A longer list is not a list of one step.                                *)
LEMMA LongerThanOne ==
  ASSUME NEW s, NEW k, Len(s) > 1
  PROVE  s # <<k>>
  BY ListOfOne

(* An answer changes nothing of a call but where it is.                    *)
LEMMA AnsweredFields ==
  ASSUME NEW c \in Call, NEW a \in {"refused", "error", "failed", "success"}
  PROVE  /\ Answered(c, a) \in Call
         /\ Answered(c, a).at = "over" /\ Answered(c, a).answer = a
         /\ Answered(c, a).tool = c.tool /\ Answered(c, a).steps = c.steps
         /\ Answered(c, a).vm = c.vm /\ Answered(c, a).completed = c.completed
  BY DEF Answered, Call, Stages

(* A call that ends before its step took effect, or before the step went   *)
(* well, is sound: the answer counts the steps that did.                   *)
LEMMA EndsSound ==
  ASSUME NEW c \in Call, NEW w \in Seq(Effect), NEW d \in Call, NEW a \in {"error", "failed"},
         Listed(c), InOrder(c, w), c.tool = "download" => w = <<>>,
         c.completed <= Len(c.steps),
         \A i \in 1..Len(w) : i < Len(w) => w[i].good,
         Len(w) \in {c.completed, c.completed + 1},
         d.at = "over", d.answer = a, d.tool = c.tool, d.steps = c.steps, d.vm = c.vm,
         d.completed = c.completed
  PROVE  Sound(d, w)
<1>1. Listed(d) /\ Placed(d) /\ InOrder(d, w)
    BY DEF Listed, Placed, InOrder, After
<1>2. Counted(d, w)
    BY DEF Counted, Before, After
<1>3. GoesWell(d, w)
    BY DEF GoesWell, Before
<1> QED BY <1>1, <1>2, <1>3 DEF Sound

(* A call that is between two steps, or at one, has done those before it.  *)
LEMMA NothingLost ==
  ASSUME NEW c \in Call, NEW w \in Seq(Effect), Sound(c, w), c.at \in Before \cup After
  PROVE  /\ Len(w) \in {c.completed, c.completed + 1} /\ c.completed <= Len(c.steps)
         /\ \A i \in 1..Len(w) : i < Len(w) => w[i].good
         /\ c.tool = "download" => w = <<>>
<1>1. c.pos \in Nat /\ c.completed \in Nat /\ Len(w) \in Nat
    BY DEF Call
<1>2. c.tool = "download" => c.completed = 0
  <2> SUFFICES ASSUME c.tool = "download" PROVE c.completed = 0
      OBVIOUS
  <2>1. Len(c.steps) = 1
      BY ListOfOne, StepsAreListed DEF Sound, Listed, Call
  <2>2. c.at \in Before /\ c.pos \in 1..Len(c.steps)
      BY DEF Sound, Placed, Before, After
  <2> QED BY <2>1, <2>2, <1>1 DEF Sound, Counted
<1> QED BY <1>1, <1>2 DEF Sound, Counted, GoesWell

(* A step that went well leads to the next one, or to the end.             *)
(* (guest_provision's loop)                                                *)
LEMMA NextStepSound ==
  ASSUME NEW c \in Call, NEW w \in Seq(Effect),
         Listed(c), InOrder(c, w), AllGood(w), c.pos \in 1..Len(c.steps), c.answer = "none",
         IF c.tool = "download" THEN w = <<>> ELSE Len(w) = c.pos
  PROVE  NextStep(c) \in Call /\ Sound(NextStep(c), w)
<1> DEFINE d == NextStep(c)
<1>t. c.pos \in Nat /\ Len(c.steps) \in Nat /\ Len(w) \in Nat
    BY DEF Call
<1>1. CASE c.pos = Len(c.steps)
  <2>1. d = [c EXCEPT !.at = "over", !.answer = "success", !.completed = c.pos]
      BY <1>1 DEF NextStep, Answered, Call
  <2>2. /\ d \in Call /\ d.at = "over" /\ d.answer = "success" /\ d.tool = c.tool
        /\ d.steps = c.steps /\ d.vm = c.vm /\ d.completed = c.pos
      BY <2>1 DEF Call, Stages
  <2>3. Listed(d) /\ Placed(d) /\ InOrder(d, w)
      BY <2>2 DEF Listed, Placed, InOrder, After
  <2>x. c.pos <= Len(c.steps)
      BY <1>t
  <2>4. Counted(d, w) /\ GoesWell(d, w)
      BY <2>2, <2>x, <1>1, <1>t DEF Counted, GoesWell, AllGood, Before, After
  <2> QED BY <2>2, <2>3, <2>4 DEF Sound
<1>2. CASE c.pos # Len(c.steps)
  <2>1. d = [c EXCEPT !.completed = c.pos, !.pos = c.pos + 1, !.at = "step", !.exit = "none"]
      BY <1>2 DEF NextStep, Call
  <2>2. /\ d \in Call /\ d.at = "step" /\ d.answer = c.answer /\ d.tool = c.tool
        /\ d.steps = c.steps /\ d.vm = c.vm /\ d.pos = c.pos + 1 /\ d.completed = c.pos
    <3>1. c.pos + 1 \in Nat /\ "none" \in Exits /\ "step" \in Stages
        BY <1>t DEF Exits, Stages
    <3>2. d \in Call
        BY <2>1, <3>1, <1>t DEF Call
    <3> HIDE DEF d
    <3> QED BY <2>1, <3>2 DEF Call
  <2>3. c.tool # "download"
    <3>2. 1 <= c.pos /\ c.pos <= Len(c.steps)
        BY <1>t
    <3>3. Len(c.steps) > 1
        BY <3>2, <1>2, <1>t
    <3> QED BY <3>3, LongerThanOne, StepsAreListed DEF Listed, Call
  <2>4. Listed(d) /\ Placed(d) /\ InOrder(d, w)
      BY <2>2, <2>3, <1>2, <1>t DEF Listed, Placed, InOrder, After
  <2>5. Counted(d, w) /\ GoesWell(d, w)
      BY <2>2, <2>3, <1>t DEF Counted, GoesWell, AllGood, Before, After
  <2> QED BY <2>2, <2>4, <2>5 DEF Sound
<1> QED BY <1>1, <1>2

(* A step that raised ends the call.                                       *)
LEMMA RaisedSound ==
  ASSUME NEW c \in Call, NEW w \in Seq(Effect), Sound(c, w), c.at \in Before \cup After
  PROVE  /\ StepRaised(c) \in Call /\ Sound(StepRaised(c), w)
         /\ [StepRaised(c) EXCEPT !.calm = FALSE] \in Call
         /\ Sound([StepRaised(c) EXCEPT !.calm = FALSE], w)
<1> DEFINE a == IF c.tool = "provision" THEN "failed" ELSE "error"
           r == StepRaised(c)
           d == [r EXCEPT !.calm = FALSE]
<1>1. a \in {"error", "failed"} /\ r = Answered(c, a)
    BY DEF StepRaised
<1>2. /\ r \in Call /\ r.at = "over" /\ r.answer = a /\ r.tool = c.tool /\ r.steps = c.steps
      /\ r.vm = c.vm /\ r.completed = c.completed
    BY <1>1, AnsweredFields
<1> HIDE DEF r, a
<1>3. /\ d \in Call /\ d.at = "over" /\ d.answer = a /\ d.tool = c.tool /\ d.steps = c.steps
      /\ d.vm = c.vm /\ d.completed = c.completed
    BY <1>2 DEF Call
<1>4. Listed(c) /\ InOrder(c, w)
    BY DEF Sound
<1> HIDE DEF d
<1>5. Sound(r, w) /\ Sound(d, w)
    BY <1>1, <1>2, <1>3, <1>4, NothingLost, EndsSound
<1> QED BY <1>2, <1>3, <1>5 DEF r, d

(* guest_exec has its exit code: on with the next step, or the end.        *)
LEMMA ExitedSound ==
  ASSUME NEW c \in Call, NEW w \in Seq(Effect), c.at \in After, c.answer = "none",
         Listed(c), Placed(c), Counted(c, w), InOrder(c, w),
         \A i \in 1..Len(w) : i < Len(w) => w[i].good,
         c.exit = "zero" => AllGood(w)
  PROVE  Exited(c) \in Call /\ Sound(Exited(c), w)
<1>1. c.pos \in 1..Len(c.steps) /\ c.tool # "download" /\ Len(w) = c.pos /\ c.completed = c.pos - 1
    BY DEF Placed, Counted, After
<1>2. CASE c.exit = "zero"
    BY <1>1, <1>2, NextStepSound DEF Exited
<1>3. CASE c.exit # "zero"
  <2>1. c.completed \in Nat /\ c.pos \in Nat
      BY DEF Call
  <2>2. Len(w) = c.completed + 1
      BY <1>1, <2>1
  <2> QED BY <1>1, <1>3, <2>2, AnsweredFields, EndsSound DEF Exited
<1> QED BY <1>2, <1>3

(* What a call forgets or is told of the world does not unsettle it.       *)
LEMMA SameSound ==
  ASSUME NEW c, NEW d, NEW w, Sound(c, w),
         d.tool = c.tool, d.steps = c.steps, d.vm = c.vm, d.pos = c.pos, d.at = c.at,
         d.ref = c.ref, d.first = c.first, d.exit = c.exit, d.answer = c.answer,
         d.completed = c.completed
  PROVE  Sound(d, w)
<1>1. Listed(d) /\ Placed(d)
    BY DEF Sound, Listed, Placed
<1>2. Counted(d, w) /\ GoesWell(d, w) /\ InOrder(d, w)
    BY DEF Sound, Counted, GoesWell, InOrder
<1> QED BY <1>1, <1>2 DEF Sound

(* A call that goes on to a place before its next step took effect.        *)
LEMMA GoesOn ==
  ASSUME NEW c \in Call, NEW d \in Call, NEW w \in Seq(Effect), Sound(c, w),
         c.at \in Before, d.at \in Before, d.tool = c.tool, d.steps = c.steps, d.vm = c.vm,
         d.pos = c.pos, d.answer = c.answer, d.completed = c.completed, Placed(d)
  PROVE  Sound(d, w)
<1>1. Listed(d) /\ InOrder(d, w) /\ GoesWell(d, w)
    BY DEF Sound, Listed, InOrder, GoesWell, Before
<1>2. Counted(d, w)
    BY DEF Sound, Counted, Before, After
<1> QED BY <1>1, <1>2 DEF Sound

(* The one more effect that a step has.                                    *)
LEMMA OneMoreEffect ==
  ASSUME NEW c \in Call, NEW w \in Seq(Effect), Sound(c, w), NEW good \in BOOLEAN,
         c.at \in {"start", "send"},
         NEW x, x = Append(w, [step |-> c.pos, first |-> c.first, vm |-> c.ref, good |-> good])
  PROVE  /\ x \in Seq(Effect) /\ Len(x) = c.pos /\ InOrder(c, x)
         /\ \A i \in 1..Len(x) : i < Len(x) => x[i].good
         /\ good => AllGood(x)
<1> DEFINE e == [step |-> c.pos, first |-> c.first, vm |-> c.ref, good |-> good]
<1>1. /\ c.pos \in Nat /\ c.pos \in 1..Len(c.steps) /\ Len(c.steps) \in Nat
      /\ c.ref \in Vms /\ c.first \in Vms /\ (c.vm # NoVm => c.first = c.vm)
      /\ c.ref = c.first \/ c.steps[c.pos] \in {"exec", "service"}
    BY DEF Sound, Placed, Call
<1>2. c.tool # "download" /\ Len(w) = c.pos - 1 /\ AllGood(w) /\ InOrder(c, w)
    BY DEF Sound, Placed, Counted, GoesWell, Before
<1>3. e \in Effect
    BY <1>1 DEF Effect
<1>4. e.step = c.pos /\ e.first = c.first /\ e.vm = c.ref /\ e.good = good
    OBVIOUS
<1> HIDE DEF e
<1>5. /\ x \in Seq(Effect) /\ Len(x) = Len(w) + 1 /\ x[Len(w) + 1] = e
      /\ \A i \in 1..Len(w) : x[i] = w[i]
    BY <1>3 DEF e
<1>6. Len(x) = c.pos /\ x[c.pos] = e
    BY <1>1, <1>2, <1>5
<1>7. ASSUME NEW i \in 1..Len(x)
      PROVE  i = c.pos \/ (i \in 1..Len(w) /\ x[i] = w[i])
    BY <1>1, <1>2, <1>5, <1>6
<1>8. InOrder(c, x)
  <2> SUFFICES ASSUME NEW i \in 1..Len(x)
               PROVE  /\ i <= Len(c.steps) /\ x[i].step = i
                      /\ c.vm = NoVm \/ x[i].first = c.vm
                      /\ x[i].vm = x[i].first \/ c.steps[i] \in {"exec", "service"}
      BY DEF InOrder
  <2>1. CASE i = c.pos
      BY <2>1, <1>1, <1>4, <1>6
  <2>2. CASE i \in 1..Len(w) /\ x[i] = w[i]
      BY <2>2, <1>2 DEF InOrder
  <2> QED BY <2>1, <2>2, <1>7
<1>9. \A i \in 1..Len(x) : i < Len(x) => x[i].good
    BY <1>2, <1>6, <1>7 DEF AllGood
<1>10. good => AllGood(x)
    BY <1>2, <1>4, <1>6, <1>7 DEF AllGood
<1> QED BY <1>5, <1>6, <1>8, <1>9, <1>10

-----------------------------------------------------------------------------
(* The call up to its first step                                           *)

(* The invariant holds when the call begins.                               *)
LEMMA InvInit == Init => Inv
<1> SUFFICES ASSUME Init PROVE Inv
    OBVIOUS
<1> USE GuestAssumption
<1>1. World /\ work = <<>> /\ work \in Seq(Effect) /\ Len(work) = 0
    BY DEF Init, World, Tools
<1>2. PICK tool \in Tools : \E steps \in StepsOf(tool), over \in BOOLEAN :
        call = [Idle EXCEPT !.tool = tool, !.steps = steps, !.over = over /\ tool = "download"]
    BY DEF Init
<1>3. PICK steps \in StepsOf(tool), over \in BOOLEAN :
        call = [Idle EXCEPT !.tool = tool, !.steps = steps, !.over = over /\ tool = "download"]
    BY <1>2
<1>4. steps \in Seq(Kinds)
    BY StepsAreListed
<1>5. /\ call \in Call /\ call.tool = tool /\ call.steps = steps /\ call.at = "idle"
      /\ call.pos = 1 /\ call.completed = 0 /\ call.answer = "none" /\ call.exit = "none"
      /\ call.vm = NoVm
  <2>1. call = [tool |-> tool, steps |-> steps, over |-> over /\ tool = "download", vm |-> NoVm,
                pos |-> 1, at |-> "idle", ref |-> NoVm, first |-> NoVm, exit |-> "none",
                captured |-> FALSE, answer |-> "none", completed |-> 0, calm |-> TRUE]
      BY <1>3 DEF Idle
  <2> QED BY <2>1, <1>4 DEF Call, Stages, Exits
<1>6. Sound(call, work)
    BY <1>1, <1>5 DEF Sound, Listed, Placed, Counted, GoesWell, InOrder, AllGood, Before, After
<1> QED BY <1>1, <1>5, <1>6 DEF Inv

(* A call refused or let through has done nothing.                         *)
LEMMA AdmissionInv ==
  ASSUME Inv, Begin \/ Measure \/ Authorize
  PROVE  Inv'
<1>w. World' /\ work' = work
    BY DEF Begin, Measure, Authorize, files, Inv, World
<1>c. call \in Call /\ work \in Seq(Effect) /\ Sound(call, work)
    BY DEF Inv
<1>r. ASSUME call.at \in {"idle", "policy"}, call' = Answered(call, "refused") PROVE Inv'
  <2>1. /\ call' \in Call /\ call'.at = "over" /\ call'.answer = "refused" /\ call'.tool = call.tool
        /\ call'.steps = call.steps /\ call'.vm = call.vm /\ call'.completed = call.completed
      BY <1>r, <1>c, AnsweredFields
  <2>2. work = <<>> /\ Len(work) = 0 /\ call.completed <= Len(call.steps)
      BY <1>r, <1>c DEF Sound, Counted
  <2>3. Listed(call')
      BY <2>1, <1>c DEF Sound, Listed
  <2>4. Placed(call') /\ Counted(call', work) /\ GoesWell(call', work) /\ InOrder(call', work)
      BY <2>1, <2>2 DEF Placed, Counted, GoesWell, InOrder, AllGood, Before, After
  <2> QED BY <2>1, <2>3, <2>4, <1>w, <1>c DEF Inv, Sound
<1>s. ASSUME call.at \in {"idle", "policy"}, call' \in Call, call'.at \in {"policy", "step"},
             call'.at = "policy" => call.tool # "download" /\ Len(call.steps) # 0,
             call'.tool = call.tool, call'.steps = call.steps, call'.pos = call.pos,
             call'.completed = call.completed, call'.answer = call.answer,
             call.pos \in 1..Len(call.steps)
      PROVE  Inv'
  <2>1. work = <<>> /\ Len(work) = 0 /\ call.pos = 1 /\ call.completed = 0 /\ call.answer = "none"
      BY <1>s, <1>c DEF Sound, Counted, Placed, Call
  <2>2. Listed(call')
      BY <1>s, <1>c DEF Sound, Listed
  <2>3. Placed(call')
      BY <1>s, <2>1 DEF Placed, After
  <2>4. Counted(call', work) /\ GoesWell(call', work) /\ InOrder(call', work)
      BY <1>s, <2>1 DEF Counted, GoesWell, InOrder, AllGood, Before, After
  <2> QED BY <2>2, <2>3, <2>4, <1>s, <1>w, <1>c DEF Inv, Sound
<1>1. CASE Begin
  <2>1. call.at = "idle" /\ call.tool \in {"run", "upload", "download"}
      BY <1>1 DEF Begin
  <2>2. CASE call' = Answered(call, "refused")
      BY <2>1, <2>2, <1>r
  <2>3. CASE call' = [call EXCEPT !.at = "step"]
    <3>1. /\ call' \in Call /\ call'.at = "step" /\ call'.tool = call.tool
          /\ call'.steps = call.steps /\ call'.pos = call.pos /\ call'.completed = call.completed
          /\ call'.answer = call.answer
        BY <2>3, <1>c DEF Call, Stages
    <3>2. call.pos = 1
        BY <2>1, <1>c DEF Sound, Placed
    <3>3. call.pos \in 1..Len(call.steps)
        BY <2>1, <3>2, <1>c, StepsAreListed DEF Sound, Listed, Call
    <3> QED BY <2>1, <3>1, <3>3, <1>s
  <2> QED BY <1>1, <2>2, <2>3 DEF Begin
<1>2. CASE Measure
  <2>1. CASE call' = Answered(call, "refused")
      BY <1>2, <2>1, <1>r DEF Measure
  <2>2. CASE \E v \in Found(NoVm) :
               call.steps # <<>> /\ call' = [call EXCEPT !.at = "policy", !.vm = v]
    <3>1. PICK v \in Found(NoVm) : call.steps # <<>> /\ call' = [call EXCEPT !.at = "policy", !.vm = v]
        BY <2>2
    <3>2. v \in Vms
        BY FoundIsExpected
    <3>3. /\ call' \in Call /\ call'.at = "policy" /\ call'.tool = call.tool
          /\ call'.steps = call.steps /\ call'.pos = call.pos /\ call'.completed = call.completed
          /\ call'.answer = call.answer
        BY <3>1, <3>2, <1>c DEF Call, Stages
    <3>4. call.at = "idle" /\ call.tool # "download" /\ call.pos = 1
        BY <1>2, <1>c DEF Measure, Sound, Placed
    <3>5. call.pos \in 1..Len(call.steps)
        BY <3>1, <3>4, <1>c DEF Call
    <3> QED BY <3>3, <3>4, <3>5, <1>s
  <2> QED BY <1>2, <2>1, <2>2 DEF Measure
<1>3. CASE Authorize
  <2>1. call.at = "policy" /\ call.pos \in 1..Len(call.steps)
      BY <1>3, <1>c DEF Authorize, Sound, Placed
  <2>2. CASE call' = Answered(call, "refused")
      BY <2>1, <2>2, <1>r
  <2>3. CASE call' = [call EXCEPT !.at = "step"]
    <3>1. /\ call' \in Call /\ call'.at = "step" /\ call'.tool = call.tool
          /\ call'.steps = call.steps /\ call'.pos = call.pos /\ call'.completed = call.completed
          /\ call'.answer = call.answer
        BY <2>3, <1>c DEF Call, Stages
    <3> QED BY <2>1, <3>1, <1>s
  <2> QED BY <1>3, <2>2, <2>3 DEF Authorize
<1> QED BY <1>1, <1>2, <1>3

-----------------------------------------------------------------------------
(* The steps                                                               *)

(* A step that raises before it took effect, or after a process started,   *)
(* ends the call.                                                          *)
LEMMA RaisesInv ==
  ASSUME Inv, call.at \in Before \cup After, World', work' = work,
         call' = StepRaised(call) \/ Raise
  PROVE  Inv'
  BY RaisedSound DEF Inv, Raise

(* A step whose VM was found is at it; exec and service look once more.    *)
(* (_require_vm_with_tools)                                                *)
LEMMA LookInv ==
  ASSUME Inv, Look \/ LookAgain
  PROVE  Inv'
<1>w. World' /\ work' = work
    BY DEF Look, LookAgain, files, Inv, World
<1>c. call \in Call /\ work \in Seq(Effect) /\ Sound(call, work)
    BY DEF Inv
<1>1. CASE call' = StepRaised(call)
  <2>1. call.at \in Before
      BY DEF Look, LookAgain, Before
  <2> QED BY <1>1, <1>w, <2>1, RaisesInv
<1>2. ASSUME Look, NEW v \in Found(call.vm),
             call' = [call EXCEPT !.ref = v, !.first = v,
                                  !.at = CASE Kind = "run"    -> "start"
                                           [] Kind = "upload" -> "read"
                                           [] OTHER           -> "inner"]
      PROVE  Inv'
  <2>1. /\ call.at = "step" /\ Kind \in {"run", "exec", "service", "upload"}
        /\ call.vm \in Vms \cup {NoVm}
      BY <1>2, <1>c DEF Look, Call
  <2>2. v \in Vms /\ (call.vm # NoVm => v = call.vm)
      BY <2>1, FoundIsExpected
  <2>3. PICK at \in {"start", "read", "inner"} :
          /\ call' = [call EXCEPT !.ref = v, !.first = v, !.at = at]
          /\ at = "inner" => Kind \in {"exec", "service"}
      BY <1>2, <2>1
  <2>4. /\ call' \in Call /\ call'.at = at /\ call'.ref = v /\ call'.first = v
        /\ call'.tool = call.tool /\ call'.steps = call.steps /\ call'.vm = call.vm
        /\ call'.pos = call.pos /\ call'.answer = call.answer /\ call'.completed = call.completed
      BY <2>2, <2>3, <1>c DEF Call, Stages
  <2>5. call.pos \in 1..Len(call.steps) /\ call.answer = "none" /\ call.tool # "download"
    <3>1. call.pos \in 1..Len(call.steps) /\ call.answer = "none"
        BY <2>1, <1>c DEF Sound, Placed, Call
    <3>2. call.tool = "download" => call.steps = <<"download">>
        BY <1>c, StepsAreListed DEF Sound, Listed, Call
    <3>3. call.tool = "download" => Kind = "download"
        BY <3>1, <3>2, ListOfOne DEF Kind
    <3> QED BY <2>1, <3>1, <3>3
  <2>6. Placed(call')
      BY <2>1, <2>2, <2>3, <2>4, <2>5 DEF Placed, Kind, After
  <2>7. Sound(call', work)
      BY <2>1, <2>4, <2>6, <1>c, GoesOn DEF Before
  <2> QED BY <1>w, <1>c, <2>4, <2>7 DEF Inv
<1>3. ASSUME LookAgain, NEW v \in Found(NoVm), call' = [call EXCEPT !.ref = v, !.at = "start"]
      PROVE  Inv'
  <2>1. call.at = "inner" /\ v \in Vms
      BY <1>3, FoundIsExpected DEF LookAgain
  <2>2. /\ call' \in Call /\ call'.at = "start" /\ call'.ref = v /\ call'.first = call.first
        /\ call'.tool = call.tool /\ call'.steps = call.steps /\ call'.vm = call.vm
        /\ call'.pos = call.pos /\ call'.answer = call.answer /\ call'.completed = call.completed
      BY <1>3, <2>1, <1>c DEF Call, Stages
  <2>3. Placed(call')
      BY <2>1, <2>2, <1>c DEF Sound, Placed, After
  <2>4. Sound(call', work)
      BY <2>1, <2>2, <2>3, <1>c, GoesOn DEF Before
  <2> QED BY <1>w, <1>c, <2>2, <2>4 DEF Inv
<1> QED BY <1>1, <1>2, <1>3 DEF Look, LookAgain

(* A process that runs is one more effect.  (guest_exec)                   *)
LEMMA StartInv ==
  ASSUME Inv, Start
  PROVE  Inv'
<1>c. call \in Call /\ work \in Seq(Effect) /\ Sound(call, work) /\ call.at = "start"
    BY DEF Inv, Start
<1>1. CASE Raise /\ UNCHANGED <<work, tmp>>
  <2>1. World' /\ work' = work
      BY <1>1 DEF Start, Inv, World
  <2> QED BY <1>1, <2>1, <1>c, RaisesInv DEF Before
<1>2. CASE call' = [call EXCEPT !.at = "wait"] /\ Did(FALSE)
  <2>1. work' = Append(work, [step |-> call.pos, first |-> call.first, vm |-> call.ref, good |-> FALSE])
      BY <1>2 DEF Did
  <2>2. /\ work' \in Seq(Effect) /\ Len(work') = call.pos /\ InOrder(call, work')
        /\ \A i \in 1..Len(work') : i < Len(work') => work'[i].good
      BY <2>1, <1>c, OneMoreEffect
  <2>3. /\ call' \in Call /\ call'.at = "wait" /\ call'.ref = call.ref /\ call'.first = call.first
        /\ call'.tool = call.tool /\ call'.steps = call.steps /\ call'.vm = call.vm
        /\ call'.pos = call.pos /\ call'.answer = call.answer /\ call'.completed = call.completed
      BY <1>2, <1>c DEF Call, Stages
  <2>4. /\ call.ref \in Vms /\ call.answer = "none" /\ call.completed = call.pos - 1
        /\ call.tool # "download" /\ call.completed <= Len(call.steps)
      BY <1>c DEF Sound, Placed, Counted, Before
  <2>5. Listed(call') /\ InOrder(call', work')
      BY <2>2, <2>3, <1>c DEF Sound, Listed, InOrder
  <2>6. Placed(call')
      BY <2>3, <1>c DEF Sound, Placed, After
  <2>7. Counted(call', work') /\ GoesWell(call', work')
      BY <2>2, <2>3, <2>4 DEF Counted, GoesWell, Before, After
  <2>8. World'
      BY <2>4 DEF Start, Inv, World
  <2> QED BY <2>2, <2>3, <2>5, <2>6, <2>7, <2>8 DEF Inv, Sound
<1> QED BY <1>1, <1>2 DEF Start

(* A process ends, is lost sight of, or outlives the wait: with an exit    *)
(* code of zero, and only so, the call goes on.                            *)
LEMMA ProcessInv ==
  ASSUME Inv, Ends \/ TimesOut
  PROVE  Inv'
<1>c. /\ call \in Call /\ work \in Seq(Effect) /\ Sound(call, work) /\ call.at = "wait"
      /\ call.pos \in Nat
    BY DEF Inv, Ends, TimesOut, Call
<1>w. World'
    BY DEF Ends, TimesOut, files, Inv, World
<1>p. /\ Len(work) = call.pos /\ call.pos \in 1..Len(call.steps) /\ call.answer = "none"
      /\ call.completed = call.pos - 1 /\ InOrder(call, work) /\ call.tool # "download"
      /\ \A i \in 1..Len(work) : i < Len(work) => work[i].good
    BY <1>c DEF Sound, Placed, Counted, GoesWell, After
<1>1. ASSUME NEW exit \in Exits, NEW calm \in BOOLEAN,
             work' \in Seq(Effect), Len(work') = Len(work), InOrder(call, work'),
             \A i \in 1..Len(work') : i < Len(work') => work'[i].good,
             exit = "zero" => AllGood(work'),
             LET c == [call EXCEPT !.exit = exit, !.calm = calm]
             IN  call' = IF Kind = "run" THEN Exited(c) ELSE [c EXCEPT !.at = "fetch"]
      PROVE  Inv'
  <2> DEFINE c == [call EXCEPT !.exit = exit, !.calm = calm]
  <2>1. /\ c \in Call /\ c.exit = exit /\ c.at = "wait" /\ c.ref = call.ref /\ c.first = call.first
        /\ c.tool = call.tool /\ c.steps = call.steps /\ c.vm = call.vm
        /\ c.pos = call.pos /\ c.answer = call.answer /\ c.completed = call.completed
      BY <1>c DEF Call
  <2>2. call' = IF Kind = "run" THEN Exited(c) ELSE [c EXCEPT !.at = "fetch"]
      BY <1>1
  <2> HIDE DEF c
  <2>3. Listed(c) /\ Placed(c) /\ InOrder(c, work')
      BY <2>1, <1>1, <1>c DEF Sound, Listed, Placed, InOrder
  <2>4. Counted(c, work')
      BY <2>1, <1>1, <1>p DEF Counted, Before, After
  <2>5. CASE Kind = "run"
    <3>1. Exited(c) \in Call /\ Sound(Exited(c), work')
        BY <2>1, <2>3, <2>4, <1>1, <1>p, ExitedSound DEF After
    <3> QED BY <2>2, <2>5, <3>1, <1>1, <1>w DEF Inv
  <2>6. CASE Kind # "run"
    <3>1. /\ call' \in Call /\ call'.exit = c.exit /\ call'.at = "fetch" /\ call'.ref = c.ref
          /\ call'.first = c.first /\ call'.tool = c.tool /\ call'.steps = c.steps /\ call'.vm = c.vm
          /\ call'.pos = c.pos /\ call'.answer = c.answer /\ call'.completed = c.completed
        BY <2>1, <2>2, <2>6 DEF Call, Stages
    <3>2. Listed(call') /\ Placed(call') /\ InOrder(call', work')
        BY <2>1, <2>3, <3>1, <1>p DEF Listed, Placed, InOrder, After
    <3>3. Counted(call', work') /\ GoesWell(call', work')
        BY <2>1, <3>1, <1>1, <1>p DEF Counted, GoesWell, Before, After
    <3> QED BY <3>1, <3>2, <3>3, <1>1, <1>w DEF Inv, Sound
  <2> QED BY <2>5, <2>6
<1>2. CASE Ends
  <2>1. PICK zero \in BOOLEAN, exit \in {"zero", "other", "lost"} :
          /\ exit = "zero" => zero
          /\ work' = [work EXCEPT ![Len(work)].good = zero]
          /\ LET c == [call EXCEPT !.exit = exit, !.calm = @ /\ exit # "lost"]
             IN  call' = IF Kind = "run" THEN Exited(c) ELSE [c EXCEPT !.at = "fetch"]
      BY <1>2 DEF Ends
  <2> DEFINE n == Len(work)
             e == [work[n] EXCEPT !.good = zero]
  <2>2. n \in 1..Len(work) /\ n \in Nat /\ n = call.pos
      BY <1>c, <1>p
  <2>3. work[n] \in Effect
      BY <2>2, <1>c
  <2>4. /\ e \in Effect /\ e.good = zero /\ e.step = work[n].step /\ e.first = work[n].first
        /\ e.vm = work[n].vm
      BY <2>3 DEF Effect
  <2>5. work' = [work EXCEPT ![n] = e]
      BY <2>1
  <2> HIDE DEF e, n
  <2>6. /\ work' \in Seq(Effect) /\ Len(work') = Len(work) /\ work'[n] = e
        /\ \A i \in 1..Len(work) : i # n => work'[i] = work[i]
      BY <2>2, <2>4, <2>5, <1>c
  <2>7. \A i \in 1..Len(work') : /\ work'[i].step = work[i].step /\ work'[i].first = work[i].first
                                 /\ work'[i].vm = work[i].vm
      BY <2>4, <2>6
  <2>8. InOrder(call, work')
      BY <2>6, <2>7, <1>p DEF InOrder
  <2>9. \A i \in 1..Len(work') : i < Len(work') => work'[i].good
      BY <2>6, <2>2, <1>p DEF n
  <2>10. exit = "zero" => AllGood(work')
    <3> SUFFICES ASSUME exit = "zero", NEW i \in 1..Len(work') PROVE work'[i].good
        BY DEF AllGood
    <3>1. CASE i = n
        BY <3>1, <2>1, <2>4, <2>6
    <3>2. CASE i # n
        BY <3>2, <2>6, <2>9 DEF n
    <3> QED BY <3>1, <3>2
  <2>11. exit \in Exits /\ (call.calm /\ exit # "lost") \in BOOLEAN
      BY <1>c DEF Exits, Call
  <2> QED BY <2>1, <2>6, <2>8, <2>9, <2>10, <2>11, <1>1
<1>3. CASE TimesOut
  <2>1. /\ work' = work
        /\ LET c == [call EXCEPT !.exit = "timeout", !.calm = FALSE]
           IN  call' = IF Kind = "run" THEN Exited(c) ELSE [c EXCEPT !.at = "fetch"]
      BY <1>3 DEF TimesOut, files
  <2>2. "timeout" \in Exits /\ FALSE \in BOOLEAN
      BY DEF Exits
  <2> QED BY <2>1, <2>2, <1>c, <1>p, <1>1
<1> QED BY <1>2, <1>3

(* The output is fetched or not, and its file removed or not: the answer   *)
(* is that of the process.  (guest_exec_with_output)                       *)
LEMMA OutputInv ==
  ASSUME Inv, PollFails \/ Fetch \/ Clean
  PROVE  Inv'
<1>c. call \in Call /\ work \in Seq(Effect) /\ Sound(call, work)
    BY DEF Inv
<1>1. CASE PollFails
  <2>1. World' /\ work' = work /\ call.at \in After
      BY <1>1 DEF PollFails, files, Inv, World, After
  <2> QED BY <1>1, <2>1, RaisesInv DEF PollFails
<1>2. CASE Fetch
  <2>1. World' /\ work' = work /\ call.at = "fetch"
      BY <1>2 DEF Fetch, files, Inv, World
  <2>2. PICK got \in BOOLEAN : call' = [call EXCEPT !.at = "clean", !.captured = got,
                                                   !.calm = @ /\ (got \/ OutputRefused)]
      BY <1>2 DEF Fetch
  <2>3. /\ call' \in Call /\ call'.at = "clean" /\ call'.ref = call.ref /\ call'.first = call.first
        /\ call'.tool = call.tool /\ call'.steps = call.steps /\ call'.vm = call.vm
        /\ call'.pos = call.pos /\ call'.answer = call.answer /\ call'.completed = call.completed
        /\ call'.exit = call.exit
      BY <2>2, <1>c DEF Call, Stages
  <2>4. Listed(call') /\ Placed(call') /\ InOrder(call', work)
      BY <2>1, <2>3, <1>c DEF Sound, Listed, Placed, InOrder, After
  <2>5. Counted(call', work) /\ GoesWell(call', work)
      BY <2>1, <2>3, <1>c DEF Sound, Placed, Counted, GoesWell, Before, After
  <2> QED BY <2>1, <2>3, <2>4, <2>5, <1>c DEF Inv, Sound
<1>3. CASE Clean
  <2>1. call.at = "clean" /\ call' = Exited(call) /\ work' = work
      BY <1>3 DEF Clean
  <2>2. World'
      BY <1>3 DEF Clean, Inv, World
  <2>3. /\ call.answer = "none" /\ \A i \in 1..Len(work) : i < Len(work) => work[i].good
        /\ call.exit = "zero" => AllGood(work)
      BY <2>1, <1>c DEF Sound, Placed, GoesWell
  <2>4. Exited(call) \in Call /\ Sound(Exited(call), work)
      BY <2>1, <2>3, <1>c, ExitedSound DEF Sound, After
  <2> QED BY <2>1, <2>2, <2>4, <1>c DEF Inv
<1> QED BY <1>1, <1>2, <1>3

(* An upload that lands is one more effect, reported or not.               *)
(* (guest_upload)                                                          *)
LEMMA UploadInv ==
  ASSUME Inv, ReadSource \/ Send
  PROVE  Inv'
<1>c. call \in Call /\ work \in Seq(Effect) /\ Sound(call, work) /\ call.at \in {"read", "send"}
    BY DEF Inv, ReadSource, Send
<1>w. World'
    BY DEF ReadSource, Send, files, Inv, World
<1>1. CASE ReadSource
  <2>1. call.at = "read" /\ work' = work
      BY <1>1 DEF ReadSource, files
  <2>2. CASE call' = StepRaised(call)
      BY <2>1, <2>2, <1>w, RaisesInv DEF Before
  <2>3. CASE call' = [call EXCEPT !.at = "send"]
    <3>1. /\ call' \in Call /\ call'.at = "send" /\ call'.ref = call.ref /\ call'.first = call.first
          /\ call'.tool = call.tool /\ call'.steps = call.steps /\ call'.vm = call.vm
          /\ call'.pos = call.pos /\ call'.answer = call.answer /\ call'.completed = call.completed
        BY <2>3, <1>c DEF Call, Stages
    <3>2. Placed(call')
        BY <2>1, <3>1, <1>c DEF Sound, Placed, After
    <3>3. Sound(call', work)
        BY <2>1, <3>1, <3>2, <1>c, GoesOn DEF Before
    <3> QED BY <2>1, <3>1, <3>3, <1>c, <1>w DEF Inv
  <2> QED BY <1>1, <2>2, <2>3 DEF ReadSource
<1>2. CASE Send
  <2>1. /\ call.at = "send" /\ call.answer = "none" /\ call.completed = call.pos - 1
        /\ call.pos \in 1..Len(call.steps) /\ call.pos \in Nat /\ Listed(call) /\ call.tool # "download"
      BY <1>2, <1>c DEF Send, Sound, Placed, Counted, Before, Call
  <2>2. CASE call' = NextStep(call) /\ Did(TRUE)
    <3>1. work' = Append(work, [step |-> call.pos, first |-> call.first, vm |-> call.ref, good |-> TRUE])
        BY <2>2 DEF Did
    <3>2. work' \in Seq(Effect) /\ Len(work') = call.pos /\ InOrder(call, work') /\ AllGood(work')
        BY <3>1, <2>1, <1>c, OneMoreEffect
    <3>3. NextStep(call) \in Call /\ Sound(NextStep(call), work')
        BY <3>2, <2>1, <1>c, NextStepSound
    <3> QED BY <2>2, <3>2, <3>3, <1>w DEF Inv
  <2>3. CASE Raise /\ Did(FALSE)
    <3>1. work' = Append(work, [step |-> call.pos, first |-> call.first, vm |-> call.ref, good |-> FALSE])
        BY <2>3 DEF Did
    <3>2. /\ work' \in Seq(Effect) /\ Len(work') = call.pos /\ InOrder(call, work')
          /\ \A i \in 1..Len(work') : i < Len(work') => work'[i].good
        BY <3>1, <2>1, <1>c, OneMoreEffect
    <3>3. StepRaised(call).completed = call.completed /\ StepRaised(call).tool = call.tool
          /\ StepRaised(call).steps = call.steps /\ StepRaised(call).vm = call.vm
          /\ StepRaised(call).at = "over" /\ StepRaised(call).answer \in {"error", "failed"}
          /\ StepRaised(call) \in Call
        BY <1>c, AnsweredFields DEF StepRaised
    <3>4. /\ call' \in Call /\ call'.at = "over" /\ call'.answer \in {"error", "failed"}
          /\ call'.tool = call.tool /\ call'.steps = call.steps /\ call'.vm = call.vm
          /\ call'.completed = call.completed
        BY <2>3, <3>3 DEF Raise, Call
    <3>5. Len(work') \in {call.completed, call.completed + 1}
        BY <3>2, <2>1
    <3>6. Sound(call', work')
        BY <3>2, <3>4, <3>5, <2>1, <1>c, EndsSound
    <3> QED BY <3>2, <3>4, <3>6, <1>w DEF Inv
  <2>4. CASE Raise /\ UNCHANGED work
      BY <2>1, <2>4, <1>w, RaisesInv DEF Before
  <2> QED BY <1>2, <2>2, <2>3, <2>4 DEF Send
<1> QED BY <1>1, <1>2

(* A download takes effect on the local disk alone.  (guest_download)      *)
LEMMA DownloadInv ==
  ASSUME Inv, Destination \/ Transfer \/ Write
  PROVE  Inv'
<1>c. /\ call \in Call /\ work \in Seq(Effect) /\ Sound(call, work)
      /\ call.at \in {"step", "transfer", "write"} /\ call.at \in Before
    BY DEF Inv, Destination, Transfer, Write, Before
<1>w. World' /\ work' = work
    BY DEF Destination, Transfer, Write, files, Inv, World
<1>t. call.tool = "download" /\ call.pos \in 1..Len(call.steps) /\ call.answer = "none"
  <2>1. call.pos \in 1..Len(call.steps) /\ call.answer = "none"
      BY <1>c DEF Sound, Placed, Call
  <2>2. CASE call.at \in {"transfer", "write"}
      BY <2>1, <2>2, <1>c DEF Sound, Placed
  <2>3. CASE Destination
    <3>1. call.steps[call.pos] = "download"
        BY <2>3 DEF Destination, Kind
    <3> QED BY <2>1, <3>1, <1>c, StepsAreListed DEF Sound, Listed, Call
  <2> QED BY <2>2, <2>3 DEF Transfer, Write
<1>r. CASE call' = StepRaised(call) \/ Raise
    BY <1>r, <1>c, <1>w, RaisesInv
<1>m. ASSUME NEW at \in {"transfer", "write"}, NEW ref \in Vms \cup {NoVm},
             call' = [call EXCEPT !.ref = ref, !.at = at]
      PROVE  Inv'
  <2>1. /\ call' \in Call /\ call'.at = at /\ call'.tool = call.tool /\ call'.steps = call.steps
        /\ call'.vm = call.vm /\ call'.pos = call.pos /\ call'.answer = call.answer
        /\ call'.completed = call.completed
      BY <1>m, <1>c DEF Call, Stages
  <2>2. Placed(call')
      BY <2>1, <1>t DEF Placed, After
  <2>3. Sound(call', work)
      BY <2>1, <2>2, <1>c, GoesOn DEF Before
  <2> QED BY <2>1, <2>3, <1>c, <1>w DEF Inv
<1>1. CASE Destination
  <2>1. ASSUME NEW v \in Found(NoVm), call' = [call EXCEPT !.ref = v, !.at = "transfer"] PROVE Inv'
      BY <2>1, <1>m, FoundIsExpected
  <2> QED BY <1>1, <1>r, <2>1 DEF Destination
<1>2. CASE Transfer
  <2>1. CASE call' = [call EXCEPT !.at = "write"]
    <3>1. call' = [call EXCEPT !.ref = call.ref, !.at = "write"] /\ call.ref \in Vms \cup {NoVm}
        BY <2>1, <1>c DEF Call
    <3> QED BY <3>1, <1>m
  <2> QED BY <1>2, <1>r, <2>1 DEF Transfer
<1>3. CASE Write
  <2>1. CASE call' = NextStep(call)
    <3>1. work = <<>> /\ Listed(call) /\ InOrder(call, work) /\ AllGood(work)
        BY <1>c, <1>t DEF Sound, Counted, GoesWell
    <3>2. NextStep(call) \in Call /\ Sound(NextStep(call), work)
        BY <3>1, <1>c, <1>t, NextStepSound
    <3> QED BY <2>1, <3>2, <1>c, <1>w DEF Inv
  <2> QED BY <1>3, <1>r, <2>1 DEF Write
<1> QED BY <1>1, <1>2, <1>3

-----------------------------------------------------------------------------
(* Everyone else, and the specification                                    *)

(* What others do is nothing that the call did.                            *)
LEMMA OthersInv ==
  ASSUME Inv, VmTurns \/ VmSwapped \/ LocalTurns
  PROVE  Inv'
<1>1. World' /\ work' = work
  <2>1. changes' \in 0..MaxChanges
      BY GuestAssumption DEF VmTurns, VmSwapped, LocalTurns, Others, Inv, World
  <2>2. vm' \in [Vms -> Guests]
      BY DEF VmTurns, VmSwapped, LocalTurns, Inv, World, Guests
  <2>3. tmp' = tmp /\ denied' = denied /\ work' = work
      BY DEF VmTurns, VmSwapped, LocalTurns, files
  <2>4. src' \in Local /\ dst' \in Local \cup {"ours"}
      BY DEF VmTurns, VmSwapped, LocalTurns, files, Inv, World
  <2> QED BY <2>1, <2>2, <2>3, <2>4 DEF Inv, World
<1>2. call' = [call EXCEPT !.calm = FALSE] /\ call \in Call
    BY DEF VmTurns, VmSwapped, LocalTurns, Others, Inv
<1>3. /\ call' \in Call /\ call'.tool = call.tool /\ call'.steps = call.steps
      /\ call'.vm = call.vm /\ call'.pos = call.pos /\ call'.at = call.at /\ call'.ref = call.ref
      /\ call'.first = call.first /\ call'.exit = call.exit /\ call'.answer = call.answer
      /\ call'.completed = call.completed
    BY <1>2 DEF Call
<1>4. Sound(call', work)
    BY <1>3, SameSound DEF Inv
<1> QED BY <1>1, <1>3, <1>4 DEF Inv

(* Every step keeps the invariant.                                         *)
LEMMA InvNext == Inv /\ [Next]_vars => Inv'
<1> SUFFICES ASSUME Inv, [Next]_vars PROVE Inv'
    OBVIOUS
<1>1. CASE UNCHANGED vars
  <2>1. World' /\ call' = call /\ work' = work
      BY <1>1 DEF vars, Inv, World
  <2> QED BY <2>1 DEF Inv
<1>2. CASE Next
    BY <1>2, AdmissionInv, LookInv, StartInv, ProcessInv, OutputInv, UploadInv, DownloadInv,
       OthersInv DEF Next
<1> QED BY <1>1, <1>2

(* The invariant holds in every state.                                     *)
LEMMA AlwaysInv == Spec => []Inv
<1>1. Init => Inv
    BY InvInit
<1>2. Inv /\ [Next]_vars => Inv'
    BY InvNext
<1> QED BY <1>1, <1>2, PTL DEF Spec

(* The call works through its steps and never past their end, and has      *)
(* completed none that it does not have.                                   *)
THEOREM GuestTypeCorrect == Spec => []TypeOK
<1>1. Inv => TypeOK
  <2> SUFFICES ASSUME Inv PROVE TypeOK
      OBVIOUS
  <2>1. World /\ call \in Call /\ work \in Seq(Effect) /\ Sound(call, work)
      BY DEF Inv
  <2>2. call.at \notin {"idle", "over"} => call.pos \in 1..Len(call.steps)
      BY <2>1 DEF Sound, Placed
  <2>3. call.completed \in 0..Len(call.steps)
      BY <2>1 DEF Sound, Counted, Call
  <2> QED BY <2>1, <2>2, <2>3 DEF TypeOK, World
<1> QED BY <1>1, AlwaysInv, PTL

(* guest_provision: the steps take effect in their order, each on the VM   *)
(* that was measured - but for a process that exec with output starts -    *)
(* and none after one that went wrong; and the answer counts those that    *)
(* did.  For any step list, whatever others do to the name between two     *)
(* steps.                                                                  *)
THEOREM StepsDoWhatTheySay == Spec => []DoesWhatItSays
<1>1. Inv => DoesWhatItSays
  <2> SUFFICES ASSUME Inv PROVE DoesWhatItSays
      OBVIOUS
  <2>1. Placed(call) /\ Counted(call, work) /\ GoesWell(call, work) /\ InOrder(call, work)
      BY DEF Inv, Sound
  <2>2. call.answer = "refused" => work = <<>>
      BY <2>1 DEF Counted
  <2>3. \A i \in 1..Len(work) :
          /\ work[i].step = i
          /\ i < Len(work) => work[i].good
          /\ call.vm = NoVm \/ work[i].first = call.vm
          /\ work[i].vm = work[i].first \/ call.steps[i] \in {"exec", "service"}
      BY <2>1 DEF GoesWell, InOrder
  <2>4. call.answer \in {"failed", "error"} => Len(work) \in {call.completed, call.completed + 1}
      BY <2>1 DEF Counted
  <2>5. call.answer = "success" /\ call.tool # "download" =>
          Len(work) = Len(call.steps) /\ \A i \in 1..Len(work) : work[i].good
      BY <2>1 DEF Counted, GoesWell, AllGood
  <2> QED BY <2>2, <2>3, <2>4, <2>5 DEF DoesWhatItSays
<1> QED BY <1>1, AlwaysInv, PTL

(* _write_download: a download writes over no file that it was not told    *)
(* to overwrite, and through no link, whatever appears at the destination  *)
(* while the guest sends the file.                                         *)
THEOREM DownloadsKeepFiles == Spec => LocalFilesAreKept
<1>1. Inv /\ [Next]_vars => [dst' = "ours" => dst = "none" \/ (dst = "file" /\ call.over)]_dst
  <2> SUFFICES ASSUME Inv, [Next]_vars, dst' = "ours", dst' # dst
               PROVE  dst = "none" \/ (dst = "file" /\ call.over)
      OBVIOUS
  <2>1. dst \in Local
      BY DEF Inv, World
  <2>2. Write
      BY DEF Next, vars, files, Begin, Measure, Authorize, Look, LookAgain, Start, Ends, TimesOut,
             PollFails, Fetch, Clean, ReadSource, Send, Destination, Transfer, VmTurns, VmSwapped,
             LocalTurns, Local
  <2>3. ~OpenRefused(dst, call.over)
      BY <2>2 DEF Write
  <2> QED BY <2>1, <2>3 DEF OpenRefused, Local
<1> QED BY <1>1, AlwaysInv, PTL DEF Spec, LocalFilesAreKept
=============================================================================
