---------------------------- MODULE VmCallsProof ----------------------------
(***************************************************************************)
(* The gated calls of VmCalls, for any number of VMs, names, snapshots and *)
(* hosts, and whatever the others do between the measurement and the act.  *)
(*                                                                         *)
(* The argument: what a call holds was found under the name with the UUID  *)
(* it measured, so it is the VM it measured; the snapshot it holds still   *)
(* belongs to that VM, or is gone; nothing was done before it holds        *)
(* something; and a policy that denied power_off_vm all along still does.  *)
(***************************************************************************)
EXTENDS VmCalls, TLAPS, FiniteSetTheorems

World ==
  /\ InventoryTypeOK
  /\ suspended \subseteq {u \in Uuids : Alive(u)} \ on
  /\ snap \in [Snaps -> Snapshot \cup {Unborn, Gone}]
  /\ host \in [Uuids -> Hosts]
  /\ closed \subseteq Hosts /\ denied \in BOOLEAN /\ tasks \subseteq Snaps \X BOOLEAN

\* Snapshots go with their VM.
SnapsHaveVm == \A s \in Live : Alive(snap[s].vm)

Holding == {"holding", "asked", "stopped", "read", "waiting"}

\* The call is of the kind of tool its label belongs to, and holds a VM.
Shaped(c) ==
  /\ c.at \in Holding => c.vm \in Uuids
  /\ c.at = "asked" => c.tool = "power_off"
  /\ c.at = "stopped" => c.tool \in {"slate", "delete"}
  /\ c.at = "waiting" => c.tool = "remove" /\ c.node \in Snaps
  /\ c.at = "measured" => c.vm = NoUuid /\ c.node = NoSnap
  /\ c.mcp /\ c.at = "measured" => c.seen \in Uuids /\ c.tool # "delete"
  /\ c.at # "answered" /\ c.tool = "migrate" => c.host \in Hosts

\* What it holds is what it measured.
Compared(c) ==
  c.mcp /\ c.tool # "slate" =>
    /\ c.vm \in {c.seen, NoUuid}
    /\ c.tool = "delete" /\ c.vm # NoUuid => c.ack # NoAck /\ c.ack.uuid = c.vm
    /\ c.tool \in {"revert", "remove"} => c.node \in {c.shot, NoSnap}

\* What it did, it did to the VM it holds; and its answer is true of that.
Accounted(c) ==
  /\ c.did # {} => c.vm \in Uuids
  /\ \A e \in Effects, u \in Uuids : <<e, u>> \in c.did => u = c.vm
  /\ \A u \in Uuids : <<"destroyed", u>> \in c.did => c.tool = "delete"
  /\ c.at \in {"measured", "holding"} => c.did = {} /\ c.task = "none"
  /\ c.at = "waiting" => c.task # "none"
  /\ c.task # "none" => c.tool = "remove" /\ c.at \in {"waiting", "answered"}
  /\ c.task = "success" => <<"removed", c.vm>> \in c.did
  /\ c.answer = "started" => c.task # "none"
  /\ c.at # "answered" => c.answer = "none"
  /\ c.answer \in {"noop", "refused", "rejected"} => c.did = {} /\ c.task = "none"
  /\ \A a \in DOMAIN EffectOf : c.answer = a => \E u \in Uuids : <<EffectOf[a], u>> \in c.did

\* What policy denied all along was not done on the way.
Denied(c) ==
  ~c.free =>
    /\ denied
    /\ c.tool \in {"slate", "delete"} => \A u \in Uuids : <<"stopped", u>> \notin c.did

\* The snapshot it holds is of the VM it holds, or gone.
Owned(c) ==
  c.node \in Snaps =>
    snap[c.node] # Unborn /\ (snap[c.node] \in Snapshot => snap[c.node].vm = c.vm)

CallOK(c) == Shaped(c) /\ Compared(c) /\ Accounted(c) /\ Denied(c) /\ Owned(c)

Inv == TypeOK /\ SnapsHaveVm /\ (call # NoCall => CallOK(call))

\* No snapshot changes hands.
OwnersStay ==
  \A s \in Snaps :
    /\ snap[s] # Unborn => snap'[s] # Unborn
    /\ snap[s] # Unborn /\ snap'[s] \in Snapshot => snap[s] \in Snapshot /\ snap'[s].vm = snap[s].vm

-----------------------------------------------------------------------------
(* Snapshots                                                               *)

(* A snapshot is there unless it was never taken, or is gone.              *)
LEMMA LiveIsSnapshot ==
  ASSUME snap \in [Snaps -> Snapshot \cup {Unborn, Gone}]
  PROVE  \A s \in Snaps : s \in Live <=> snap[s] \in Snapshot
  BY CallAssumption DEF Live

(* Removing a snapshot moves those below it up, removing its children or   *)
(* not: what is left is what was there, of the same VMs.                   *)
LEMMA RemovedIsTyped ==
  ASSUME snap \in [Snaps -> Snapshot \cup {Unborn, Gone}], NEW s \in Live,
         NEW children \in BOOLEAN, snap' = Removed(s, children)
  PROVE  /\ snap' \in [Snaps -> Snapshot \cup {Unborn, Gone}]
         /\ OwnersStay
         /\ \A t \in Live' : t \in Live /\ snap'[t].vm = snap[t].vm
<1> DEFINE taken == IF children THEN Tree(s) ELSE {s}
<1>1. snap' = [t \in Snaps |-> IF t \in taken THEN Gone
                               ELSE IF t \in Live /\ snap[t].parent = s
                                    THEN [snap[t] EXCEPT !.parent = snap[s].parent] ELSE snap[t]]
    BY DEF Removed
<1> HIDE DEF taken
<1>2. ASSUME NEW t \in Snaps
      PROVE  \/ snap'[t] = Gone
             \/ snap'[t] = snap[t]
             \/ snap[t] \in Snapshot /\ snap'[t] \in Snapshot /\ snap'[t].vm = snap[t].vm
  <2>1. CASE t \in Live /\ snap[t].parent = s
    <3>1. snap[t] \in Snapshot /\ snap[s].parent \in Snaps \cup {Root}
        BY <2>1, LiveIsSnapshot DEF Live, Snapshot
    <3>2. [snap[t] EXCEPT !.parent = snap[s].parent] \in Snapshot
        BY <3>1 DEF Snapshot
    <3>3. [snap[t] EXCEPT !.parent = snap[s].parent].vm = snap[t].vm
        BY <3>1 DEF Snapshot
    <3> QED BY <1>1, <2>1, <3>1, <3>2, <3>3
  <2>2. CASE ~(t \in Live /\ snap[t].parent = s)
      BY <2>2, <1>1
  <2> QED BY <2>1, <2>2
<1>3. snap' \in [Snaps -> Snapshot \cup {Unborn, Gone}]
    BY <1>1, <1>2
<1> QED BY <1>2, <1>3, CallAssumption, NamesAssumption DEF OwnersStay, Live

(* The snapshots of a VM go with it, and no other.                         *)
LEMMA WithoutIsTyped ==
  ASSUME snap \in [Snaps -> Snapshot \cup {Unborn, Gone}], NEW u \in Uuids, snap' = Without(u)
  PROVE  /\ snap' \in [Snaps -> Snapshot \cup {Unborn, Gone}]
         /\ OwnersStay
         /\ \A t \in Live' : t \in Live /\ snap'[t] = snap[t] /\ snap[t].vm # u
  BY CallAssumption, NamesAssumption DEF Without, SnapsOf, Live, OwnersStay

(* A live VM is one of the UUIDs, found by its name or not.                *)
LEMMA FoundIsAlive ==
  ASSUME NEW n \in Names, NEW u \in Uuids, Finds(n, u)
  PROVE  named[u] = n /\ Alive(u)
  BY DEF Finds, Holders, Alive

(* One of a name among the snapshots of a VM.  (_locate_snapshot)          *)
LEMMA OneMatches ==
  ASSUME NEW u \in Uuids, NEW n, ~SnapshotBlocked(u, n)
  PROVE  TheOne(Matches(u, n)) \in Matches(u, n)
<1>1. Matches(u, n) # {}
    BY FS_EmptySet DEF SnapshotBlocked
<1> QED BY <1>1 DEF TheOne

(* What delete_vm shows is an acknowledgement.                             *)
LEMMA MeasuredIsAck ==
  ASSUME NEW u \in Uuids
  PROVE  Measured(u) \in Acks
<1>1. SnapsOf(u) \subseteq Snaps
    BY DEF SnapsOf, Live
<1>2. Cardinality(SnapsOf(u)) \in Nat /\ Cardinality(Snaps) \in Nat
      /\ Cardinality(SnapsOf(u)) <= Cardinality(Snaps)
    BY <1>1, CallAssumption, FS_Subset, FS_CardinalityType
<1> QED BY <1>2 DEF Measured, Acks

-----------------------------------------------------------------------------
(* What the others do                                                      *)

(* Nothing the others do, but a turn of the policy, is about the call: it  *)
(* goes on holding what it held.                                           *)
LEMMA CallStays ==
  ASSUME Inv, call' = call, denied' = denied, OwnersStay
  PROVE  (call # NoCall => CallOK(call))'
<1> SUFFICES ASSUME call # NoCall, CallOK(call) PROVE CallOK(call)'
    BY DEF Inv
<1>1. Shaped(call)' /\ Compared(call)' /\ Accounted(call)' /\ Denied(call)'
    BY DEF CallOK, Shaped, Compared, Accounted, Denied
<1>2. Owned(call)'
    BY DEF CallOK, Owned, OwnersStay
<1> QED BY <1>1, <1>2 DEF CallOK

(* Nothing the others do makes a call hold what it did not measure.        *)
LEMMA OthersInv ==
  ASSUME Inv, Others
  PROVE  Inv'
<1> USE CallAssumption, NamesAssumption
<1>w. /\ named \in [Uuids -> Names \cup {Unborn, Gone}]
      /\ on \subseteq {u \in Uuids : named[u] \in Names}
      /\ suspended \subseteq {u \in Uuids : Alive(u)} \ on
      /\ snap \in [Snaps -> Snapshot \cup {Unborn, Gone}]
    BY DEF Inv, TypeOK, InventoryTypeOK
<1>s. SnapsHaveVm /\ \A s \in Live : s \in Snaps /\ snap[s] \in Snapshot
    BY <1>w, LiveIsSnapshot DEF Inv, Live
<1>k. snap' = snap => OwnersStay
    BY <1>w DEF OwnersStay
<1>q. ASSUME Other, OwnersStay, World', SnapsHaveVm', UNCHANGED denied PROVE Inv'
  <2>1. changes' \in 0..MaxChanges /\ UNCHANGED <<ack, call>>
      BY <1>q DEF Other, Inv, TypeOK
  <2>2. TypeOK'
      BY <2>1, <1>q DEF World, Inv, TypeOK
  <2> QED BY <2>1, <2>2, <1>q, CallStays DEF Inv
<1>1. ASSUME NEW u \in Uuids, NEW n \in Names, CreateVm(u, n) PROVE Inv'
  <2>1. World' /\ SnapsHaveVm'
      BY <1>1, <1>w, <1>s DEF CreateVm, Born, site, World, InventoryTypeOK, Alive, Inv, TypeOK, SnapsHaveVm, Live
  <2> QED BY <2>1, <1>1, <1>k, <1>q DEF CreateVm, site
<1>2. ASSUME NEW n \in Names, NEW u \in Uuids, NEW new \in Names, NEW running \in BOOLEAN,
             CloneVm(u, n, new, running)
      PROVE  Inv'
  <2>1. World' /\ SnapsHaveVm'
      BY <1>2, <1>w, <1>s DEF CloneVm, Born, site, World, InventoryTypeOK, Alive, Inv, TypeOK, SnapsHaveVm, Live
  <2> QED BY <2>1, <1>2, <1>k, <1>q DEF CloneVm, site
<1>3. ASSUME NEW n \in Names, PowerOnVm(n) PROVE Inv'
  <2>1. World' /\ SnapsHaveVm'
      BY <1>3, <1>w, <1>s, FoundIsAlive DEF PowerOnVm, PowerOn, site, World, InventoryTypeOK, Alive, Inv, TypeOK, SnapsHaveVm, Live
  <2> QED BY <2>1, <1>3, <1>k, <1>q DEF PowerOnVm, site
<1>4. ASSUME NEW n \in Names, SuspendVm(n) PROVE Inv'
  <2>1. World' /\ SnapsHaveVm'
      BY <1>4, <1>w, <1>s, FoundIsAlive DEF SuspendVm, PowerOff, site, World, InventoryTypeOK, Alive, Inv, TypeOK, SnapsHaveVm, Live
  <2> QED BY <2>1, <1>4, <1>k, <1>q DEF SuspendVm, site
<1>5. ASSUME NEW u \in Uuids, NEW s \in Snaps, NEW n \in SnapNames, CreateSnapshot(u, s, n)
      PROVE  Inv'
  <2>1. PICK p \in SnapsOf(u) \cup {Root} :
          snap' = [snap EXCEPT ![s] = [vm |-> u, name |-> n, parent |-> p]]
      BY <1>5 DEF CreateSnapshot
  <2>2. [vm |-> u, name |-> n, parent |-> p] \in Snapshot
      BY DEF Snapshot, SnapsOf, Live
  <2>3. /\ snap' \in [Snaps -> Snapshot \cup {Unborn, Gone}]
        /\ snap'[s] = [vm |-> u, name |-> n, parent |-> p]
        /\ \A t \in Snaps \ {s} : snap'[t] = snap[t]
      BY <2>1, <2>2, <1>w
  <2>4. Alive(u) /\ snap[s] = Unborn /\ UNCHANGED <<named, on, suspended, host, site>>
      BY <1>5 DEF CreateSnapshot
  <2>5. OwnersStay
      BY <2>3, <2>4, <1>w DEF OwnersStay
  <2>6. World'
      BY <2>3, <2>4, <1>w DEF World, InventoryTypeOK, Alive, Inv, TypeOK, site
  <2>7. SnapsHaveVm'
      BY <2>3, <2>4, <1>s DEF SnapsHaveVm, Live, Alive
  <2> QED BY <2>4, <2>5, <2>6, <2>7, <1>5, <1>q DEF CreateSnapshot, site
<1>6. ASSUME NEW u \in Uuids, OthersDestroy(u) PROVE Inv'
  <2>1. /\ named' = [named EXCEPT ![u] = Gone] /\ on' = on \ {u} /\ suspended' = suspended \ {u}
        /\ snap' = Without(u) /\ UNCHANGED <<host, closed, denied, tasks>>
      BY <1>6 DEF OthersDestroy, OutsideDestroy, Destroy, site
  <2>2. World'
      BY <2>1, <1>w, WithoutIsTyped DEF World, InventoryTypeOK, Alive, Inv, TypeOK
  <2>3. SnapsHaveVm'
      BY <2>1, <1>w, <1>s, WithoutIsTyped DEF SnapsHaveVm, Alive
  <2> QED BY <2>1, <2>2, <2>3, <1>6, <1>w, <1>q, WithoutIsTyped DEF OthersDestroy
<1>7. ASSUME NEW u \in Uuids, OthersStop(u) PROVE Inv'
  <2>1. World' /\ SnapsHaveVm'
      BY <1>7, <1>w, <1>s DEF OthersStop, PowerOff, site, World, InventoryTypeOK, Alive, Inv, TypeOK, SnapsHaveVm, Live
  <2> QED BY <2>1, <1>7, <1>k, <1>q DEF OthersStop, site
<1>8. ASSUME NEW s \in Snaps, OthersRemove(s) PROVE Inv'
  <2>1. /\ s \in Live /\ snap' = Removed(s, FALSE)
        /\ UNCHANGED <<named, on, suspended, host, closed, denied, tasks>>
      BY <1>8 DEF OthersRemove, site
  <2>2. World'
      BY <2>1, <1>w, RemovedIsTyped DEF World, InventoryTypeOK, Alive, Inv, TypeOK
  <2>3. SnapsHaveVm'
      BY <2>1, <1>w, <1>s, RemovedIsTyped DEF SnapsHaveVm, Alive
  <2> QED BY <2>1, <2>2, <2>3, <1>8, <1>w, <1>q, RemovedIsTyped DEF OthersRemove
<1>9. ASSUME NEW h \in Hosts, HostTurns(h) PROVE Inv'
  <2>1. World' /\ SnapsHaveVm'
      BY <1>9, <1>w, <1>s DEF HostTurns, vms, World, InventoryTypeOK, Alive, Inv, TypeOK, SnapsHaveVm, Live
  <2> QED BY <2>1, <1>9, <1>k, <1>q DEF HostTurns, vms
<1>10. CASE PolicyTurns
  <2>1. /\ changes' \in 0..MaxChanges /\ denied' = ~denied
        /\ UNCHANGED <<named, on, suspended, snap, host, closed, tasks, ack>>
        /\ call' = IF call = NoCall THEN call ELSE [call EXCEPT !.free = TRUE]
      BY <1>10 DEF PolicyTurns, Inv, TypeOK, vms
  <2>2. SnapsHaveVm'
      BY <2>1, <1>s DEF SnapsHaveVm, Live, Alive
  <2>3. CASE call = NoCall
      BY <2>1, <2>2, <2>3 DEF Inv, TypeOK, InventoryTypeOK, Alive
  <2>4. CASE call # NoCall
    <3>1. call \in Call /\ call' = [call EXCEPT !.free = TRUE]
        BY <2>1, <2>4 DEF Inv, TypeOK
    <3>2. call' \in Call /\ call'.free
        BY <3>1 DEF Call
    <3>3. CallOK(call)'
      <4>1. /\ call'.tool = call.tool /\ call'.mcp = call.mcp /\ call'.at = call.at
            /\ call'.seen = call.seen /\ call'.shot = call.shot /\ call'.vm = call.vm
            /\ call'.node = call.node /\ call'.host = call.host /\ call'.did = call.did /\ call'.task = call.task /\ call'.answer = call.answer
            /\ call'.ack = call.ack
          BY <3>1 DEF Call
      <4>2. CallOK(call)
          BY <2>4 DEF Inv
      <4>3. Shaped(call)' /\ Compared(call)'
          BY <4>1, <4>2 DEF CallOK, Shaped, Compared
      <4>4. Accounted(call)'
          BY <4>1, <4>2 DEF CallOK, Accounted
      <4>5. Denied(call)' /\ Owned(call)'
          BY <4>1, <4>2, <3>2, <2>1 DEF CallOK, Denied, Owned
      <4> QED BY <4>3, <4>4, <4>5 DEF CallOK
    <3>4. TypeOK'
        BY <2>1, <3>2 DEF Inv, TypeOK, InventoryTypeOK, Alive
    <3> QED BY <2>2, <3>3, <3>4 DEF Inv
  <2> QED BY <2>3, <2>4
<1> QED BY <1>1, <1>2, <1>3, <1>4, <1>5, <1>6, <1>7, <1>8, <1>9, <1>10 DEF Others

-----------------------------------------------------------------------------
(* What the call does                                                      *)

(* The answers that claim an effect, and the effect each claims.           *)
LEMMA EffectsClaimed ==
  /\ DOMAIN EffectOf = {"migrated", "reverted", "removed", "deleted"}
  /\ EffectOf["migrated"] = "moved" /\ EffectOf["reverted"] = "reverted"
  /\ EffectOf["removed"] = "removed" /\ EffectOf["deleted"] = "destroyed"
  BY DEF EffectOf

(* A step of the call leaves the invariant as it was if it does so for the *)
(* VMs and for the call.                                                   *)
LEMMA CallSteps ==
  ASSUME Inv, World', SnapsHaveVm', changes' = changes, ack' \in Acks \cup {NoAck},
         call' \in Call \cup {NoCall}, call' # NoCall => CallOK(call)'
  PROVE  Inv'
  BY DEF Inv, TypeOK, World

(* Most steps of a call change nothing but the call.                       *)
LEMMA WorldStays ==
  ASSUME Inv, UNCHANGED <<vms, site>>
  PROVE  World' /\ SnapsHaveVm' /\ OwnersStay
<1>1. UNCHANGED <<named, on, suspended, snap, host, closed, denied, tasks>>
    BY DEF vms, site
<1>2. SnapsHaveVm'
    BY <1>1 DEF Inv, SnapsHaveVm, Live, Alive
<1>3. World'
    BY <1>1 DEF Inv, TypeOK, World, InventoryTypeOK, Alive
<1>4. OwnersStay
    BY <1>1, LiveIsSnapshot DEF Inv, TypeOK, OwnersStay
<1> QED BY <1>2, <1>3, <1>4

(* A call that ends, claiming no effect, and nothing that it did not do.   *)
LEMMA Ends ==
  ASSUME call \in Call, CallOK(call), OwnersStay, denied' = denied, NEW a \in Answers, Answered(a),
         a \in {"noop", "refused", "rejected"} => call.did = {} /\ call.task = "none",
         a = "started" => call.task # "none", a \notin DOMAIN EffectOf
  PROVE  call' \in Call /\ CallOK(call)'
<1>1. /\ call' \in Call /\ call'.at = "answered" /\ call'.answer = a
      /\ call'.tool = call.tool /\ call'.mcp = call.mcp /\ call'.ack = call.ack
      /\ call'.seen = call.seen /\ call'.shot = call.shot /\ call'.vm = call.vm
      /\ call'.node = call.node /\ call'.host = call.host /\ call'.did = call.did /\ call'.task = call.task /\ call'.free = call.free
    BY DEF Answered, Call
<1>2. Shaped(call)' /\ Compared(call)'
    BY <1>1 DEF CallOK, Shaped, Compared, Holding
<1>3. Accounted(call)'
    BY <1>1 DEF CallOK, Accounted
<1>4. Denied(call)' /\ Owned(call)'
    BY <1>1 DEF CallOK, Denied, Owned, OwnersStay, Call
<1> QED BY <1>1, <1>2, <1>3, <1>4 DEF CallOK

(* A call that goes on to another label.                                   *)
LEMMA GoesOn ==
  ASSUME call \in Call, CallOK(call), OwnersStay, denied' = denied,
         NEW l \in {"asked", "stopped", "read"}, call' = [call EXCEPT !.at = l],
         call.at \in Holding, call.at # "waiting",
         l = "asked" => call.tool = "power_off", l = "stopped" => call.tool \in {"slate", "delete"}
  PROVE  call' \in Call /\ CallOK(call)'
<1>1. /\ call' \in Call /\ call'.at = l /\ call'.answer = call.answer
      /\ call'.tool = call.tool /\ call'.mcp = call.mcp /\ call'.ack = call.ack
      /\ call'.seen = call.seen /\ call'.shot = call.shot /\ call'.vm = call.vm
      /\ call'.node = call.node /\ call'.host = call.host /\ call'.did = call.did /\ call'.task = call.task /\ call'.free = call.free
    BY DEF Call
<1>2. Shaped(call)' /\ Compared(call)'
    BY <1>1 DEF CallOK, Shaped, Compared, Holding
<1>3. Accounted(call)'
    BY <1>1 DEF CallOK, Accounted, Holding
<1>4. Denied(call)' /\ Owned(call)'
    BY <1>1 DEF CallOK, Denied, Owned, OwnersStay, Call
<1> QED BY <1>1, <1>2, <1>3, <1>4 DEF CallOK

(* The executor takes the VM it finds: for a call over MCP other than      *)
(* Clean Slate, the one that was measured.  (require_instance_uuid)        *)
LEMMA FoundIsMeasured ==
  ASSUME call \in Call, CallOK(call), call.at = "measured", NEW u \in Found
  PROVE  u \in Uuids /\ (call.mcp /\ call.tool # "slate" => u = call.seen)
  BY CallAssumption DEF Found, Expected, CallOK, Shaped

(* What it takes is what its measurement saw.                              *)
LEMMA Takes ==
  ASSUME call \in Call, CallOK(call), OwnersStay, denied' = denied, At("measured"),
         NEW u \in Found, NEW l \in {"holding", "read"}, NEW s \in Snaps \cup {NoSnap},
         call' = [call EXCEPT !.at = l, !.vm = u, !.node = s],
         s \in Snaps => snap[s] \in Snapshot /\ snap[s].vm = u,
         call.mcp /\ call.tool \in {"revert", "remove"} => s \in {call.shot, NoSnap}
  PROVE  call' \in Call /\ CallOK(call)'
<1>0. call.at = "measured" /\ u \in Uuids /\ (call.mcp /\ call.tool # "slate" => u = call.seen)
    BY FoundIsMeasured DEF At
<1>1. /\ call' \in Call /\ call'.at = l /\ call'.answer = call.answer
      /\ call'.tool = call.tool /\ call'.mcp = call.mcp /\ call'.ack = call.ack
      /\ call'.seen = call.seen /\ call'.shot = call.shot /\ call'.vm = u
      /\ call'.node = s /\ call'.host = call.host /\ call'.did = call.did /\ call'.task = call.task /\ call'.free = call.free
    BY <1>0 DEF Call
<1>2. Shaped(call)'
    BY <1>0, <1>1 DEF CallOK, Shaped, Holding
<1>3. Compared(call)'
    BY <1>0, <1>1 DEF CallOK, Shaped, Compared
<1>4. Accounted(call)'
    BY <1>0, <1>1 DEF CallOK, Accounted
<1>5. Denied(call)'
    BY <1>0, <1>1 DEF CallOK, Denied
<1>6. Owned(call)'
    BY <1>1, CallAssumption DEF Owned, OwnersStay
<1> QED BY <1>1, <1>2, <1>3, <1>4, <1>5, <1>6 DEF CallOK

(* What a task changes in the call: what it did, its label and its answer. *)
LEMMA DidFields ==
  ASSUME call \in Call, call.vm \in Uuids, NEW e \in Effects,
         NEW l \in {"asked", "read", "stopped", "answered"}, NEW a \in Answers,
         call' = [call EXCEPT !.did = @ \cup {<<e, call.vm>>}, !.at = l, !.answer = a]
  PROVE  /\ call' \in Call /\ call'.at = l /\ call'.answer = a
         /\ call'.did = call.did \cup {<<e, call.vm>>}
         /\ call'.tool = call.tool /\ call'.mcp = call.mcp /\ call'.ack = call.ack
         /\ call'.seen = call.seen /\ call'.shot = call.shot /\ call'.vm = call.vm
         /\ call'.node = call.node /\ call'.host = call.host /\ call'.free = call.free /\ call'.task = call.task
<1>1. PICK c : c = [call EXCEPT !.did = @ \cup {<<e, call.vm>>}]
    OBVIOUS
<1>2. PICK d : d = [c EXCEPT !.at = l]
    OBVIOUS
<1>3. call' = [d EXCEPT !.answer = a]
    BY <1>1, <1>2
<1>4. call.did \cup {<<e, call.vm>>} \in SUBSET (Effects \X Uuids)
    BY DEF Call
<1>5. c \in Call /\ c.did = call.did \cup {<<e, call.vm>>} /\ c.tool = call.tool
      /\ c.mcp = call.mcp /\ c.ack = call.ack /\ c.seen = call.seen /\ c.shot = call.shot
      /\ c.vm = call.vm /\ c.node = call.node /\ c.host = call.host /\ c.free = call.free /\ c.task = call.task
    BY <1>1, <1>4 DEF Call
<1>6. d \in Call /\ d.at = l /\ d.did = c.did /\ d.tool = c.tool
      /\ d.mcp = c.mcp /\ d.ack = c.ack /\ d.seen = c.seen /\ d.shot = c.shot
      /\ d.vm = c.vm /\ d.node = c.node /\ d.host = c.host /\ d.free = c.free /\ d.task = c.task
    BY <1>2, <1>5 DEF Call
<1>m. call' \in Call
    BY <1>3, <1>6 DEF Call
<1>7. call'.answer = a /\ call'.at = d.at /\ call'.did = d.did
      /\ call'.tool = d.tool /\ call'.mcp = d.mcp /\ call'.ack = d.ack /\ call'.seen = d.seen
      /\ call'.shot = d.shot /\ call'.vm = d.vm /\ call'.node = d.node /\ call'.host = d.host /\ call'.free = d.free
      /\ call'.task = d.task
    BY <1>3, <1>6 DEF Call
<1> QED BY <1>5, <1>6, <1>m, <1>7

(* A task took effect on the VM the call holds; the answer claims at most  *)
(* that effect.                                                            *)
LEMMA DoesIt ==
  ASSUME call \in Call, CallOK(call), OwnersStay, denied' = denied, call.at \in Holding,
         NEW e \in Effects, NEW l \in {"asked", "read", "stopped", "answered"}, NEW a \in Answers,
         call' = [call EXCEPT !.did = @ \cup {<<e, call.vm>>}, !.at = l, !.answer = a],
         l = "asked" => call.tool = "power_off", l = "stopped" => call.tool \in {"slate", "delete"},
         l # "answered" => a = "none",
         a \in DOMAIN EffectOf => EffectOf[a] = e, a \notin {"noop", "refused", "rejected", "started"},
         call.at # "waiting", e = "destroyed" => call.tool = "delete",
         e = "stopped" /\ call.tool \in {"slate", "delete"} => ~denied
  PROVE  call' \in Call /\ CallOK(call)'
<1>1. /\ call' \in Call /\ call'.at = l /\ call'.answer = a /\ call.vm \in Uuids
      /\ call'.tool = call.tool /\ call'.mcp = call.mcp /\ call'.ack = call.ack
      /\ call'.seen = call.seen /\ call'.shot = call.shot /\ call'.vm = call.vm
      /\ call'.node = call.node /\ call'.host = call.host /\ call'.free = call.free
      /\ call'.did = call.did \cup {<<e, call.vm>>} /\ call'.task = call.task
  <2>1. call.vm \in Uuids
      BY DEF CallOK, Shaped
  <2> QED BY <2>1, DidFields
<1>2. Shaped(call)' /\ Compared(call)'
    BY <1>1 DEF CallOK, Shaped, Compared, Holding
<1>3. Accounted(call)'
  <2>1. /\ \A f \in Effects, u \in Uuids : <<f, u>> \in call.did => u = call.vm
        /\ \A u \in Uuids : <<"destroyed", u>> \in call.did => call.tool = "delete"
        /\ call.task = "none"
      BY DEF CallOK, Accounted, Holding
  <2>2. \A f \in Effects, u \in Uuids : <<f, u>> \in call'.did => u = call.vm
      BY <1>1, <2>1
  <2>3. \A u \in Uuids : <<"destroyed", u>> \in call'.did => call.tool = "delete"
      BY <1>1, <2>1
  <2>4. \A b \in DOMAIN EffectOf : a = b => \E u \in Uuids : <<EffectOf[b], u>> \in call'.did
      BY <1>1
  <2>5. call'.at \notin {"measured", "holding", "waiting"}
      BY <1>1
  <2> QED BY <1>1, <2>1, <2>2, <2>3, <2>4, <2>5 DEF Accounted
<1>4. Denied(call)'
    BY <1>1 DEF CallOK, Denied
<1>5. Owned(call)'
    BY <1>1 DEF CallOK, Owned, OwnersStay, Call
<1> QED BY <1>1, <1>2, <1>3, <1>4, <1>5 DEF CallOK

-----------------------------------------------------------------------------
(* The calls begin                                                         *)

(* A new call has done nothing, and knows whether policy allows a          *)
(* power-off.                                                              *)
Fresh(c, tool, mcp) ==
  /\ c \in Call /\ c.tool = tool /\ (c.mcp <=> mcp) /\ c.at = "measured" /\ c.did = {} /\ c.task = "none"
  /\ c.node = NoSnap /\ c.vm = NoUuid /\ c.answer = "none" /\ (~c.free => denied)

(* A new call is fresh.                                                    *)
LEMMA NewIsFresh ==
  ASSUME Inv, NEW tool \in Tools, NEW mcp \in BOOLEAN, NEW n \in Names
  PROVE  Fresh(New(tool, mcp, n), tool, mcp)
<1>1. New(tool, mcp, n) \in Call
    BY DEF Inv, TypeOK, New, Call, Answers
<1> QED BY <1>1 DEF Fresh, New, Inv, TypeOK

(* So is one with its snapshot.                                            *)
LEMMA SnapKeepsFresh ==
  ASSUME NEW tool, NEW mcp, NEW c, Fresh(c, tool, mcp), NEW s \in SnapNames \cup {NoSnap}
  PROVE  Fresh([c EXCEPT !.snap = s], tool, mcp) /\ [c EXCEPT !.snap = s].snap = s
  BY DEF Fresh, Call

(* So is one with its host.                                                *)
LEMMA HostKeepsFresh ==
  ASSUME NEW tool, NEW mcp, NEW c, Fresh(c, tool, mcp), NEW h \in Hosts \cup {NoHost}
  PROVE  Fresh([c EXCEPT !.host = h], tool, mcp)
  BY DEF Fresh, Call

(* The host it was given is the host it has.                               *)
LEMMA HostGiven ==
  ASSUME NEW c \in Call, NEW h
  PROVE  [c EXCEPT !.host = h].host = h
  BY DEF Call

(* So is one with force.                                                   *)
LEMMA HardKeepsFresh ==
  ASSUME NEW tool, NEW mcp, NEW c, Fresh(c, tool, mcp), NEW b \in BOOLEAN
  PROVE  Fresh([c EXCEPT !.hard = b], tool, mcp)
  BY DEF Fresh, Call

(* So is one with a snapshot and a flag.                                   *)
LEMMA SnapAndHardKeepFresh ==
  ASSUME NEW tool, NEW mcp, NEW c, Fresh(c, tool, mcp), NEW s \in SnapNames \cup {NoSnap},
         NEW b \in BOOLEAN, NEW d, d = [c EXCEPT !.snap = s, !.hard = b]
  PROVE  Fresh(d, tool, mcp) /\ d.snap = s
<1>1. c \in Call
    BY DEF Fresh
<1>2. d \in Call
    BY <1>1 DEF Call
<1>3. {"snap", "tool", "mcp", "at", "did", "task", "node", "vm", "answer", "free", "hard"} \subseteq DOMAIN c
    BY <1>1 DEF Call
<1>4. /\ d.snap = s /\ d.tool = c.tool /\ d.mcp = c.mcp /\ d.at = c.at /\ d.did = c.did
      /\ d.task = c.task /\ d.node = c.node /\ d.vm = c.vm /\ d.answer = c.answer /\ d.free = c.free
    BY <1>3
<1> QED BY <1>2, <1>4 DEF Fresh

\* A call that has done nothing yet, and is answered, measured or asked about.
Begun(c) ==
  /\ c \in Call /\ c.did = {} /\ c.task = "none" /\ c.node = NoSnap /\ (~c.free => denied)
  /\ \/ c.answer = "none"
     \/ c.at = "answered" /\ c.answer \in {"noop", "refused", "error"}
  /\ \/ c.at = "answered" /\ c.vm = NoUuid
     \/ /\ c.at = "measured" /\ c.vm = NoUuid
        /\ c.mcp => c.seen \in Uuids /\ c.tool # "delete"
        /\ c.tool = "migrate" => c.host \in Hosts
     \/ /\ c.tool = "delete" /\ c.at = "holding" /\ c.vm \in Uuids /\ c.vm = c.seen
        /\ c.ack # NoAck /\ c.ack.uuid = c.vm

(* A call that is answered at once did nothing.                            *)
LEMMA AnswersAtOnce ==
  ASSUME NEW tool, NEW mcp, NEW c, Fresh(c, tool, mcp), NEW a \in {"noop", "refused", "error"}
  PROVE  Begun([c EXCEPT !.at = "answered", !.answer = a])
<1>1. PICK d : d = [c EXCEPT !.at = "answered", !.answer = a]
    OBVIOUS
<1>2. d \in Call /\ d.at = "answered" /\ d.answer = a /\ d.did = {} /\ d.task = "none" /\ d.node = NoSnap
      /\ d.vm = NoUuid /\ (~d.free => denied)
    BY <1>1 DEF Fresh, Call, Answers
<1>3. Begun(d)
    BY <1>2 DEF Begun
<1> QED BY <1>1, <1>3

(* A call begins with nothing done.                                        *)
LEMMA Begins ==
  ASSUME Inv, UNCHANGED <<vms, site, ack, changes>>, Begun(call')
  PROVE  Inv'
<1>1. CallOK(call)'
  <2>1. denied' = denied
      BY DEF site
  <2>2. Shaped(call)' /\ Compared(call)' /\ Denied(call)' /\ Owned(call)'
      BY <2>1, CallAssumption DEF Begun, Shaped, Compared, Denied, Owned, Holding
  <2>3. Accounted(call)'
      BY CallAssumption, EffectsClaimed DEF Begun, Accounted
  <2> QED BY <2>2, <2>3 DEF CallOK
<1> QED BY <1>1, WorldStays, CallSteps DEF Begun, Inv, TypeOK

(* The gate of a tool that measures one VM.                                *)
LEMMA GateBegins ==
  ASSUME Inv, NEW c, NEW tool \in Tools \ {"delete"}, Fresh(c, tool, TRUE), NEW u \in Uuids,
         NEW noop \in BOOLEAN, NEW blocked \in BOOLEAN, Gate(c, u, noop, blocked),
         tool \in Snapshotted => ~noop /\ blocked = SnapshotBlocked(u, c.snap),
         tool = "migrate" => c.host \in Hosts
  PROVE  Begun(call')
<1>1. CASE noop
  <2>1. call' = [c EXCEPT !.at = "answered", !.answer = "noop"]
      BY <1>1 DEF Gate
  <2> QED BY <2>1, AnswersAtOnce
<1>2. CASE ~noop /\ blocked
  <2>1. call' = [c EXCEPT !.at = "answered", !.answer = "refused"]
      BY <1>2 DEF Gate
  <2> QED BY <2>1, AnswersAtOnce
<1>3. CASE ~noop /\ ~blocked
  <2>1. PICK shot :
          /\ shot = IF c.tool \in Snapshotted THEN TheOne(Matches(u, c.snap)) ELSE NoSnap
          /\ call' = [c EXCEPT !.seen = u, !.shot = shot]
    <3>1. call' = [c EXCEPT !.seen = u, !.shot = IF c.tool \in Snapshotted
                                                THEN TheOne(Matches(u, c.snap)) ELSE NoSnap]
        BY <1>3 DEF Gate
    <3> QED BY <3>1
  <2>2. shot \in Snaps \cup {NoSnap}
      BY <1>3, <2>1, OneMatches DEF Fresh, Matches, SnapsOf, Live
  <2>3. ASSUME NEW d, d = [c EXCEPT !.seen = u, !.shot = shot]
        PROVE  /\ d \in Call /\ d.seen = u /\ d.tool = c.tool /\ d.host = c.host
               /\ d.did = {} /\ d.node = NoSnap /\ d.vm = NoUuid /\ d.answer = "none" /\ d.task = "none"
               /\ d.at = "measured" /\ (~d.free => denied)
    <3>1. c \in Call
        BY DEF Fresh
    <3>2. d \in Call
        BY <2>2, <2>3, <3>1 DEF Call
    <3>3. /\ d.seen = u /\ d.tool = c.tool /\ d.host = c.host /\ d.did = c.did /\ d.node = c.node
          /\ d.vm = c.vm /\ d.answer = c.answer /\ d.task = c.task /\ d.at = c.at /\ d.free = c.free
        BY <2>3, <3>1 DEF Call
    <3> QED BY <3>2, <3>3 DEF Fresh
  <2>4. call' = [c EXCEPT !.seen = u, !.shot = shot] /\ c.tool # "delete"
      BY <2>1 DEF Fresh
  <2> QED BY <2>3, <2>4 DEF Begun, Fresh
<1> QED BY <1>1, <1>2, <1>3

(* The confirmed delete_vm holds the VM it measured, if the preview that   *)
(* was acknowledged is of that VM, with as many snapshots.                 *)
LEMMA ConfirmBegins ==
  ASSUME Inv, NEW n \in Names, ConfirmDelete(n)
  PROVE  Begun(call')
<1>1. PICK u \in Uuids :
        LET c == [New("delete", TRUE, n) EXCEPT !.ack = ack, !.seen = u]
        IN  call' = IF Refusal(u, ack)
                    THEN [c EXCEPT !.at = "answered", !.answer = "refused"]
                    ELSE [c EXCEPT !.at = "holding", !.vm = u]
    BY DEF ConfirmDelete
<1> DEFINE new == New("delete", TRUE, n)
<1>2. Fresh(new, "delete", TRUE) /\ ack \in Acks \cup {NoAck}
    BY NewIsFresh DEF Tools, Inv, TypeOK
<1> HIDE DEF new
<1>3. PICK c : c = [new EXCEPT !.ack = ack, !.seen = u]
    OBVIOUS
<1>4. Fresh(c, "delete", TRUE) /\ c.seen = u /\ c.ack = ack
  <2>1. new \in Call
      BY <1>2 DEF Fresh
  <2>2. c \in Call
      BY <1>2, <1>3, <2>1 DEF Call
  <2>3. /\ c.seen = u /\ c.ack = ack /\ c.tool = new.tool /\ c.mcp = new.mcp /\ c.at = new.at
        /\ c.did = new.did /\ c.task = new.task /\ c.node = new.node /\ c.vm = new.vm
        /\ c.answer = new.answer /\ c.free = new.free
      BY <1>3, <2>1 DEF Call
  <2> QED BY <1>2, <2>2, <2>3 DEF Fresh
<1>5. CASE Refusal(u, ack)
  <2>1. call' = [c EXCEPT !.at = "answered", !.answer = "refused"]
      BY <1>1, <1>3, <1>5 DEF new
  <2> QED BY <1>4, <2>1, AnswersAtOnce
<1>6. CASE ~Refusal(u, ack)
  <2>1. call' = [c EXCEPT !.at = "holding", !.vm = u]
      BY <1>1, <1>3, <1>6 DEF new
  <2>2. ack = Measured(u) /\ ack # NoAck /\ ack.uuid = u
      BY <1>6, MeasuredIsAck, CallAssumption DEF Refusal, Measured
  <2>3. ASSUME NEW d, d = [c EXCEPT !.at = "holding", !.vm = u]
        PROVE  /\ d \in Call /\ d.tool = "delete" /\ d.at = "holding" /\ d.vm = u
               /\ d.seen = u /\ d.ack = ack /\ d.did = {} /\ d.node = NoSnap
               /\ d.task = "none" /\ d.answer = "none" /\ (~d.free => denied)
    <3>1. PICK e : e = [c EXCEPT !.at = "holding"]
        OBVIOUS
    <3>m. e \in Call
        BY <1>4, <3>1 DEF Fresh, Call
    <3>2. e.tool = "delete" /\ e.at = "holding" /\ e.seen = u /\ e.ack = ack
          /\ e.did = {} /\ e.task = "none" /\ e.node = NoSnap /\ e.answer = "none" /\ (~e.free => denied)
        BY <1>4, <3>1 DEF Fresh, Call
    <3>3. d = [e EXCEPT !.vm = u]
        BY <2>3, <3>1
    <3>4. d \in Call
        BY <3>m, <3>3 DEF Call
    <3> QED BY <3>m, <3>2, <3>3, <3>4 DEF Call
  <2>4. Begun([c EXCEPT !.at = "holding", !.vm = u])
      BY <2>2, <2>3 DEF Begun
  <2> QED BY <2>1, <2>4
<1> QED BY <1>5, <1>6

(* Every way a call over MCP begins.                                       *)
LEMMA ToolBegins ==
  ASSUME Inv, NEW n \in Names, Tool(n), ~PreviewDelete(n)
  PROVE  Begun(call')
<1>n. \A tool \in Tools : Fresh(New(tool, TRUE, n), tool, TRUE)
    BY NewIsFresh
<1>2. CASE ConfirmDelete(n)
    BY <1>2, ConfirmBegins
<1>3. ASSUME NEW tool \in Tools, Unfound(n, tool) PROVE Begun(call')
  <2>1. PICK c : c = New(tool, TRUE, n) /\ Fresh(c, tool, TRUE)
      BY <1>n
  <2>2. call' = [c EXCEPT !.at = "answered", !.answer = "error"]
      BY <1>3, <2>1 DEF Unfound
  <2> QED BY <2>1, <2>2, AnswersAtOnce
<1>4. ASSUME NEW u \in Uuids, NEW b \in BOOLEAN, MeasurePowerOff(u, n, b) PROVE Begun(call')
  <2>1. Fresh([New("power_off", TRUE, n) EXCEPT !.hard = b], "power_off", TRUE)
      BY <1>n, HardKeepsFresh DEF Tools
  <2>2. Off(u) \in BOOLEAN /\ PowerOffBlocked(u, b) \in BOOLEAN
      BY DEF Off, PowerOffBlocked
  <2>3. "power_off" \in Tools \ {"delete"} /\ "power_off" \notin Snapshotted
      BY DEF Tools, Snapshotted
  <2> QED BY <1>4, <2>1, <2>2, <2>3, GateBegins, Zenon DEF MeasurePowerOff
<1>5. ASSUME NEW u \in Uuids, NEW h \in Hosts, MeasureMigrate(u, n, h) PROVE Begun(call')
  <2>1. Fresh([New("migrate", TRUE, n) EXCEPT !.host = h], "migrate", TRUE)
      BY <1>n, HostKeepsFresh DEF Tools
  <2>h. [New("migrate", TRUE, n) EXCEPT !.host = h].host \in Hosts
      BY <1>n, HostGiven DEF Tools, Fresh
  <2>2. MoveBlocked(h) \in BOOLEAN /\ (host[u] = h) \in BOOLEAN
      BY DEF MoveBlocked, NotReceiving
  <2>3. "migrate" \in Tools \ {"delete"} /\ "migrate" \notin Snapshotted
      BY DEF Tools, Snapshotted
  <2> QED BY <1>5, <2>1, <2>h, <2>2, <2>3, GateBegins, Zenon DEF MeasureMigrate
<1>b. \A u \in Uuids, s \in SnapNames : SnapshotBlocked(u, s) \in BOOLEAN
    BY DEF SnapshotBlocked
<1>g. ASSUME NEW tool \in Snapshotted, NEW c, Fresh(c, tool, TRUE), NEW u \in Uuids,
             NEW s \in SnapNames, c.snap = s, Gate(c, u, FALSE, SnapshotBlocked(u, s))
      PROVE  Begun(call')
  <2>1. tool \in Tools \ {"delete"} /\ tool # "migrate"
      BY DEF Snapshotted, Tools
  <2> QED BY <2>1, <1>g, <1>b, GateBegins
<1>6. ASSUME NEW u \in Uuids, NEW s \in SnapNames, MeasureRevert(u, n, s) PROVE Begun(call')
  <2>1. Fresh([New("revert", TRUE, n) EXCEPT !.snap = s], "revert", TRUE)
        /\ [New("revert", TRUE, n) EXCEPT !.snap = s].snap = s
      BY <1>n, SnapKeepsFresh DEF Tools
  <2> QED BY <1>6, <2>1, <1>g DEF MeasureRevert, Snapshotted
<1>7. ASSUME NEW u \in Uuids, NEW s \in SnapNames, NEW b \in BOOLEAN, MeasureRemove(u, n, s, b)
      PROVE  Begun(call')
  <2>1. PICK c : c = [New("remove", TRUE, n) EXCEPT !.snap = s, !.hard = b]
      OBVIOUS
  <2>2. Fresh(c, "remove", TRUE) /\ c.snap = s
    <3>1. PICK new : new = New("remove", TRUE, n)
        OBVIOUS
    <3>2. Fresh(new, "remove", TRUE) /\ c = [new EXCEPT !.snap = s, !.hard = b]
        BY <1>n, <2>1, <3>1 DEF Tools
    <3>3. s \in SnapNames \cup {NoSnap}
        OBVIOUS
    <3>4. Fresh(c, "remove", TRUE)
        BY <3>2, <3>3, SnapAndHardKeepFresh
    <3>5. c.snap = s
        BY <3>2, <3>3 DEF Fresh, Call
    <3> QED BY <3>4, <3>5
  <2>3. Gate(c, u, FALSE, SnapshotBlocked(u, s))
      BY <1>7, <2>1 DEF MeasureRemove
  <2> QED BY <2>2, <2>3, <1>g DEF Snapshotted
<1>8. ASSUME NEW u \in Uuids, NEW s \in SnapNames, MeasureSlate(u, n, s) PROVE Begun(call')
  <2>1. Fresh([New("slate", TRUE, n) EXCEPT !.snap = s], "slate", TRUE)
        /\ [New("slate", TRUE, n) EXCEPT !.snap = s].snap = s
      BY <1>n, SnapKeepsFresh DEF Tools
  <2> QED BY <1>8, <2>1, <1>g DEF MeasureSlate, Snapshotted
<1> QED BY <1>2, <1>3, <1>4, <1>5, <1>6, <1>7, <1>8 DEF Tool

(* Every way a command begins: with the prompt.                            *)
LEMMA CommandBegins ==
  ASSUME Inv, NEW n \in Names, Command(n)
  PROVE  Begun(call')
<1>p. ASSUME NEW tool \in Tools, NEW c, Fresh(c, tool, FALSE), Prompt(c),
             tool = "migrate" => c.host \in Hosts
      PROVE  Begun(call')
    BY <1>p DEF Prompt, Begun, Fresh
<1>n. \A tool \in Tools : Fresh(New(tool, FALSE, n), tool, FALSE)
    BY NewIsFresh
<1>1. CASE CliDelete(n)
    BY <1>1, <1>n, <1>p DEF CliDelete, Tools
<1>2. ASSUME NEW b \in BOOLEAN, CliPowerOff(n, b) PROVE Begun(call')
  <2>1. Fresh([New("power_off", FALSE, n) EXCEPT !.hard = b], "power_off", FALSE)
      BY <1>n, HardKeepsFresh DEF Tools
  <2> QED BY <1>2, <2>1, <1>p DEF CliPowerOff, Tools
<1>3. ASSUME NEW h \in Hosts, CliMigrate(n, h) PROVE Begun(call')
  <2>1. Fresh([New("migrate", FALSE, n) EXCEPT !.host = h], "migrate", FALSE)
      BY <1>n, HostKeepsFresh DEF Tools
  <2>h. [New("migrate", FALSE, n) EXCEPT !.host = h].host \in Hosts
      BY <1>n, HostGiven DEF Tools, Fresh
  <2> QED BY <1>3, <2>1, <2>h, <1>p DEF CliMigrate, Tools
<1>4. ASSUME NEW s \in SnapNames, CliRevert(n, s) PROVE Begun(call')
  <2>1. Fresh([New("revert", FALSE, n) EXCEPT !.snap = s], "revert", FALSE)
      BY <1>n, SnapKeepsFresh DEF Tools
  <2> QED BY <1>4, <2>1, <1>p DEF CliRevert, Tools
<1>5. ASSUME NEW s \in SnapNames, NEW b \in BOOLEAN, CliRemove(n, s, b) PROVE Begun(call')
  <2>1. PICK c : c = [New("remove", FALSE, n) EXCEPT !.snap = s, !.hard = b]
      OBVIOUS
  <2>2. Fresh(c, "remove", FALSE)
      BY <1>n, <2>1, SnapAndHardKeepFresh DEF Tools
  <2>3. Prompt(c)
      BY <1>5, <2>1 DEF CliRemove
  <2> QED BY <2>2, <2>3, <1>p DEF Tools
<1>6. ASSUME NEW s \in SnapNames, CliSlate(n, s) PROVE Begun(call')
  <2>1. Fresh([New("slate", FALSE, n) EXCEPT !.snap = s], "slate", FALSE)
      BY <1>n, SnapKeepsFresh DEF Tools
  <2> QED BY <1>6, <2>1, <1>p DEF CliSlate, Tools
<1> QED BY <1>1, <1>2, <1>3, <1>4, <1>5, <1>6 DEF Command

(* A call that begins does nothing else, and does not have the answer      *)
(* powered_off; a preview leaves what there is to acknowledge.             *)
LEMMA CallsBegin ==
  ASSUME Inv, NEW n \in Names, Tool(n) \/ Command(n)
  PROVE  Inv' /\ (call' = call \/ Begun(call'))
<1>1. CASE PreviewDelete(n)
  <2>1. PICK u \in Uuids : ack' = Measured(u)
      BY <1>1 DEF PreviewDelete
  <2>2. UNCHANGED <<vms, site, call, changes>>
      BY <1>1 DEF PreviewDelete
  <2>3. ack' \in Acks /\ World' /\ SnapsHaveVm' /\ OwnersStay
      BY <2>1, <2>2, MeasuredIsAck, WorldStays
  <2>4. (call # NoCall => CallOK(call))'
      BY <2>2, <2>3, CallStays DEF site
  <2> QED BY <2>2, <2>3, <2>4, CallSteps DEF Inv, TypeOK
<1>2. CASE ~PreviewDelete(n)
  <2>1. Begun(call')
      BY <1>2, ToolBegins, CommandBegins
  <2>2. UNCHANGED <<vms, site, ack, changes>>
    <3>1. CASE Tool(n)
      <4>1. ASSUME NEW c, NEW u, NEW noop, NEW blocked, Gate(c, u, noop, blocked)
            PROVE  UNCHANGED <<vms, site, ack, changes>>
          BY <4>1 DEF Gate
      <4> QED BY <1>2, <3>1, <4>1, Zenon DEF Tool, ConfirmDelete, Unfound, MeasurePowerOff,
              MeasureMigrate, MeasureRevert, MeasureRemove, MeasureSlate
    <3>2. CASE Command(n)
      <4>1. ASSUME NEW c, Prompt(c) PROVE UNCHANGED <<vms, site, ack, changes>>
          BY <4>1 DEF Prompt
      <4> QED BY <3>2, <4>1, Zenon DEF Command, CliDelete, CliPowerOff, CliMigrate, CliRevert,
              CliRemove, CliSlate
    <3> QED BY <3>1, <3>2
  <2> QED BY <2>1, <2>2, Begins
<1> QED BY <1>1, <1>2

-----------------------------------------------------------------------------
(* The steps of the call itself.                                           *)
LEMMA OwnInv ==
  ASSUME Inv, Own
  PROVE  Inv'
<1> USE CallAssumption, NamesAssumption
<1>w. /\ named \in [Uuids -> Names \cup {Unborn, Gone}]
      /\ on \subseteq {u \in Uuids : named[u] \in Names}
      /\ suspended \subseteq {u \in Uuids : Alive(u)} \ on
      /\ snap \in [Snaps -> Snapshot \cup {Unborn, Gone}]
      /\ host \in [Uuids -> Hosts] /\ closed \subseteq Hosts /\ denied \in BOOLEAN
      /\ tasks \subseteq Snaps \X BOOLEAN
    BY DEF Inv, TypeOK, InventoryTypeOK
<1>s. SnapsHaveVm /\ \A s \in Snaps : s \in Live <=> snap[s] \in Snapshot
    BY <1>w, LiveIsSnapshot DEF Inv
<1>c. call # NoCall => call \in Call /\ CallOK(call)
    BY DEF Inv, TypeOK
<1>k. snap' = snap => OwnersStay
    BY <1>w DEF OwnersStay
\* A step that changes nothing but the call.
<1>q. ASSUME UNCHANGED <<vms, site, ack, changes>>, call # NoCall,
             OwnersStay /\ denied' = denied => call' \in Call /\ CallOK(call)'
      PROVE  Inv'
  <2>1. World' /\ SnapsHaveVm' /\ OwnersStay
      BY <1>q, WorldStays
  <2> QED BY <2>1, <1>q, CallSteps DEF site, Inv, TypeOK
\* A step that ends the call.
<1>e. ASSUME UNCHANGED <<vms, site, ack, changes>>, call # NoCall, NEW a \in Answers, Answered(a),
             a \in {"noop", "refused", "rejected"} => call.did = {} /\ call.task = "none",
             a = "started" => call.task # "none", a \notin DOMAIN EffectOf
      PROVE  Inv'
    BY <1>e, <1>c, <1>q, Ends
<1>a. \A a \in {"refused", "rejected", "error", "said", "powered_off", "still_running"} :
        a \in Answers /\ a \notin DOMAIN EffectOf
    BY EffectsClaimed DEF Answers
\* Nothing was done while it was measured.
<1>m. call # NoCall /\ call.at \in {"measured", "holding"} => call.did = {} /\ call.task = "none"
    BY <1>c DEF CallOK, Accounted
<1>n. ASSUME UNCHANGED <<vms, site, ack, changes>>, call # NoCall, call.at = "measured", NotDone
      PROVE  Inv'
  <2>1. PICK a \in {"refused", "said"} : Answered(a)
      BY <1>n DEF NotDone
  <2> QED BY <2>1, <1>n, <1>a, <1>m, <1>e
<1>1. CASE Unmeasured
    BY <1>1, <1>a, <1>m, <1>e DEF Unmeasured, Answered
<1>2. CASE Incompatible
    BY <1>2, <1>a, <1>m, <1>e DEF Incompatible, Answered
<1>3. CASE CliRejected
    BY <1>3, <1>a, <1>m, <1>e DEF CliRejected, Answered
<1>4. CASE LookupRefused
    BY <1>4, <1>a, <1>m, <1>e DEF LookupRefused, At
<1>5. CASE LookupSnapshot
  <2>0. At("measured") /\ call # NoCall /\ UNCHANGED <<vms, site, ack, changes>>
      BY <1>5 DEF LookupSnapshot, At
  <2>1. PICK u \in Found :
          IF Resolved(u) = {} THEN NotDone
          ELSE call' = [call EXCEPT !.at = "holding", !.vm = u, !.node = TheOne(Resolved(u))]
      BY <1>5 DEF LookupSnapshot
  <2>2. CASE Resolved(u) = {}
      BY <2>0, <2>1, <2>2, <1>n DEF At
  <2>3. CASE Resolved(u) # {}
    <3>1. PICK s : s = TheOne(Resolved(u)) /\ s \in Resolved(u)
        BY <2>3 DEF TheOne
    <3>2. s \in Snaps /\ s \in Live /\ snap[s].vm = u
        BY <3>1 DEF Resolved, Matches, SnapsOf, Live
    <3>3. call.mcp /\ call.tool \in {"revert", "remove"} => s = call.shot
      <4>1. call.mcp /\ call.tool \in {"revert", "remove"} => Expected # NoUuid
          BY <2>0, <1>c DEF Expected, At, CallOK, Shaped
      <4> QED BY <4>1, <3>1 DEF Resolved
    <3>4. call' = [call EXCEPT !.at = "holding", !.vm = u, !.node = s]
        BY <2>1, <2>3, <3>1
    <3>5. OwnersStay /\ denied' = denied => call' \in Call /\ CallOK(call)'
        BY <2>0, <1>c, <1>s, <3>2, <3>3, <3>4, Takes
    <3> QED BY <2>0, <3>5, <1>q
  <2> QED BY <2>2, <2>3
\* The call holds a VM, and no snapshot.
<1>h. ASSUME UNCHANGED <<vms, site, ack, changes>>, At("measured"), NEW u \in Found,
             NEW l \in {"holding", "read"}, call' = [call EXCEPT !.at = l, !.vm = u]
      PROVE  Inv'
  <2>1. call # NoCall /\ call \in Call /\ CallOK(call) /\ call.node = NoSnap
      BY <1>h, <1>c DEF At, CallOK, Shaped
  <2>2. [call EXCEPT !.at = l, !.vm = u] = [call EXCEPT !.at = l, !.vm = u, !.node = NoSnap]
    <3>1. PICK d : d = [call EXCEPT !.at = l, !.vm = u]
        OBVIOUS
    <3>2. d.node = NoSnap /\ d = [d EXCEPT !.node = NoSnap]
        BY <3>1, <2>1 DEF Call
    <3> QED BY <3>1, <3>2
  <2>3. OwnersStay /\ denied' = denied => call' \in Call /\ CallOK(call)'
      BY <1>h, <2>1, <2>2, Takes
  <2> QED BY <1>h, <2>1, <2>3, <1>q
<1>6. CASE LookupMigrate
    BY <1>6, <1>h, <1>n DEF LookupMigrate, At
<1>7. CASE LookupPower
    BY <1>7, <1>h DEF LookupPower
<1>8. CASE Raises
    BY <1>8, <1>a, <1>e DEF Raises
<1>9. CASE AskGuest
  <2>1. call # NoCall /\ call.at = "holding" /\ call.tool = "power_off"
        /\ call' = [call EXCEPT !.at = "asked"] /\ UNCHANGED <<vms, site, ack, changes>>
      BY <1>9 DEF AskGuest, At
  <2>2. OwnersStay /\ denied' = denied => call' \in Call /\ CallOK(call)'
      BY <2>1, <1>c, GoesOn DEF Holding
  <2> QED BY <2>1, <2>2, <1>q
<1>10. CASE StopWaiting
  <2>1. call # NoCall /\ call.at = "asked"
        /\ call' = [call EXCEPT !.at = "read"] /\ UNCHANGED <<vms, site, ack, changes>>
      BY <1>10 DEF StopWaiting, At
  <2>2. OwnersStay /\ denied' = denied => call' \in Call /\ CallOK(call)'
      BY <2>1, <1>c, GoesOn DEF Holding
  <2> QED BY <2>1, <2>2, <1>q
<1>11. CASE ReadPower
  <2>1. PICK a \in {"powered_off", "still_running", "said"} : Answered(a)
      BY <1>11 DEF ReadPower, Done, PowerAnswer
  <2> QED BY <1>11, <2>1, <1>a, <1>e DEF ReadPower, At
<1>12. CASE Return
  <2>1. call' = NoCall /\ UNCHANGED <<vms, site, ack, changes>>
      BY <1>12 DEF Return
  <2> QED BY <2>1, WorldStays, CallSteps DEF Inv, TypeOK
\* A task took effect on the VM the call holds.
<1>d. ASSUME NEW e \in Effects, NEW l \in {"read", "stopped", "answered"}, NEW a \in Answers,
             call # NoCall, call.at \in Holding, OwnersStay, denied' = denied, Did(e, l, a),
             l = "stopped" => call.tool \in {"slate", "delete"},
             l # "answered" => a = "none",
             a \in DOMAIN EffectOf => EffectOf[a] = e, a \notin {"noop", "refused", "rejected", "started"},
             call.at # "waiting", e = "destroyed" => call.tool = "delete",
             e = "stopped" /\ call.tool \in {"slate", "delete"} => ~denied
      PROVE  call' \in Call /\ CallOK(call)'
  <2>1. PICK returned \in BOOLEAN :
          call' = [call EXCEPT !.did = @ \cup {<<e, call.vm>>},
                               !.at = IF returned THEN l ELSE "answered",
                               !.answer = IF returned THEN a ELSE "error"]
      BY <1>d DEF Did
  <2>2. CASE returned
    <3>1. call' = [call EXCEPT !.did = @ \cup {<<e, call.vm>>}, !.at = l, !.answer = a]
        BY <2>1, <2>2
    <3> QED BY <3>1, <1>d, <1>c, DoesIt
  <2>3. CASE ~returned
    <3>1. call' = [call EXCEPT !.did = @ \cup {<<e, call.vm>>}, !.at = "answered", !.answer = "error"]
        BY <2>1, <2>3
    <3> QED BY <3>1, <1>d, <1>c, <1>a, DoesIt
  <2> QED BY <2>2, <2>3
<1>v. call # NoCall /\ call.at \in Holding => call.vm \in Uuids
    BY <1>c DEF CallOK, Shaped
\* The end of a step with an effect.
<1>f. ASSUME World', SnapsHaveVm', changes' = changes, ack' = ack, call' \in Call, CallOK(call)'
      PROVE  Inv'
    BY <1>f, CallSteps DEF Inv, TypeOK
<1>z. "none" \in Answers /\ "none" \notin DOMAIN EffectOf
    BY EffectsClaimed DEF Answers
<1>y. \A a \in DOMAIN EffectOf : Done(a) \in {a, "said"} /\ a \in Answers
    BY EffectsClaimed DEF Done, Answers
<1>x. \A a \in DOMAIN EffectOf :
        /\ Done(a) \in Answers
        /\ Done(a) \in DOMAIN EffectOf => EffectOf[Done(a)] = EffectOf[a]
        /\ Done(a) \notin {"noop", "refused", "rejected", "started"}
    BY <1>y, <1>a, EffectsClaimed
<1>13. CASE HardPowerOff
  <2>1. /\ call # NoCall /\ call.at = "holding" /\ call.tool = "power_off" /\ call.vm \in Uuids
        /\ on' = on \ {call.vm} /\ suspended' = suspended \ {call.vm}
        /\ Did("stopped", "read", "none")
        /\ UNCHANGED <<named, snap, host, closed, denied, tasks, ack, changes>>
      BY <1>13, <1>v DEF HardPowerOff, At, PowerOff, site, Holding
  <2>2. World'
      BY <2>1, <1>w DEF World, InventoryTypeOK, Alive
  <2>3. SnapsHaveVm'
      BY <2>1, <1>s DEF SnapsHaveVm, Live, Alive
  <2>4. call' \in Call /\ CallOK(call)'
      BY <2>1, <1>d, <1>k, <1>z DEF Effects, Holding
  <2> QED BY <2>1, <2>2, <2>3, <2>4, <1>f
<1>14. CASE GuestStops
  <2>1. /\ call # NoCall /\ call.at = "asked" /\ call.vm \in Uuids /\ call.tool = "power_off"
        /\ call.answer = "none" /\ call \in Call /\ CallOK(call)
        /\ on' = on \ {call.vm} /\ call' = [call EXCEPT !.did = @ \cup {<<"stopped", call.vm>>}]
        /\ UNCHANGED <<named, suspended, snap, host, closed, denied, tasks, ack, changes>>
      BY <1>14, <1>v, <1>c DEF GuestStops, At, PowerOff, site, Holding, CallOK, Shaped, Accounted
  <2>2. World'
      BY <2>1, <1>w DEF World, InventoryTypeOK, Alive
  <2>3. SnapsHaveVm'
      BY <2>1, <1>s DEF SnapsHaveVm, Live, Alive
  <2>4. [call EXCEPT !.did = @ \cup {<<"stopped", call.vm>>}]
          = [call EXCEPT !.did = @ \cup {<<"stopped", call.vm>>}, !.at = "asked", !.answer = "none"]
    <3>1. PICK d : d = [call EXCEPT !.did = @ \cup {<<"stopped", call.vm>>}]
        OBVIOUS
    <3>2. d.at = "asked" /\ d.answer = "none"
        BY <3>1, <2>1 DEF Call
    <3>3. [d EXCEPT !.at = "asked"] = d
        BY <3>1, <3>2, <2>1 DEF Call
    <3>4. [d EXCEPT !.answer = "none"] = d
        BY <3>1, <3>2, <2>1 DEF Call
    <3> QED BY <3>1, <3>3, <3>4
  <2>5. call' \in Call /\ CallOK(call)'
      BY <2>1, <2>4, <1>k, <1>z, DoesIt DEF Effects, Holding
  <2> QED BY <2>1, <2>2, <2>3, <2>5, <1>f
<1>15. CASE Migrate
  <2>1. /\ call # NoCall /\ call.at = "holding" /\ call.tool = "migrate" /\ call.vm \in Uuids
        /\ Alive(call.vm) /\ host' = [host EXCEPT ![call.vm] = call.host]
        /\ Did("moved", "answered", Done("migrated"))
        /\ UNCHANGED <<named, on, suspended, snap, closed, denied, tasks, ack, changes>>
      BY <1>15, <1>v DEF Migrate, At, site, Holding
  <2>2. call.host \in Hosts
      BY <1>15, <1>c DEF Migrate, At, CallOK, Shaped
  <2>3. World'
      BY <2>1, <2>2, <1>w DEF World, InventoryTypeOK, Alive
  <2>4. SnapsHaveVm'
      BY <2>1, <1>s DEF SnapsHaveVm, Live, Alive
  <2>5. call' \in Call /\ CallOK(call)'
      BY <2>1, <1>d, <1>k, <1>x, EffectsClaimed DEF Effects, Holding
  <2> QED BY <2>1, <2>3, <2>4, <2>5, <1>f
<1>16. CASE StopFirst
  <2>1. /\ call # NoCall /\ call.at = "holding" /\ call.tool \in {"slate", "delete"}
        /\ UNCHANGED <<site, ack, changes>> /\ call.vm \in Uuids /\ denied' = denied
      BY <1>16, <1>v DEF StopFirst, At, Holding, site
  <2>2. CASE call' = [call EXCEPT !.at = "stopped"] /\ UNCHANGED vms
    <3>1. OwnersStay /\ denied' = denied => call' \in Call /\ CallOK(call)'
        BY <2>1, <2>2, <1>c, GoesOn DEF Holding
    <3> QED BY <2>1, <2>2, <3>1, <1>q
  <2>3. CASE Answered("refused") /\ UNCHANGED vms
      BY <2>1, <2>3, <1>a, <1>m, <1>e
  <2>4. CASE /\ MayPowerOff
             /\ PowerOff(call.vm) /\ UNCHANGED <<suspended, snap, host>>
             /\ Did("stopped", "stopped", "none")
    <3>1. /\ on' = on \ {call.vm} /\ ~denied
          /\ UNCHANGED <<named, suspended, snap, host, closed, denied, tasks>>
        BY <2>1, <2>4 DEF PowerOff, MayPowerOff, site
    <3>2. World'
        BY <3>1, <1>w DEF World, InventoryTypeOK, Alive
    <3>3. SnapsHaveVm'
        BY <3>1, <1>s DEF SnapsHaveVm, Live, Alive
    <3>4. call' \in Call /\ CallOK(call)'
        BY <2>1, <2>4, <3>1, <1>d, <1>k, <1>z DEF Effects, Holding
    <3> QED BY <2>1, <3>2, <3>3, <3>4, <1>f
  <2> QED BY <1>16, <2>2, <2>3, <2>4 DEF StopFirst
<1>17. CASE Revert
  <2>1. /\ call # NoCall /\ call.at \in Holding /\ call.at # "waiting" /\ call.tool \in {"revert", "slate"}
        /\ call.vm \in Uuids /\ call.node \in Live
        /\ on' \in {on \cup {call.vm}, on \ {call.vm}} /\ suspended' = suspended \ {call.vm}
        /\ Did("reverted", "answered", Done("reverted"))
        /\ UNCHANGED <<named, snap, host, closed, denied, tasks, ack, changes>>
      BY <1>17, <1>v DEF Revert, At, site, Holding, PowerOn, PowerOff
  <2>2. Alive(call.vm)
    <3>1. call.node \in Snaps /\ snap[call.node] \in Snapshot /\ snap[call.node].vm = call.vm
        BY <2>1, <1>c, <1>s DEF CallOK, Owned, Live
    <3> QED BY <3>1, <2>1, <1>s DEF SnapsHaveVm
  <2>3. World'
      BY <2>1, <2>2, <1>w DEF World, InventoryTypeOK, Alive
  <2>4. SnapsHaveVm'
      BY <2>1, <1>s DEF SnapsHaveVm, Live, Alive
  <2>5. call' \in Call /\ CallOK(call)'
      BY <2>1, <1>d, <1>k, <1>x, EffectsClaimed DEF Effects
  <2> QED BY <2>1, <2>3, <2>4, <2>5, <1>f
<1>18. CASE RemoveSnapshot
  <2>1. /\ call # NoCall /\ call.at = "holding" /\ call.tool = "remove" /\ call.node \in Snaps
        /\ call' = [call EXCEPT !.task = "started", !.at = "waiting"] /\ UNCHANGED <<vms, site, ack, changes>>
      BY <1>18 DEF RemoveSnapshot, At, Live
  <2>2. /\ call' \in Call /\ call'.at = "waiting" /\ call'.answer = call.answer /\ call'.task = "started"
        /\ call'.tool = call.tool /\ call'.mcp = call.mcp /\ call'.ack = call.ack
        /\ call'.seen = call.seen /\ call'.shot = call.shot /\ call'.vm = call.vm
        /\ call'.node = call.node /\ call'.host = call.host /\ call'.did = call.did /\ call'.free = call.free
      BY <2>1, <1>c DEF Call
  <2>3. CallOK(call)
      BY <2>1, <1>c
  <2>4. Shaped(call)' /\ Compared(call)'
      BY <2>1, <2>2, <2>3 DEF CallOK, Shaped, Compared, Holding
  <2>5. Accounted(call)'
      BY <2>1, <2>2, <2>3, <1>z DEF CallOK, Accounted
  <2>6. OwnersStay /\ denied' = denied => Denied(call)' /\ Owned(call)'
      BY <2>1, <2>2, <2>3 DEF CallOK, Denied, Owned, OwnersStay
  <2> QED BY <2>1, <2>2, <2>4, <2>5, <2>6, <1>q DEF CallOK
<1>20. CASE AnswerRemoval
  <2>1. /\ call # NoCall /\ call.at = "waiting" /\ call \in Call /\ CallOK(call)
        /\ call.tool = "remove" /\ call.node \in Snaps /\ call.hard \in BOOLEAN
        /\ UNCHANGED <<named, on, suspended, snap, host, closed, denied, ack, changes>>
        /\ tasks' \in {tasks, tasks \cup {<<call.node, call.hard>>}}
      BY <1>20, <1>c DEF AnswerRemoval, At, vms, CallOK, Shaped, Call
  <2>2. PICK a \in RemovalAnswer \cup {"error"} : Answered(a)
      BY <1>20 DEF AnswerRemoval
  <2>3. /\ a \in {"removed", "started", "said", "error"}
        /\ a = "removed" => call.task = "success"
      BY <2>2 DEF RemovalAnswer, Done
  <2>4. /\ call' \in Call /\ call'.at = "answered" /\ call'.answer = a /\ call'.task = call.task
        /\ call'.tool = call.tool /\ call'.mcp = call.mcp /\ call'.ack = call.ack
        /\ call'.seen = call.seen /\ call'.shot = call.shot /\ call'.vm = call.vm
        /\ call'.node = call.node /\ call'.host = call.host /\ call'.did = call.did /\ call'.free = call.free
    <3>1. a \in Answers
        BY <2>3 DEF Answers
    <3> QED BY <2>1, <2>2, <3>1 DEF Answered, Call
  <2>5. Shaped(call)' /\ Compared(call)'
      BY <2>1, <2>4 DEF CallOK, Shaped, Compared, Holding
  <2>6. Accounted(call)'
    <3>1. /\ call.did # {} => call.vm \in Uuids
          /\ \A e \in Effects, u \in Uuids : <<e, u>> \in call.did => u = call.vm
          /\ \A u \in Uuids : <<"destroyed", u>> \in call.did => call.tool = "delete"
          /\ call.task # "none" /\ (call.task = "success" => <<"removed", call.vm>> \in call.did)
        BY <2>1 DEF CallOK, Accounted
    <3>2. call.vm \in Uuids
        BY <2>1 DEF CallOK, Shaped, Holding
    <3>3. \A b \in DOMAIN EffectOf : a = b => \E u \in Uuids : <<EffectOf[b], u>> \in call.did
        BY <3>1, <3>2, <2>3, EffectsClaimed
    <3> QED BY <2>1, <2>3, <2>4, <3>1, <3>3 DEF Accounted
  <2>7. Denied(call)' /\ Owned(call)'
      BY <2>1, <2>4 DEF CallOK, Denied, Owned
  <2>8. World'
      BY <2>1, <1>w DEF World, InventoryTypeOK, Alive
  <2>9. SnapsHaveVm'
      BY <2>1, <1>s DEF SnapsHaveVm, Live, Alive
  <2>10. CallOK(call)' /\ ack' \in Acks \cup {NoAck}
      BY <2>1, <2>4, <2>5, <2>6, <2>7 DEF CallOK, Inv, TypeOK
  <2> QED BY <2>1, <2>4, <2>8, <2>9, <2>10, CallSteps
<1>19. CASE DestroyVm
  <2>1. /\ call # NoCall /\ call.at \in Holding /\ call.at # "waiting"
        /\ call.tool = "delete" /\ call.vm \in Uuids
        /\ named' = [named EXCEPT ![call.vm] = Gone] /\ on' = on \ {call.vm}
        /\ suspended' = suspended \ {call.vm} /\ snap' = Without(call.vm)
        /\ Did("destroyed", "answered", Done("deleted"))
        /\ UNCHANGED <<host, closed, denied, tasks, ack, changes>>
      BY <1>19, <1>v DEF DestroyVm, At, site, Holding, Destroy
  <2>2. /\ snap' \in [Snaps -> Snapshot \cup {Unborn, Gone}] /\ OwnersStay
        /\ \A t \in Live' : t \in Live /\ snap'[t] = snap[t] /\ snap[t].vm # call.vm
      BY <2>1, <1>w, WithoutIsTyped
  <2>3. World'
      BY <2>1, <2>2, <1>w DEF World, InventoryTypeOK, Alive
  <2>4. SnapsHaveVm'
      BY <2>1, <2>2, <1>w, <1>s DEF SnapsHaveVm, Alive
  <2>5. call' \in Call /\ CallOK(call)'
      BY <2>1, <2>2, <1>d, <1>x, EffectsClaimed DEF Effects
  <2> QED BY <2>1, <2>3, <2>4, <2>5, <1>f
<1> QED
    BY <1>1, <1>2, <1>3, <1>4, <1>5, <1>6, <1>7, <1>8, <1>9, <1>10, <1>11, <1>12, <1>13, <1>14,
       <1>15, <1>16, <1>17, <1>18, <1>19, <1>20 DEF Own

(* vCenter's tasks remove the snapshot that a call holds, or one that an   *)
(* earlier call held, whoever owns what by then.                           *)
LEMMA TasksInv ==
  ASSUME Inv, Tasks
  PROVE  Inv'
<1> USE CallAssumption, NamesAssumption
<1>w. /\ named \in [Uuids -> Names \cup {Unborn, Gone}]
      /\ on \subseteq {u \in Uuids : named[u] \in Names}
      /\ suspended \subseteq {u \in Uuids : Alive(u)} \ on
      /\ snap \in [Snaps -> Snapshot \cup {Unborn, Gone}]
      /\ host \in [Uuids -> Hosts] /\ closed \subseteq Hosts /\ denied \in BOOLEAN
      /\ tasks \subseteq Snaps \X BOOLEAN
    BY DEF Inv, TypeOK, InventoryTypeOK
<1>s. SnapsHaveVm /\ ack \in Acks \cup {NoAck}
    BY DEF Inv, TypeOK
<1>k. UNCHANGED <<named, on, suspended, host, closed, denied, ack, changes>> /\ tasks' \subseteq tasks
    BY DEF Tasks, RemovalEnds, LateRemovalEnds, site
<1>1. snap' = snap \/ \E s \in Live, children \in BOOLEAN : snap' = Removed(s, children)
  <2>1. CASE RemovalEnds
    <3>1. call # NoCall /\ call.hard \in BOOLEAN
        BY <2>1 DEF RemovalEnds, At, Inv, TypeOK, Call
    <3> QED BY <2>1, <3>1 DEF RemovalEnds
  <2>2. CASE LateRemovalEnds
    <3>1. PICK task \in tasks : snap' = snap \/ (task[1] \in Live /\ snap' = Removed(task[1], task[2]))
        BY <2>2 DEF LateRemovalEnds
    <3>2. task[2] \in BOOLEAN
        BY <1>w
    <3> QED BY <3>1, <3>2
  <2> QED BY <2>1, <2>2 DEF Tasks
<1>2. /\ snap' \in [Snaps -> Snapshot \cup {Unborn, Gone}] /\ OwnersStay
      /\ \A t \in Live' : t \in Live /\ snap'[t].vm = snap[t].vm
  <2>1. CASE snap' = snap
      BY <2>1, <1>w DEF OwnersStay, Live
  <2>2. CASE \E s \in Live, children \in BOOLEAN : snap' = Removed(s, children)
      BY <2>2, <1>w, RemovedIsTyped
  <2> QED BY <1>1, <2>1, <2>2
<1>3. World'
    BY <1>k, <1>2, <1>w DEF World, InventoryTypeOK, Alive
<1>4. SnapsHaveVm'
    BY <1>k, <1>2, <1>s DEF SnapsHaveVm, Alive
<1>5. CASE RemovalEnds
  <2>1. /\ call # NoCall /\ call \in Call /\ CallOK(call) /\ call.at = "waiting" /\ call.vm \in Uuids
        /\ call.tool = "remove" /\ call.task = "started" /\ call.answer = "none"
    <3>1. call # NoCall /\ call.at = "waiting" /\ call.task = "started" /\ call \in Call /\ CallOK(call)
        BY <1>5 DEF RemovalEnds, At, Inv, TypeOK
    <3> QED BY <3>1 DEF CallOK, Shaped, Holding, Accounted
  <2>2. PICK t \in {"success", "error"}, did \in SUBSET (Effects \X Uuids) :
          /\ call' = [call EXCEPT !.task = t, !.did = did]
          /\ did \in {call.did, call.did \cup {<<"removed", call.vm>>}}
          /\ t = "success" => <<"removed", call.vm>> \in did
    <3>1. "removed" \in Effects /\ call.did \in SUBSET (Effects \X Uuids)
        BY <2>1 DEF Effects, Call
    <3>2. CASE call' = [call EXCEPT !.task = "error"]
      <4>1. [call EXCEPT !.task = "error"] = [call EXCEPT !.task = "error", !.did = call.did]
          BY <2>1 DEF Call
      <4> QED BY <3>1, <3>2, <4>1
    <3>3. CASE call' = [call EXCEPT !.task = "success", !.did = @ \cup {<<"removed", call.vm>>}]
      <4>1. call' = [call EXCEPT !.task = "success", !.did = call.did \cup {<<"removed", call.vm>>}]
          BY <3>3, <2>1 DEF Call
      <4>2. call.did \cup {<<"removed", call.vm>>} \in SUBSET (Effects \X Uuids)
          BY <2>1, <3>1
      <4> QED BY <4>1, <4>2
    <3> QED BY <1>5, <3>2, <3>3 DEF RemovalEnds
  <2>3. /\ call' \in Call /\ call'.task = t /\ call'.did = did /\ call'.at = "waiting" /\ call'.answer = "none"
        /\ call'.tool = "remove" /\ call'.mcp = call.mcp /\ call'.ack = call.ack
        /\ call'.seen = call.seen /\ call'.shot = call.shot /\ call'.vm = call.vm
        /\ call'.node = call.node /\ call'.host = call.host /\ call'.free = call.free
    <3>1. PICK c : c = [call EXCEPT !.task = t]
        OBVIOUS
    <3>2. /\ c \in Call /\ c.task = t /\ c.at = "waiting" /\ c.answer = "none" /\ c.tool = "remove"
          /\ c.mcp = call.mcp /\ c.ack = call.ack /\ c.seen = call.seen /\ c.shot = call.shot
          /\ c.vm = call.vm /\ c.node = call.node /\ c.host = call.host /\ c.free = call.free
        BY <3>1, <2>1 DEF Call
    <3>3. call' = [c EXCEPT !.did = did]
        BY <2>2, <3>1
    <3> QED BY <3>2, <3>3 DEF Call
  <2>4. Shaped(call)' /\ Compared(call)'
      BY <2>1, <2>3 DEF CallOK, Shaped, Compared, Holding
  <2>5. Accounted(call)'
    <3>1. /\ \A e \in Effects, u \in Uuids : <<e, u>> \in call.did => u = call.vm
          /\ \A u \in Uuids : <<"destroyed", u>> \notin call.did
        BY <2>1 DEF CallOK, Accounted
    <3>2. ASSUME NEW e \in Effects, NEW u \in Uuids, <<e, u>> \in did PROVE u = call.vm
      <4>1. <<e, u>> \in call.did \/ <<e, u>> = <<"removed", call.vm>>
          BY <3>2, <2>2
      <4> QED BY <4>1, <3>1
    <3>3. ASSUME NEW u \in Uuids, <<"destroyed", u>> \in did PROVE FALSE
      <4>1. <<"destroyed", u>> \in call.did \/ <<"destroyed", u>> = <<"removed", call.vm>>
          BY <3>3, <2>2
      <4> QED BY <4>1, <3>1
    <3>4. "none" \notin DOMAIN EffectOf
        BY EffectsClaimed
    <3> QED BY <2>1, <2>2, <2>3, <3>2, <3>3, <3>4 DEF Accounted
  <2>6. Denied(call)'
    <3>1. call'.tool \notin {"slate", "delete"} /\ denied' = denied
        BY <2>3, <1>k
    <3> QED BY <2>1, <2>3, <3>1 DEF CallOK, Denied
  <2>7. Owned(call)'
      BY <2>1, <2>3, <1>2 DEF CallOK, Owned, OwnersStay
  <2> QED BY <1>3, <1>4, <1>k, <1>s, <2>3, <2>4, <2>5, <2>6, <2>7, CallSteps DEF CallOK
<1>6. CASE LateRemovalEnds
  <2>1. call' = call /\ denied' = denied
      BY <1>6, <1>k DEF LateRemovalEnds
  <2> QED BY <1>2, <1>3, <1>4, <1>k, <1>s, <2>1, CallStays, CallSteps DEF Inv, TypeOK
<1> QED BY <1>5, <1>6 DEF Tasks

-----------------------------------------------------------------------------
(* The invariant holds while there is no call.                             *)
LEMMA InvInit == Init => Inv
<1> SUFFICES ASSUME Init PROVE Inv
    OBVIOUS
<1>1. TypeOK
    BY CallAssumption DEF Init, TypeOK, InventoryTypeOK, Alive
<1>2. SnapsHaveVm /\ call = NoCall
    BY DEF Init, SnapsHaveVm, Live
<1> QED BY <1>1, <1>2 DEF Inv

(* A step keeps the invariant.                                             *)
LEMMA InvNext == Inv /\ [Next]_vars => Inv'
<1> SUFFICES ASSUME Inv, [Next]_vars PROVE Inv'
    OBVIOUS
<1>1. CASE UNCHANGED vars
  <2>1. UNCHANGED <<vms, site, ack, call, changes>>
      BY <1>1 DEF vars
  <2>2. World' /\ SnapsHaveVm' /\ OwnersStay
      BY <2>1, WorldStays
  <2>3. (call # NoCall => CallOK(call))'
      BY <2>1, <2>2, CallStays DEF site
  <2> QED BY <2>1, <2>2, <2>3, CallSteps DEF Inv, TypeOK
<1> QED BY <1>1, OthersInv, CallsBegin, OwnInv, TasksInv DEF Next

(* The inductive invariant of the calls.                                   *)
LEMMA Invariant == Spec => []Inv
<1>1. Inv /\ [Next]_vars => Inv'
    BY InvNext
<1> QED BY InvInit, <1>1, PTL DEF Spec

(* TypeOK: a suspended VM is neither off nor on, only VMs there are are    *)
(* powered on, and a call's answer is one that the tools give.             *)
THEOREM CallsTypeCorrect == Spec => []TypeOK
<1>1. Inv => TypeOK
    BY DEF Inv
<1> QED BY Invariant, <1>1, PTL

(* A confirmed call changes the VM, and the snapshot, that its measurement *)
(* saw, or none.  (require_instance_uuid, resolve_snapshot,                *)
(* delete_vm_acknowledged)                                                 *)
THEOREM MeasuredVmOnly == Spec => []ActsOnlyOnWhatWasMeasured
<1>1. Inv => ActsOnlyOnWhatWasMeasured
  <2> SUFFICES ASSUME Inv, call # NoCall, call.mcp, call.tool # "slate"
               PROVE  /\ \A e \in Effects, u \in Uuids : DidTo(e, u) => u = call.seen
                      /\ \A u \in Uuids :
                           DidTo("destroyed", u) => call.ack # NoAck /\ call.ack.uuid = u
                      /\ call.tool \in {"revert", "remove"} => call.node \in {call.shot, NoSnap}
      BY DEF ActsOnlyOnWhatWasMeasured
  <2>1. Compared(call) /\ Accounted(call)
      BY DEF Inv, CallOK
  <2>2. \A e \in Effects, u \in Uuids : DidTo(e, u) => u = call.vm /\ call.vm = call.seen
      BY <2>1, CallAssumption DEF Compared, Accounted, DidTo
  <2>3. "destroyed" \in Effects
      BY DEF Effects
  <2> QED BY <2>1, <2>2, <2>3, CallAssumption DEF Compared, Accounted, DidTo
<1> QED BY Invariant, <1>1, PTL

(* What rules.yaml denied throughout the call was not done on the way.     *)
(* (before_power_off)                                                      *)
THEOREM DeniedAllAlong == Spec => []DeniedIsNotDone
<1>1. Inv => DeniedIsNotDone
    BY DEF Inv, CallOK, Denied, DeniedIsNotDone, DidTo
<1> QED BY Invariant, <1>1, PTL

(* Only the read of the power state is answered with powered_off.          *)
LEMMA OnlyReadPowerSays ==
  ASSUME Inv, [Next]_vars, call' # NoCall, call'.answer = "powered_off",
         ~(call # NoCall /\ call.answer = "powered_off")
  PROVE  ReadPower
<1>c. call # NoCall => call \in Call
    BY DEF Inv, TypeOK
<1>1. CASE UNCHANGED vars
    BY <1>1 DEF vars
<1>2. ASSUME NEW n \in Names, Tool(n) \/ Command(n) PROVE FALSE
  <2>1. call' = call \/ Begun(call')
      BY <1>2, CallsBegin
  <2> QED BY <2>1 DEF Begun
<1>3. CASE Others
  <2>1. CASE call' = call
      BY <2>1
  <2>2. CASE PolicyTurns
      BY <2>2, <1>c DEF PolicyTurns, Call
  <2> QED BY <1>3, <2>1, <2>2 DEF Others, Other, CreateVm, CloneVm, PowerOnVm, SuspendVm,
          CreateSnapshot, OthersDestroy, OthersStop, OthersRemove, HostTurns
<1>a. ASSUME call # NoCall, NEW a, Answered(a), a # "powered_off" PROVE FALSE
    BY <1>a, <1>c DEF Answered, Call
<1>d. ASSUME call # NoCall, NEW e, NEW l, NEW a, Did(e, l, a), a # "powered_off" PROVE FALSE
    BY <1>d, <1>c DEF Did, Call
<1>4. CASE Own
  <2>1. CASE Unmeasured \/ Incompatible \/ CliRejected \/ LookupRefused \/ Raises
      BY <2>1, <1>a DEF Unmeasured, Incompatible, CliRejected, LookupRefused, Raises, At, Answered
  <2>2. CASE LookupSnapshot
      BY <2>2, <1>a, <1>c DEF LookupSnapshot, NotDone, At, Call
  <2>3. CASE LookupMigrate \/ LookupPower
      BY <2>3, <1>a, <1>c DEF LookupMigrate, LookupPower, NotDone, At, Call
  <2>4. CASE AskGuest \/ GuestStops \/ StopWaiting
      BY <2>4, <1>c DEF AskGuest, GuestStops, StopWaiting, At, Call
  <2>5. CASE HardPowerOff \/ Migrate \/ Revert \/ DestroyVm
      BY <2>5, <1>d DEF HardPowerOff, Migrate, Revert, DestroyVm, Done, At
  <2>6. CASE StopFirst
      BY <2>6, <1>a, <1>d, <1>c DEF StopFirst, At, Call
  <2>7. CASE Return
      BY <2>7 DEF Return
  <2>8. CASE RemoveSnapshot
      BY <2>8, <1>c DEF RemoveSnapshot, At, Call
  <2>9. CASE AnswerRemoval
      BY <2>9, <1>a DEF AnswerRemoval, RemovalAnswer, Done, At
  <2> QED BY <1>4, <2>1, <2>2, <2>3, <2>4, <2>5, <2>6, <2>7, <2>8, <2>9 DEF Own
<1>5. CASE Tasks
    BY <1>5, <1>c DEF Tasks, RemovalEnds, LateRemovalEnds, At, Call
<1> QED BY <1>1, <1>2, <1>3, <1>4, <1>5 DEF Next

(* A call that says it did not act did not, an answer of success is true   *)
(* of what was done, a removal said to have started has started, and       *)
(* powered_off is only said of a VM that is off.                           *)
THEOREM TruthfulAnswers == Spec => AnswerIsTrue
<1>1. Inv => \A a \in {"noop", "refused", "rejected"} : Is(a) => call.did = {} /\ call.task = "none"
    BY DEF Inv, CallOK, Accounted, Is
<1>4. Inv => (Is("started") => call.task # "none")
    BY DEF Inv, CallOK, Accounted, Is
<1>2. Inv => \A a \in DOMAIN EffectOf : Is(a) => \E u \in Uuids : DidTo(EffectOf[a], u)
    BY DEF Inv, CallOK, Accounted, Is, DidTo
<1>3. Inv /\ [Next]_vars => [Is("powered_off")' /\ ~Is("powered_off") => Off(call.vm)]_vars
  <2> SUFFICES ASSUME Inv, [Next]_vars, Is("powered_off")', ~Is("powered_off") PROVE Off(call.vm)
      OBVIOUS
  <2>1. ReadPower
      BY OnlyReadPowerSays DEF Is
  <2>2. call' # NoCall /\ call'.answer = "powered_off" /\ call # NoCall /\ call \in Call
      BY <2>1 DEF Is, ReadPower, At, Inv, TypeOK
  <2>3. Done(PowerAnswer) = "powered_off"
      BY <2>1, <2>2 DEF ReadPower, Answered, Call
  <2> QED BY <2>3 DEF Done, PowerAnswer
<1> QED BY Invariant, <1>1, <1>2, <1>3, <1>4, PTL DEF Spec, AnswerIsTrue
=============================================================================
