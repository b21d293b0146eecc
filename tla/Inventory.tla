------------------------------ MODULE Inventory ------------------------------
(***************************************************************************)
(* The virtual machines of one vCenter, as the executors see them.         *)
(*                                                                         *)
(* A VM is its instance UUID; its name is only a label.  vCenter allows    *)
(* two VMs of one name (in different folders), so a look-up by name can    *)
(* find none, one or several: find_vm_by_name returns the one, returns     *)
(* None, or raises AmbiguousVMError.                                       *)
(***************************************************************************)
EXTENDS FiniteSets

CONSTANTS
  Names,    \* VM names
  Uuids,    \* instance UUIDs, one per VM ever created
  Unborn,   \* the "name" of a UUID no VM has yet
  Gone      \* the "name" of a VM that was destroyed

ASSUME NamesAssumption == Unborn \notin Names /\ Gone \notin Names /\ Unborn # Gone

VARIABLES
  named,    \* [Uuids -> Names \cup {Unborn, Gone}]
  on        \* the VMs that are powered on

inventory == <<named, on>>

InventoryTypeOK ==
  /\ named \in [Uuids -> Names \cup {Unborn, Gone}]
  /\ on \subseteq {u \in Uuids : named[u] \in Names}

-----------------------------------------------------------------------------
(* Look-ups *)

Holders(n) == {u \in Uuids : named[u] = n}

\* find_vm_by_name returned a VM, and it is u.
Finds(n, u) == Holders(n) = {u}

\* It returned None or raised AmbiguousVMError: no VM to act on.
FindsNoOne(n) == \A u \in Uuids : ~Finds(n, u)

Alive(u) == named[u] \in Names

-----------------------------------------------------------------------------
(* What the tasks do.  A VM may be created under a name already taken.     *)

Born(u, n, running) ==
  /\ named[u] = Unborn
  /\ named' = [named EXCEPT ![u] = n]
  /\ on' = IF running THEN on \cup {u} ELSE on

Destroy(u) ==
  /\ named' = [named EXCEPT ![u] = Gone]
  /\ on' = on \ {u}

PowerOn(u)  == on' = on \cup {u} /\ UNCHANGED named
PowerOff(u) == on' = on \ {u} /\ UNCHANGED named

-----------------------------------------------------------------------------
(* Everyone else with an account on the vCenter.                           *)

OutsideCreate(u, n) == Born(u, n, FALSE)

OutsideRename(u, n) ==
  /\ Alive(u) /\ named[u] # n
  /\ named' = [named EXCEPT ![u] = n]
  /\ UNCHANGED on

OutsideDestroy(u) == Alive(u) /\ Destroy(u)

OutsidePower(u) == Alive(u) /\ IF u \in on THEN PowerOff(u) ELSE PowerOn(u)
=============================================================================
