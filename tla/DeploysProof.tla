---------------------------- MODULE DeploysProof ----------------------------
(***************************************************************************)
(* The deploys of Deploys, for any number of VMs and items, any options,   *)
(* and whatever others create and destroy meanwhile.                       *)
(*                                                                         *)
(* The argument: vCenter made the VM of an item when no other of the name  *)
(* was in the folder, so of the VMs in the rows so far none of that name   *)
(* is left.  The VM that a follow-up finds by the name is therefore the    *)
(* one just made, if that is still there, and otherwise none of the rows:  *)
(* a VM of others gets a part only for an item whose own VM is gone.  And  *)
(* of an import that ends, either the VM is gone or there, or its lease is *)
(* noted as left.                                                          *)
(***************************************************************************)
EXTENDS Deploys, TLAPS

ItemOf(c) == c.items[c.pos]

Making == {"task", "lease", "upload", "follow"}

\* The answers: a row for each item, or the one of a missing source.
OneEach(c) == Len(c.rows) = Len(c.items) /\ \A k \in 1..Len(c.rows) : c.rows[k].of = "item"

SourceRow(c) ==
  /\ c.tool = "clones" /\ Len(c.rows) = 1 /\ c.made = NoVm
  /\ c.rows[1].of = "source" /\ c.rows[1].vm = NoVm /\ ~c.rows[1].ok

\* Where a call is in its list, and what it has answered.
Shaped(c) ==
  /\ c.at # "over" => c.pos \in 1..Len(c.items) /\ Len(c.rows) = c.pos - 1
  /\ Len(c.rows) <= Len(c.items)
  /\ (c.at = "over") = (c.answer # "none")
  /\ c.at # "over" => \A k \in 1..Len(c.rows) : c.rows[k].of = "item"
  /\ c.answer = "rows" => OneEach(c) \/ SourceRow(c)
  /\ c.at = "begin" => c.pos = 1
  /\ c.tool # "spec" => \A k \in 1..Len(c.items) : c.items[k].wants = c.items[1].wants

\* Past its guard, a call wants nothing that the rules deny.
Allowed(c, d) ==
  c.at \notin {"begin", "over"} => \A k \in 1..Len(c.items) : c.items[k].wants \cap d = {}

\* The VM that is being made: nobody else has it, and it has the parts that are not to do.
MadeOK(c, x, l) ==
  /\ c.at \in {"begin", "item"} => c.made = NoVm
  /\ c.at \in Making =>
       /\ c.made \in Vms /\ ItemOf(c).name # NoName
       /\ x[c.made].home /\ x[c.made].is # "unborn"
       /\ \A k \in 1..Len(c.rows) : c.rows[k].vm # c.made
  /\ c.at = "task" => x[c.made].is = "coming"
  /\ c.at \in {"task", "follow"} => x[c.made].name = ItemOf(c).name
  /\ c.at \in {"task", "lease", "upload"} => x[c.made].has = {}
  /\ c.at = "lease" => l \in {"initializing", "ready", "error"}
  /\ c.at = "upload" => l \in {"ready", "error"}
  /\ c.at \in {"lease", "upload"} =>
       /\ x[c.made].is = IF l \in Open THEN "importing" ELSE "gone"
       /\ l = "ready" => x[c.made].name = ItemOf(c).name
  /\ l \in Open => c.at \in {"lease", "upload"}

\* The follow-ups come in their order: nothing is powered on before it is complete.
FollowsOK(c, x) ==
  c.at = "follow" =>
    LET m == x[c.made] IN
    /\ m.is \in {"here", "gone"}
    /\ c.todo \subseteq ItemOf(c).wants /\ m.has \subseteq ItemOf(c).wants
    /\ m.is = "here" /\ ~BestEffort(c.tool, ItemOf(c)) => m.has = ItemOf(c).wants \ c.todo
    /\ "power_on" \in m.has /\ ~BestEffort(c.tool, ItemOf(c)) => m.has = ItemOf(c).wants

\* What a row says of its VM; a VM that is not there any more, or not yet, is no proof against it.
RowOK(row, item, tool, x, d) ==
  /\ row.ok => row.vm # NoVm
  /\ row.vm # NoVm =>
       LET r == x[row.vm] IN
       /\ r.is # "unborn" /\ r.home /\ r.has \subseteq item.wants \ d
       /\ row.ok => r.is \in {"here", "gone"}
       /\ row.ok /\ r.is = "here" /\ ~BestEffort(tool, item) => r.has = item.wants
       /\ "power_on" \in r.has /\ ~BestEffort(tool, item) => r.has = item.wants

RowsOK(c, x, d) == \A k \in 1..Len(c.rows) : RowOK(c.rows[k], c.items[k], c.tool, x, d)

\* Once the VM has its name, no VM of an earlier row bears it.
Clear(c, x) ==
  c.at \in Making /\ x[c.made].name = ItemOf(c).name =>
    \A k \in 1..Len(c.rows) :
      c.rows[k].vm # NoVm /\ x[c.rows[k].vm].name = ItemOf(c).name => x[c.rows[k].vm].is = "gone"

Sound(c, x, l, d) ==
  /\ Shaped(c) /\ Allowed(c, d) /\ MadeOK(c, x, l) /\ FollowsOK(c, x)
  /\ RowsOK(c, x, d) /\ Clear(c, x)

\* A VM not born yet has no name and no parts.
Blank(x) == \A v \in Vms : x[v].is = "unborn" => x[v].name = NoName /\ x[v].home /\ x[v].has = {}

World ==
  /\ vm \in [Vms -> Vm] /\ source \in {"none", "vm", "template"} /\ base \in BOOLEAN
  /\ lease \in Open \cup {NoLease, "error", "done", "aborted", "left"}
  /\ denied \in Rules /\ changes \in 0..MaxChanges

Inv == World /\ Blank(vm) /\ call \in Call /\ Sound(call, vm, lease, denied)

\* A VM ages: it comes to be there, or goes; nothing else of it changes.
Ages(r, s) ==
  \/ s = r
  \/ /\ s.name = r.name /\ s.home = r.home /\ s.has = r.has
     /\ r.is \in {"coming", "importing", "here"} /\ s.is \in {"here", "gone"}
     /\ r.is = "here" => s.is = "gone"

-----------------------------------------------------------------------------
(* VMs                                                                     *)

(* What is not unborn is not born again.                                   *)
LEMMA BlankStays ==
  ASSUME NEW x, NEW y, Blank(x), NEW v \in Vms, y[v].is # "unborn",
         \A u \in Vms \ {v} : y[u] = x[u]
  PROVE  Blank(y)
  BY DEF Blank

-----------------------------------------------------------------------------
(* Rows                                                                    *)

(* The VM of a row is one of the VMs.                                      *)
LEMMA RowVms ==
  ASSUME NEW c \in Call, NEW k \in 1..Len(c.rows)
  PROVE  c.rows[k] \in Row /\ c.rows[k].vm \in Vms \cup {NoVm} /\ c.rows[k].ok \in BOOLEAN
<1>1. c.rows \in Seq(Row)
    BY DEF Call
<1>2. c.rows[k] \in Row
    BY <1>1
<1> QED BY <1>2 DEF Row

(* A row stays true while its VM ages.                                     *)
LEMMA RowsKept ==
  ASSUME NEW c \in Call, NEW x \in [Vms -> Vm], NEW y \in [Vms -> Vm], NEW d, RowsOK(c, x, d),
         \A k \in 1..Len(c.rows) :
           c.rows[k].vm # NoVm => Ages(x[c.rows[k].vm], y[c.rows[k].vm])
  PROVE  RowsOK(c, y, d)
<1> SUFFICES ASSUME NEW k \in 1..Len(c.rows) PROVE RowOK(c.rows[k], c.items[k], c.tool, y, d)
    BY DEF RowsOK
<1>1. RowOK(c.rows[k], c.items[k], c.tool, x, d)
    BY DEF RowsOK
<1>2. CASE c.rows[k].vm = NoVm
    BY <1>1, <1>2 DEF RowOK
<1>3. CASE c.rows[k].vm # NoVm
    BY <1>1, <1>3 DEF RowOK, Ages
<1> QED BY <1>2, <1>3

(* The world turns while the call stands still: VMs of the rows age, the   *)
(* one being made is left alone, or destroyed once it is there.            *)
LEMMA WorldTurns ==
  ASSUME NEW c \in Call, NEW x \in [Vms -> Vm], NEW y \in [Vms -> Vm], NEW l, NEW d,
         Sound(c, x, l, d),
         \A k \in 1..Len(c.rows) :
           c.rows[k].vm # NoVm => Ages(x[c.rows[k].vm], y[c.rows[k].vm]),
         c.at \in Making =>
           y[c.made] = x[c.made] \/ (c.at = "follow" /\ Ages(x[c.made], y[c.made]))
  PROVE  Sound(c, y, l, d)
<1>1. Shaped(c) /\ Allowed(c, d) /\ MadeOK(c, x, l) /\ FollowsOK(c, x) /\ RowsOK(c, x, d) /\ Clear(c, x)
    BY DEF Sound
<1>2. RowsOK(c, y, d)
    BY <1>1, RowsKept
<1>3. c.at \in Making => y[c.made].name = x[c.made].name /\ y[c.made].home = x[c.made].home
                         /\ y[c.made].has = x[c.made].has
    BY DEF Ages
<1>4. MadeOK(c, y, l)
  <2>1. CASE c.at = "follow"
      BY <2>1, <1>1, <1>3 DEF MadeOK, Ages, Making
  <2>2. CASE c.at # "follow"
      BY <2>2, <1>1 DEF MadeOK, Making
  <2> QED BY <2>1, <2>2
<1>5. FollowsOK(c, y)
    BY <1>1, <1>3 DEF FollowsOK, Ages, Making
<1>6. Clear(c, y)
  <2> SUFFICES ASSUME c.at \in Making, y[c.made].name = ItemOf(c).name, NEW k \in 1..Len(c.rows),
                      c.rows[k].vm # NoVm, y[c.rows[k].vm].name = ItemOf(c).name
               PROVE  y[c.rows[k].vm].is = "gone"
      BY DEF Clear
  <2>1. Ages(x[c.rows[k].vm], y[c.rows[k].vm])
      OBVIOUS
  <2>2. x[c.rows[k].vm].name = ItemOf(c).name
      BY <2>1 DEF Ages
  <2>3. x[c.rows[k].vm].is = "gone"
      BY <2>2, <1>1, <1>3 DEF Clear
  <2> QED BY <2>1, <2>3 DEF Ages
<1> QED BY <1>1, <1>2, <1>4, <1>5, <1>6 DEF Sound

(* An item is done with, well or not: one more row, and on to the next     *)
(* item or to the answer.                                                  *)
LEMMA NextItemSound ==
  ASSUME NEW c \in Call, NEW ok \in BOOLEAN, NEW x \in [Vms -> Vm], NEW l, NEW d,
         c.at \notin {"begin", "over"}, Shaped(c), Allowed(c, d), RowsOK(c, x, d), l \notin Open,
         RowOK([ok |-> ok, vm |-> c.made, of |-> "item"], ItemOf(c), c.tool, x, d)
  PROVE  NextItem(c, ok) \in Call /\ Sound(NextItem(c, ok), x, l, d)
<1> DEFINE row == [ok |-> ok, vm |-> c.made, of |-> "item"]
           rows == Append(c.rows, row)
           n == NextItem(c, ok)
<1>1. /\ c.pos \in Nat /\ c.pos \in 1..Len(c.items) /\ Len(c.items) \in Nat
      /\ Len(c.rows) = c.pos - 1 /\ c.rows \in Seq(Row) /\ c.items \in Seq(Item)
      /\ c.answer = "none" /\ \A k \in 1..Len(c.rows) : c.rows[k].of = "item"
    BY DEF Shaped, Call
<1>2. row \in Row
    BY DEF Row, Call
<1>3. /\ rows \in Seq(Row) /\ Len(rows) = c.pos /\ rows[c.pos] = row
      /\ \A k \in 1..Len(c.rows) : rows[k] = c.rows[k]
    BY <1>1, <1>2
<1>4. \A k \in 1..c.pos : k = c.pos \/ k \in 1..Len(c.rows)
    BY <1>1
<1>o. \A k \in 1..Len(rows) : rows[k].of = "item"
    BY <1>1, <1>3, <1>4
<1>5. \A k \in 1..Len(rows) : RowOK(rows[k], c.items[k], c.tool, x, d)
  <2> SUFFICES ASSUME NEW k \in 1..Len(rows) PROVE RowOK(rows[k], c.items[k], c.tool, x, d)
      OBVIOUS
  <2>1. CASE k = c.pos
      BY <2>1, <1>3 DEF ItemOf
  <2>2. CASE k \in 1..Len(c.rows)
      BY <2>2, <1>3 DEF RowsOK
  <2> QED BY <2>1, <2>2, <1>3, <1>4
<1>n. n = IF c.pos = Len(c.items) THEN Over([c EXCEPT !.rows = rows], "rows")
          ELSE [c EXCEPT !.rows = rows, !.pos = @ + 1, !.at = "item", !.made = NoVm, !.todo = {}]
    BY DEF NextItem
<1> HIDE DEF row, rows, n
<1>6. CASE c.pos = Len(c.items)
  <2>1. n = [c EXCEPT !.rows = rows, !.at = "over", !.answer = "rows"]
      BY <1>n, <1>6 DEF Over, Call
  <2>2. /\ n \in Call /\ n.at = "over" /\ n.answer = "rows" /\ n.rows = rows /\ n.items = c.items
        /\ n.tool = c.tool
      BY <2>1, <1>3 DEF Call
  <2>3. Len(rows) <= Len(c.items)
      BY <1>1, <1>3, <1>6
  <2>4. Shaped(n)
      BY <2>2, <2>3, <1>3, <1>6, <1>o DEF Shaped, OneEach
  <2>5. RowsOK(n, x, d)
      BY <2>2, <1>5 DEF RowsOK
  <2>6. Allowed(n, d) /\ MadeOK(n, x, l) /\ FollowsOK(n, x) /\ Clear(n, x)
      BY <2>2 DEF Allowed, MadeOK, FollowsOK, Clear, Making
  <2> QED BY <2>2, <2>4, <2>5, <2>6 DEF Sound, n
<1>7. CASE c.pos # Len(c.items)
  <2>1. n = [c EXCEPT !.rows = rows, !.pos = c.pos + 1, !.at = "item", !.made = NoVm, !.todo = {}]
      BY <1>n, <1>7 DEF Call
  <2>2. /\ n \in Call /\ n.at = "item" /\ n.answer = c.answer /\ n.rows = rows /\ n.items = c.items
        /\ n.tool = c.tool /\ n.pos = c.pos + 1 /\ n.made = NoVm
    <3>1. c.pos + 1 \in Nat /\ {} \in SUBSET Parts
        BY <1>1
    <3> QED BY <2>1, <3>1, <1>3 DEF Call
  <2>3. c.pos + 1 \in 1..Len(c.items) /\ Len(rows) = c.pos + 1 - 1 /\ Len(rows) <= Len(c.items)
      BY <1>1, <1>3, <1>7
  <2>4. Shaped(n)
      BY <2>2, <2>3, <1>1, <1>o DEF Shaped
  <2>5. RowsOK(n, x, d)
      BY <2>2, <1>5 DEF RowsOK
  <2>6. Allowed(n, d) /\ MadeOK(n, x, l) /\ FollowsOK(n, x) /\ Clear(n, x)
      BY <2>2 DEF Allowed, MadeOK, FollowsOK, Clear, Making
  <2> QED BY <2>2, <2>4, <2>5, <2>6 DEF Sound, n
<1> QED BY <1>6, <1>7

(* The steps after come up when the VM is there, with nothing done yet.    *)
LEMMA FollowSound ==
  ASSUME NEW c \in Call, NEW x \in [Vms -> Vm], NEW l, NEW d, NEW f,
         c.at \in Making, Shaped(c), Allowed(c, d), RowsOK(c, x, d), l \notin Open,
         f = [c EXCEPT !.at = "follow", !.todo = Todo(c.tool, ItemOf(c))],
         c.made \in Vms, ItemOf(c).name # NoName, x[c.made].home, x[c.made].is = "here",
         x[c.made].name = ItemOf(c).name, x[c.made].has = {}, Clear(c, x),
         \A k \in 1..Len(c.rows) : c.rows[k].vm # c.made
  PROVE  f \in Call /\ Sound(f, x, l, d)
<1>1. ItemOf(c) \in Item /\ ItemOf(c).wants \subseteq Parts
  <2>1. c.items \in Seq(Item) /\ c.pos \in 1..Len(c.items)
      BY DEF Call, Shaped, Making
  <2>2. ItemOf(c) \in Item
      BY <2>1 DEF ItemOf
  <2> QED BY <2>2 DEF Item
<1> DEFINE todo == Todo(c.tool, ItemOf(c))
<1>2. todo \in SUBSET Parts /\ todo \subseteq ItemOf(c).wants
      /\ (~BestEffort(c.tool, ItemOf(c)) => todo = ItemOf(c).wants)
    BY <1>1 DEF Todo
<1>3. f = [c EXCEPT !.at = "follow", !.todo = todo]
    OBVIOUS
<1> HIDE DEF todo
<1>4. /\ f \in Call /\ f.at = "follow" /\ f.todo = todo /\ f.tool = c.tool /\ f.items = c.items
      /\ f.pos = c.pos /\ f.made = c.made /\ f.rows = c.rows /\ f.answer = c.answer
    BY <1>2, <1>3 DEF Call
<1>5. ItemOf(f) = ItemOf(c)
    BY <1>4 DEF ItemOf
<1>6. Shaped(f) /\ Allowed(f, d) /\ RowsOK(f, x, d)
    BY <1>4 DEF Shaped, Allowed, RowsOK, Making
<1>7. MadeOK(f, x, l)
    BY <1>4, <1>5 DEF MadeOK, Making
<1>8. FollowsOK(f, x)
    BY <1>2, <1>4, <1>5 DEF FollowsOK
<1>9. Clear(f, x)
    BY <1>4, <1>5 DEF Clear, Making
<1> QED BY <1>4, <1>6, <1>7, <1>8, <1>9 DEF Sound

-----------------------------------------------------------------------------
(* The call and its items                                                  *)

(* The invariant holds when the call begins.                               *)
LEMMA InvInit == Init => Inv
<1> SUFFICES ASSUME Init PROVE Inv
    OBVIOUS
<1>1. World /\ Blank(vm)
  <2>1. vm \in [Vms -> Vm] /\ Blank(vm)
      BY DEF Init, Vm, Blank
  <2>2. MaxChanges \in Nat
      BY DeployAssumption
  <2>3. /\ source \in {"none", "vm", "template"} /\ base \in BOOLEAN /\ lease = NoLease
        /\ denied \in Rules /\ changes = 0
      BY DEF Init
  <2>4. changes \in 0..MaxChanges
      BY <2>2, <2>3
  <2> QED BY <2>1, <2>3, <2>4 DEF World
<1>2. PICK c \in Calls :
        call = [tool |-> c.tool, items |-> c.items, pos |-> 1, at |-> "begin", made |-> NoVm,
                todo |-> {}, rows |-> <<>>, answer |-> "none"]
    BY DEF Init
<1>3. /\ c.tool \in Tools /\ c.items \in Seq(Item) /\ c.items # <<>>
      /\ c.tool # "spec" => \A k \in 1..Len(c.items) : c.items[k].wants = c.items[1].wants
    BY DeployAssumption
<1>4. Len(c.items) \in Nat /\ 1 \in 1..Len(c.items)
    BY <1>3
<1>5. call \in Call
    BY <1>2, <1>3 DEF Call
<1>6. /\ call.at = "begin" /\ call.pos = 1 /\ call.items = c.items /\ call.rows = <<>>
      /\ call.made = NoVm /\ call.answer = "none" /\ call.tool = c.tool /\ Len(call.rows) = 0
    BY <1>2
<1>7. Shaped(call)
    BY <1>3, <1>4, <1>6 DEF Shaped
<1>8. Allowed(call, denied) /\ MadeOK(call, vm, lease) /\ FollowsOK(call, vm) /\ Clear(call, vm)
    BY <1>6 DEF Allowed, MadeOK, FollowsOK, Clear, Making, Init, Open, NoLease
<1>9. RowsOK(call, vm, denied)
    BY <1>6 DEF RowsOK
<1> QED BY <1>1, <1>5, <1>7, <1>8, <1>9 DEF Inv, Sound

(* A call that goes no further claims what it claimed.                     *)
LEMMA OverSound ==
  ASSUME NEW c \in Call, NEW x, NEW l, NEW d, NEW a \in {"refused", "raised"}, NEW o, o = Over(c, a),
         Shaped(c), RowsOK(c, x, d), l \notin Open
  PROVE  o \in Call /\ Sound(o, x, l, d)
<1>1. /\ o \in Call /\ o.at = "over" /\ o.answer = a /\ o.rows = c.rows /\ o.items = c.items
      /\ o.tool = c.tool
    BY DEF Over, Call
<1>2. Shaped(o) /\ RowsOK(o, x, d)
    BY <1>1 DEF Shaped, RowsOK
<1>3. Allowed(o, d) /\ MadeOK(o, x, l) /\ FollowsOK(o, x) /\ Clear(o, x)
    BY <1>1 DEF Allowed, MadeOK, FollowsOK, Clear, Making
<1> QED BY <1>1, <1>2, <1>3 DEF Sound

(* What the call holds, taken apart.                                       *)
LEMMA Apart ==
  ASSUME Inv
  PROVE  /\ World /\ Blank(vm) /\ call \in Call /\ vm \in [Vms -> Vm]
         /\ Shaped(call) /\ Allowed(call, denied) /\ MadeOK(call, vm, lease) /\ FollowsOK(call, vm)
         /\ RowsOK(call, vm, denied) /\ Clear(call, vm)
  BY DEF Inv, World, Sound

(* No step of the call changes the rules or the source.                    *)
LEMMA CallInv ==
  ASSUME Inv, Stays, vm' \in [Vms -> Vm], Blank(vm'),
         lease' \in Open \cup {NoLease, "error", "done", "aborted", "left"},
         call' \in Call, Sound(call', vm', lease', denied)
  PROVE  Inv'
<1>1. denied' = denied
    BY DEF Stays
<1>2. World'
    BY DEF Stays, Inv, World
<1> QED BY <1>1, <1>2 DEF Inv

(* batch_clone without its source: the one row is of no VM.                *)
LEMMA SourcelessInv ==
  ASSUME Inv, Stays, call.at = "begin", call.tool = "clones", call' = Sourceless(call),
         vm' = vm, lease' = lease
  PROVE  Inv'
<1>c. /\ call \in Call /\ Shaped(call) /\ MadeOK(call, vm, lease) /\ vm \in [Vms -> Vm] /\ Blank(vm)
      /\ lease \in Open \cup {NoLease, "error", "done", "aborted", "left"}
    BY Apart DEF World
<1>m. call.made = NoVm /\ lease \notin Open
    BY <1>c DEF MadeOK
<1> DEFINE rows == <<[ok |-> FALSE, vm |-> NoVm, of |-> "source"]>>
<1>r. /\ rows \in Seq(Row) /\ Len(rows) = 1 /\ rows[1].of = "source" /\ rows[1].vm = NoVm /\ ~rows[1].ok
      /\ \A k \in 1..Len(rows) : k = 1
    BY DEF Row
<1>1. call' = [call EXCEPT !.rows = rows, !.at = "over", !.answer = "rows"]
    BY <1>c DEF Sourceless, Over, Call
<1> HIDE DEF rows
<1>2. /\ call' \in Call /\ call'.at = "over" /\ call'.answer = "rows" /\ call'.rows = rows
      /\ call'.items = call.items /\ call'.tool = call.tool /\ call'.made = NoVm
    BY <1>1, <1>c, <1>m, <1>r DEF Call
<1>3. Len(call.items) \in Nat /\ 1 <= Len(call.items)
    BY <1>c DEF Call, Shaped
<1>4. Shaped(call')
    BY <1>c, <1>r, <1>2, <1>3 DEF Shaped, SourceRow
<1>5. RowsOK(call', vm, denied)
    BY <1>2, <1>r DEF RowsOK, RowOK
<1>6. Allowed(call', denied) /\ MadeOK(call', vm, lease) /\ FollowsOK(call', vm) /\ Clear(call', vm)
    BY <1>2, <1>m DEF Allowed, MadeOK, FollowsOK, Clear, Making
<1> QED BY <1>c, <1>2, <1>4, <1>5, <1>6, CallInv DEF Sound

(* Past the guard, the rules deny nothing that any item wants.             *)
(* (authorize_reached)                                                     *)
LEMMA AuthorizeInv ==
  ASSUME Inv, Authorize \/ SourceUnread
  PROVE  Inv'
<1>c. /\ call \in Call /\ Shaped(call) /\ RowsOK(call, vm, denied) /\ MadeOK(call, vm, lease)
      /\ call.at = "begin"
    BY Apart DEF Authorize, SourceUnread
<1>v. vm' = vm /\ lease' = lease /\ Stays /\ vm \in [Vms -> Vm] /\ Blank(vm)
      /\ lease \in Open \cup {NoLease, "error", "done", "aborted", "left"} /\ lease \notin Open
    BY <1>c, Apart DEF Authorize, SourceUnread, World, MadeOK
<1>1. CASE \E a \in {"refused", "raised"} : call' = Over(call, a)
  <2>1. call' \in Call /\ Sound(call', vm, lease, denied)
      BY <1>1, <1>c, <1>v, OverSound
  <2> QED BY <1>v, <2>1, CallInv
<1>2. CASE Used \cap denied = {} /\ call' = [call EXCEPT !.at = "item"]
  <2>1. /\ call' \in Call /\ call'.at = "item" /\ call'.pos = call.pos /\ call'.items = call.items
        /\ call'.rows = call.rows /\ call'.made = call.made /\ call'.answer = call.answer
        /\ call'.tool = call.tool
      BY <1>2, <1>c DEF Call
  <2>2. \A k \in 1..Len(call.items) : call.items[k].wants \cap denied = {}
    <3> SUFFICES ASSUME NEW k \in 1..Len(call.items) PROVE call.items[k].wants \cap denied = {}
        OBVIOUS
    <3>1. CASE call.tool = "spec"
      <4>1. call.items \in Seq(Item)
          BY <1>c DEF Call
      <4>2. call.items[k].wants \subseteq Parts
        <5>1. call.items[k] \in Item
            BY <4>1
        <5> QED BY <5>1 DEF Item
      <4>3. Parts \subseteq Used
          BY <3>1 DEF Used
      <4> QED BY <1>2, <4>2, <4>3
    <3>2. CASE call.tool # "spec"
      <4>1. call.pos = 1 /\ call.items[k].wants = call.items[1].wants
          BY <3>2, <1>c DEF Shaped
      <4>2. This.wants \subseteq Used
          BY <3>2 DEF Used
      <4> QED BY <1>2, <4>1, <4>2 DEF This
    <3> QED BY <3>1, <3>2
  <2>3. Shaped(call') /\ RowsOK(call', vm, denied) /\ Allowed(call', denied)
      BY <2>1, <2>2, <1>c DEF Shaped, RowsOK, Allowed
  <2>4. MadeOK(call', vm, lease) /\ FollowsOK(call', vm) /\ Clear(call', vm)
      BY <2>1, <1>c, <1>v DEF MadeOK, FollowsOK, Clear, Making
  <2> QED BY <1>v, <2>1, <2>3, <2>4, CallInv DEF Sound
<1>3. CASE call.tool = "clones" /\ call' = Sourceless(call)
    BY <1>c, <1>v, <1>3, SourcelessInv
<1> QED BY <1>1, <1>2, <1>3 DEF Authorize, SourceUnread

-----------------------------------------------------------------------------
(* An item that comes to nothing                                           *)

(* An item raised, after whatever became of its VM.                        *)
LEMMA RaisedInv ==
  ASSUME Inv, Stays, call.at \notin {"begin", "over"}, call' = ItemRaised(call),
         vm' \in [Vms -> Vm], Blank(vm'), RowsOK(call, vm', denied),
         lease' \in Open \cup {NoLease, "error", "done", "aborted", "left"}, lease' \notin Open,
         RowOK([ok |-> FALSE, vm |-> call.made, of |-> "item"], This, call.tool, vm', denied)
  PROVE  Inv'
<1>1. call \in Call /\ Shaped(call) /\ Allowed(call, denied)
    BY Apart
<1>2. RowOK([ok |-> FALSE, vm |-> call.made, of |-> "item"], ItemOf(call), call.tool, vm', denied)
    BY DEF This, ItemOf
<1>3. call' \in Call /\ Sound(call', vm', lease', denied)
    BY <1>1, <1>2, NextItemSound DEF ItemRaised
<1> QED BY <1>3, CallInv

(* The VM that is being made turns; those of the rows are others.          *)
LEMMA MadeTurns ==
  ASSUME Inv, call.at \in Making, NEW is \in {"here", "gone"}, Turns(call.made, is)
  PROVE  /\ vm' \in [Vms -> Vm] /\ Blank(vm') /\ RowsOK(call, vm', denied) /\ Clear(call, vm')
         /\ vm'[call.made].is = is /\ vm'[call.made].name = vm[call.made].name
         /\ vm'[call.made].home /\ vm'[call.made].has = vm[call.made].has
<1>c. call \in Call /\ vm \in [Vms -> Vm] /\ Blank(vm) /\ RowsOK(call, vm, denied) /\ Clear(call, vm)
    BY Apart
<1>m. /\ call.made \in Vms /\ vm[call.made].home
      /\ \A k \in 1..Len(call.rows) : call.rows[k].vm # call.made
    BY Apart DEF MadeOK
<1>t. is \in {"unborn", "coming", "importing", "here", "gone"} /\ vm' = [vm EXCEPT ![call.made].is = is]
    BY DEF Turns
<1>1. /\ vm' \in [Vms -> Vm]
      /\ vm'[call.made].is = is /\ vm'[call.made].name = vm[call.made].name
      /\ vm'[call.made].home = vm[call.made].home /\ vm'[call.made].has = vm[call.made].has
      /\ \A u \in Vms \ {call.made} : vm'[u] = vm[u]
  <2>1. vm[call.made] \in Vm
      BY <1>c, <1>m
  <2>2. [vm[call.made] EXCEPT !.is = is] \in Vm
      BY <2>1, <1>t DEF Vm
  <2>3. vm' = [vm EXCEPT ![call.made] = [vm[call.made] EXCEPT !.is = is]]
      BY <1>t
  <2> QED BY <1>c, <1>m, <2>1, <2>2, <2>3 DEF Vm
<1>2. Blank(vm')
    BY <1>c, <1>m, <1>1, BlankStays
<1>3. \A k \in 1..Len(call.rows) : call.rows[k].vm # NoVm => vm'[call.rows[k].vm] = vm[call.rows[k].vm]
    BY <1>c, <1>m, <1>1, RowVms
<1>4. RowsOK(call, vm', denied)
    BY <1>c, <1>1, <1>3, RowsKept DEF Ages
<1>5. Clear(call, vm')
    BY <1>c, <1>1, <1>3 DEF Clear
<1> QED BY <1>m, <1>1, <1>2, <1>4, <1>5

(* A VM without any part is no proof against its row.                      *)
LEMMA BareRow ==
  ASSUME NEW x, NEW d, NEW m, NEW item, NEW tool, m # NoVm => x[m].is # "unborn" /\ x[m].home /\ x[m].has = {}
  PROVE  RowOK([ok |-> FALSE, vm |-> m, of |-> "item"], item, tool, x, d)
  BY DEF RowOK

(* The entry without a name, and the item that cannot start.               *)
(* (batch_deploy, linked_clone, deploy_from_template, clone_vm)            *)
LEMMA UnnamedInv ==
  ASSUME Inv, Unnamed \/ CannotStart
  PROVE  Inv'
<1>1. /\ call \in Call /\ Shaped(call) /\ RowsOK(call, vm, denied) /\ MadeOK(call, vm, lease)
      /\ Blank(vm) /\ vm \in [Vms -> Vm]
      /\ lease \in Open \cup {NoLease, "error", "done", "aborted", "left"}
    BY Apart DEF World
<1>2. call.at = "item" /\ vm' = vm /\ lease' = lease /\ Stays
    BY DEF Unnamed, CannotStart
<1>3. lease \notin Open /\ call.made = NoVm
    BY <1>1, <1>2 DEF MadeOK
<1>4. CASE Unnamed
  <2>1. call' = Over(call, "raised")
      BY <1>4 DEF Unnamed
  <2>2. call' \in Call /\ Sound(call', vm, lease, denied)
      BY <2>1, <1>1, <1>3, OverSound
  <2> QED BY <1>1, <1>2, <2>2, CallInv
<1>5. CASE CannotStart
  <2>1. call' = ItemRaised(call)
      BY <1>5 DEF CannotStart
  <2>2. RowOK([ok |-> FALSE, vm |-> call.made, of |-> "item"], This, call.tool, vm, denied)
      BY <1>3, BareRow
  <2> QED BY <1>1, <1>2, <1>3, <2>1, <2>2, RaisedInv
<1> QED BY <1>4, <1>5

-----------------------------------------------------------------------------
(* The task                                                                *)

(* A VM that is not born yet is in no row, and not the one being made.     *)
LEMMA UnbornIsNew ==
  ASSUME Inv, NEW v \in Unborn
  PROVE  /\ v \in Vms /\ vm[v].is = "unborn" /\ vm[v].name = NoName /\ vm[v].home /\ vm[v].has = {}
         /\ v # NoVm
         /\ \A k \in 1..Len(call.rows) : call.rows[k].vm # v
<1>1. v \in Vms /\ vm[v].is = "unborn" /\ Blank(vm) /\ RowsOK(call, vm, denied) /\ v # NoVm
    BY Apart, DeployAssumption DEF Unborn
<1>2. \A k \in 1..Len(call.rows) : call.rows[k].vm # v
    BY <1>1 DEF RowsOK, RowOK
<1> QED BY <1>1, <1>2 DEF Blank

(* No VM of a row has a name that is free in the folder.                   *)
LEMMA FreeIsClear ==
  ASSUME Inv, NEW n, Free(n), NEW k \in 1..Len(call.rows), call.rows[k].vm # NoVm,
         vm[call.rows[k].vm].name = n
  PROVE  vm[call.rows[k].vm].is = "gone"
<1>1. call \in Call /\ vm \in [Vms -> Vm] /\ RowsOK(call, vm, denied)
    BY Apart
<1>2. call.rows[k].vm \in Vms
    BY <1>1, RowVms
<1>3. vm[call.rows[k].vm].home /\ vm[call.rows[k].vm].is # "unborn"
    BY <1>1 DEF RowsOK, RowOK
<1>4. vm[call.rows[k].vm] \in Vm
    BY <1>1, <1>2
<1> QED BY <1>2, <1>3, <1>4 DEF Free, Vm

(* A VM is born, with a name or without, and the rows do not see it.       *)
LEMMA BornVm ==
  ASSUME Inv, NEW v \in Vms, NEW is \in {"coming", "importing"}, NEW n \in Names \cup {NoName},
         vm' = [vm EXCEPT ![v] = [@ EXCEPT !.is = is, !.name = n]],
         \A k \in 1..Len(call.rows) : call.rows[k].vm # v
  PROVE  /\ vm' \in [Vms -> Vm] /\ Blank(vm') /\ RowsOK(call, vm', denied)
         /\ vm'[v].is = is /\ vm'[v].name = n /\ vm'[v].home = vm[v].home /\ vm'[v].has = vm[v].has
         /\ \A k \in 1..Len(call.rows) :
              call.rows[k].vm # NoVm => vm'[call.rows[k].vm] = vm[call.rows[k].vm]
<1>c. call \in Call /\ vm \in [Vms -> Vm] /\ Blank(vm) /\ RowsOK(call, vm, denied)
    BY Apart
<1>1. vm[v] \in Vm
    BY <1>c
<1>2. [vm[v] EXCEPT !.is = is, !.name = n] \in Vm
    BY <1>1 DEF Vm
<1>3. vm' = [vm EXCEPT ![v] = [vm[v] EXCEPT !.is = is, !.name = n]]
    OBVIOUS
<1>4. /\ vm' \in [Vms -> Vm] /\ vm'[v].is = is /\ vm'[v].name = n
      /\ vm'[v].home = vm[v].home /\ vm'[v].has = vm[v].has
      /\ \A u \in Vms \ {v} : vm'[u] = vm[u]
    BY <1>c, <1>1, <1>2, <1>3 DEF Vm
<1>5. Blank(vm')
    BY <1>c, <1>4, BlankStays
<1>6. \A k \in 1..Len(call.rows) : call.rows[k].vm # NoVm => vm'[call.rows[k].vm] = vm[call.rows[k].vm]
    BY <1>c, <1>4, RowVms
<1>7. RowsOK(call, vm', denied)
  <2>1. \A k \in 1..Len(call.rows) :
          call.rows[k].vm # NoVm => Ages(vm[call.rows[k].vm], vm'[call.rows[k].vm])
      BY <1>6 DEF Ages
  <2>2. vm' \in [Vms -> Vm] /\ vm \in [Vms -> Vm] /\ call \in Call /\ RowsOK(call, vm, denied)
      BY <1>c, <1>4
  <2> QED BY ONLY <2>1, <2>2, RowsKept
<1> QED BY <1>4, <1>5, <1>6, <1>7

(* The item the call is at is an item of its list.                         *)
LEMMA ThisItem ==
  ASSUME Inv, call.at # "over"
  PROVE  This \in Item /\ This = ItemOf(call) /\ This.name \in Names \cup {NoName} /\ This.wants \subseteq Parts
<1>1. call.items \in Seq(Item) /\ call.pos \in 1..Len(call.items)
    BY Apart DEF Call, Shaped
<1>2. This \in Item
    BY <1>1 DEF This
<1> QED BY <1>2 DEF This, ItemOf, Item

(* A VM is being made for the item: it is new, and no VM of a row bears    *)
(* its name.                                                               *)
LEMMA StartedInv ==
  ASSUME Inv, Stays, call.at = "item", This.name # NoName, NEW v \in Vms, vm[v].home, vm[v].has = {},
         vm' \in [Vms -> Vm], Blank(vm'), RowsOK(call, vm', denied),
         vm'[v].home, vm'[v].has = {},
         \A k \in 1..Len(call.rows) : call.rows[k].vm # v,
         lease' \in Open \cup {NoLease, "error", "done", "aborted", "left"},
         \/ /\ call' = [call EXCEPT !.at = "task", !.made = v]
            /\ vm'[v].is = "coming" /\ vm'[v].name = This.name /\ lease' \notin Open
         \/ /\ call' = [call EXCEPT !.at = "lease", !.made = v]
            /\ vm'[v].is = "importing" /\ lease' = "initializing",
         vm'[v].name = This.name => \A k \in 1..Len(call.rows) :
            call.rows[k].vm # NoVm /\ vm'[call.rows[k].vm].name = This.name => vm'[call.rows[k].vm].is = "gone"
  PROVE  Inv'
<1>c. call \in Call /\ Shaped(call) /\ Allowed(call, denied)
    BY Apart
<1>1. /\ call' \in Call /\ call'.at \in {"task", "lease"} /\ call'.made = v /\ call'.rows = call.rows
      /\ call'.items = call.items /\ call'.pos = call.pos /\ call'.tool = call.tool
      /\ call'.answer = call.answer
      /\ call'.at = "task" => vm'[v].is = "coming" /\ vm'[v].name = This.name /\ lease' \notin Open
      /\ call'.at = "lease" => vm'[v].is = "importing" /\ lease' = "initializing"
    BY <1>c DEF Call
<1>2. ItemOf(call') = This
    BY <1>1 DEF ItemOf, This
<1>3. Shaped(call') /\ Allowed(call', denied) /\ RowsOK(call', vm', denied)
    BY <1>1, <1>c DEF Shaped, Allowed, RowsOK
<1>4. MadeOK(call', vm', lease')
  <2>1. CASE call'.at = "task"
      BY <2>1, <1>1, <1>2 DEF MadeOK, Making
  <2>2. CASE call'.at = "lease"
      BY <2>2, <1>1, <1>2 DEF MadeOK, Making, Open
  <2> QED BY <2>1, <2>2, <1>1
<1>5. FollowsOK(call', vm')
    BY <1>1 DEF FollowsOK
<1>6. Clear(call', vm')
    BY <1>1, <1>2 DEF Clear
<1> QED BY <1>1, <1>3, <1>4, <1>5, <1>6, CallInv DEF Sound

(* Clone and CreateVM_Task: the name is free in the folder.                *)
LEMMA StartTaskInv ==
  ASSUME Inv, StartTask
  PROVE  Inv'
<1>1. /\ call.at = "item" /\ This.name # NoName /\ Free(This.name) /\ lease' = lease /\ Stays
    BY DEF StartTask
<1>2. PICK v \in Unborn : Born(v, "coming") /\ call' = [call EXCEPT !.at = "task", !.made = v]
    BY DEF StartTask
<1>3. /\ v \in Vms /\ vm[v].home /\ vm[v].has = {}
      /\ \A k \in 1..Len(call.rows) : call.rows[k].vm # v
    BY UnbornIsNew
<1>4. This.name \in Names \cup {NoName}
    BY <1>1, ThisItem
<1>5. vm' = [vm EXCEPT ![v] = [@ EXCEPT !.is = "coming", !.name = This.name]]
    BY <1>2 DEF Born
<1>6. /\ vm' \in [Vms -> Vm] /\ Blank(vm') /\ RowsOK(call, vm', denied)
      /\ vm'[v].is = "coming" /\ vm'[v].name = This.name /\ vm'[v].home = vm[v].home /\ vm'[v].has = vm[v].has
      /\ \A k \in 1..Len(call.rows) :
           call.rows[k].vm # NoVm => vm'[call.rows[k].vm] = vm[call.rows[k].vm]
    BY <1>3, <1>4, <1>5, BornVm
<1>7. \A k \in 1..Len(call.rows) :
        call.rows[k].vm # NoVm /\ vm'[call.rows[k].vm].name = This.name => vm'[call.rows[k].vm].is = "gone"
    BY <1>1, <1>6, FreeIsClear
<1>8. /\ lease' \in Open \cup {NoLease, "error", "done", "aborted", "left"}
      /\ lease' \notin Open
    BY <1>1, Apart DEF World, MadeOK
<1> QED BY <1>1, <1>2, <1>3, <1>6, <1>7, <1>8, StartedInv

(* CreateImportSpec, ImportVApp: the VM has no name until its lease is     *)
(* ready.                                                                  *)
LEMMA StartImportInv ==
  ASSUME Inv, StartImport
  PROVE  Inv'
<1>1. /\ call.at = "item" /\ This.name # NoName /\ lease' = "initializing" /\ Stays
    BY DEF StartImport
<1>2. PICK v \in Unborn : Turns(v, "importing") /\ call' = [call EXCEPT !.at = "lease", !.made = v]
    BY DEF StartImport
<1>3. /\ v \in Vms /\ vm[v].home /\ vm[v].has = {} /\ vm[v].name = NoName
      /\ \A k \in 1..Len(call.rows) : call.rows[k].vm # v
    BY UnbornIsNew
<1>4. vm' = [vm EXCEPT ![v] = [@ EXCEPT !.is = "importing", !.name = NoName]]
  <2>1. vm \in [Vms -> Vm] /\ vm[v] \in Vm
      BY <1>3, Apart
  <2>2. [vm[v] EXCEPT !.is = "importing"] = [vm[v] EXCEPT !.is = "importing", !.name = NoName]
      BY <2>1, <1>3 DEF Vm
  <2>3. vm' = [vm EXCEPT ![v] = [vm[v] EXCEPT !.is = "importing"]]
      BY <1>2 DEF Turns
  <2> QED BY <2>2, <2>3
<1>6. /\ vm' \in [Vms -> Vm] /\ Blank(vm') /\ RowsOK(call, vm', denied)
      /\ vm'[v].is = "importing" /\ vm'[v].name = NoName /\ vm'[v].home = vm[v].home /\ vm'[v].has = vm[v].has
    BY <1>3, <1>4, BornVm
<1>8. lease' \in Open \cup {NoLease, "error", "done", "aborted", "left"}
    BY <1>1 DEF Open
<1> QED BY <1>1, <1>2, <1>3, <1>6, <1>8, StartedInv

(* The VM is there, and gets the steps after.                              *)
LEMMA FollowedInv ==
  ASSUME Inv, Stays, call.at \in Making, Turns(call.made, "here"), call' = Follow(call),
         vm[call.made].name = This.name, vm[call.made].has = {},
         lease' \in Open \cup {NoLease, "error", "done", "aborted", "left"}, lease' \notin Open
  PROVE  Inv'
<1>c. /\ call \in Call /\ Shaped(call) /\ Allowed(call, denied) /\ call.made \in Vms
      /\ ItemOf(call).name # NoName /\ \A k \in 1..Len(call.rows) : call.rows[k].vm # call.made
    BY Apart DEF MadeOK
<1>1. /\ vm' \in [Vms -> Vm] /\ Blank(vm') /\ RowsOK(call, vm', denied) /\ Clear(call, vm')
      /\ vm'[call.made].is = "here" /\ vm'[call.made].name = ItemOf(call).name
      /\ vm'[call.made].home /\ vm'[call.made].has = {}
    BY MadeTurns DEF This, ItemOf
<1>2. call' = [call EXCEPT !.at = "follow", !.todo = Todo(call.tool, ItemOf(call))]
    BY DEF Follow, This, ItemOf
<1>3. call' \in Call /\ Sound(call', vm', lease', denied)
    BY <1>c, <1>1, <1>2, FollowSound
<1> QED BY <1>1, <1>3, CallInv

(* The task ends, and the VM is there.                                     *)
LEMMA TaskEndsInv ==
  ASSUME Inv, TaskEnds
  PROVE  Inv'
<1>1. /\ call.at = "task" /\ Turns(call.made, "here") /\ call' = Follow(call) /\ lease' = lease /\ Stays
    BY DEF TaskEnds
<1>2. /\ vm[call.made].name = This.name /\ vm[call.made].has = {} /\ call.at \in Making
      /\ lease' \in Open \cup {NoLease, "error", "done", "aborted", "left"} /\ lease' \notin Open
    BY <1>1, Apart DEF MadeOK, World, Making, This, ItemOf
<1> QED BY <1>1, <1>2, FollowedInv

(* The lease is completed, and the VM is there.                            *)
LEMMA CompleteInv ==
  ASSUME Inv, Complete
  PROVE  Inv'
<1>1. /\ call.at = "upload" /\ lease = "ready" /\ Turns(call.made, "here") /\ call' = Follow(call)
      /\ lease' = "done" /\ Stays
    BY DEF Complete
<1>2. /\ vm[call.made].name = This.name /\ vm[call.made].has = {} /\ call.at \in Making
    BY <1>1, Apart DEF MadeOK, Making, This, ItemOf
<1>3. lease' \in Open \cup {NoLease, "error", "done", "aborted", "left"} /\ lease' \notin Open
    BY <1>1 DEF Open
<1> QED BY <1>1, <1>2, <1>3, FollowedInv

(* The VM did not come to be, or nobody waited for it: it has no parts.    *)
LEMMA UnfinishedInv ==
  ASSUME Inv, Stays, call.at \in {"task", "lease", "upload"}, call' = ItemRaised(call),
         vm' = vm \/ \E is \in {"here", "gone"} : Turns(call.made, is),
         lease' \in Open \cup {NoLease, "error", "done", "aborted", "left"}, lease' \notin Open
  PROVE  Inv'
<1>1. call.at \in Making /\ call.at \notin {"begin", "over"}
    BY DEF Making
<1>2. /\ vm \in [Vms -> Vm] /\ Blank(vm) /\ RowsOK(call, vm, denied)
      /\ vm[call.made].is # "unborn" /\ vm[call.made].home /\ vm[call.made].has = {}
    BY <1>1, Apart DEF MadeOK
<1>3. /\ vm' \in [Vms -> Vm] /\ Blank(vm') /\ RowsOK(call, vm', denied)
      /\ vm'[call.made].is # "unborn" /\ vm'[call.made].home /\ vm'[call.made].has = {}
  <2>1. CASE vm' = vm
      BY <2>1, <1>2
  <2>2. CASE \E is \in {"here", "gone"} : Turns(call.made, is)
    <3>1. PICK is \in {"here", "gone"} : Turns(call.made, is)
        BY <2>2
    <3> QED BY <3>1, <1>1, <1>2, MadeTurns
  <2> QED BY <2>1, <2>2
<1>4. RowOK([ok |-> FALSE, vm |-> call.made, of |-> "item"], This, call.tool, vm', denied)
    BY <1>3, BareRow
<1> QED BY <1>1, <1>3, <1>4, RaisedInv

(* The task failed, or ran on past the wait: TaskStillRunning.             *)
LEMMA TaskRaisedInv ==
  ASSUME Inv, TaskFails \/ TaskOutlivesWait
  PROVE  Inv'
<1>1. /\ call.at = "task" /\ call' = ItemRaised(call) /\ lease' = lease /\ Stays
      /\ vm' = vm \/ \E is \in {"here", "gone"} : Turns(call.made, is)
    BY DEF TaskFails, TaskOutlivesWait
<1>2. lease' \in Open \cup {NoLease, "error", "done", "aborted", "left"} /\ lease' \notin Open
    BY <1>1, Apart DEF MadeOK, World
<1> QED BY <1>1, <1>2, UnfinishedInv

(* However an abort goes, the lease is not open after it.                  *)
LEMMA AbortSettles ==
  ASSUME Inv, Abort
  PROVE  /\ lease' \in Open \cup {NoLease, "error", "done", "aborted", "left"} /\ lease' \notin Open
         /\ vm' = vm \/ \E is \in {"here", "gone"} : Turns(call.made, is)
<1>1. lease \in Open \cup {NoLease, "error", "done", "aborted", "left"}
    BY Apart DEF World
<1>2. \/ lease' = IF lease \in Open THEN "aborted" ELSE lease
      \/ lease' = IF lease \in Open THEN "left" ELSE lease
    BY DEF Abort, Forgotten
<1>3. vm' = vm \/ \E is \in {"here", "gone"} : Turns(call.made, is)
    BY DEF Abort
<1> QED BY <1>1, <1>2, <1>3 DEF Open

(* The ways out of an import: the lease was not ready in time, or is in    *)
(* error, or could not be read, or a disk or Complete raised. (deploy_ova) *)
LEMMA ImportRaisedInv ==
  ASSUME Inv, LeaseTimesOut \/ LeaseFails \/ LeaseUnread \/ UploadFails
  PROVE  Inv'
<1>1. call.at \in {"task", "lease", "upload"} /\ call' = ItemRaised(call) /\ Stays
    BY DEF LeaseTimesOut, LeaseFails, LeaseUnread, UploadFails
<1>2. /\ lease' \in Open \cup {NoLease, "error", "done", "aborted", "left"} /\ lease' \notin Open
      /\ vm' = vm \/ \E is \in {"here", "gone"} : Turns(call.made, is)
  <2>1. CASE Abort
      BY <2>1, AbortSettles
  <2>2. CASE lease = "error" /\ lease' = lease /\ vm' = vm
      BY <2>2 DEF Open
  <2>3. CASE lease' = "done" /\ Turns(call.made, "here")
      BY <2>3 DEF Open
  <2>4. CASE lease' = Forgotten /\ vm' = vm
      BY <2>4, Apart DEF Forgotten, World, Open
  <2> QED BY <2>1, <2>2, <2>3, <2>4
        DEF LeaseTimesOut, StopWaiting, LeaseFails, LeaseUnread, UploadFails
<1> QED BY <1>1, <1>2, UnfinishedInv

(* The disks go up under a lease that is ready.                            *)
LEMMA UploadInv ==
  ASSUME Inv, Upload
  PROVE  Inv'
<1>c. /\ call \in Call /\ Shaped(call) /\ Allowed(call, denied) /\ MadeOK(call, vm, lease)
      /\ RowsOK(call, vm, denied) /\ Clear(call, vm)
    BY Apart
<1>v. /\ vm \in [Vms -> Vm] /\ Blank(vm) /\ vm' = vm /\ lease' = lease /\ Stays
      /\ lease \in Open \cup {NoLease, "error", "done", "aborted", "left"}
    BY Apart DEF World, Upload
<1>1. call.at = "lease" /\ lease = "ready" /\ call' = [call EXCEPT !.at = "upload"]
    BY DEF Upload
<1>2. /\ call' \in Call /\ call'.at = "upload" /\ call'.made = call.made /\ call'.rows = call.rows
      /\ call'.items = call.items /\ call'.pos = call.pos /\ call'.tool = call.tool
      /\ call'.answer = call.answer
    BY <1>1, <1>c DEF Call
<1>3. ItemOf(call') = ItemOf(call)
    BY <1>2 DEF ItemOf
<1>4. Shaped(call') /\ Allowed(call', denied) /\ RowsOK(call', vm, denied)
    BY <1>1, <1>2, <1>c DEF Shaped, Allowed, RowsOK
<1>5. MadeOK(call', vm, lease)
    BY <1>1, <1>2, <1>3, <1>c DEF MadeOK, Making
<1>6. FollowsOK(call', vm) /\ Clear(call', vm)
    BY <1>1, <1>2, <1>3, <1>c DEF FollowsOK, Clear, Making
<1> QED BY <1>v, <1>2, <1>4, <1>5, <1>6, CallInv DEF Sound

(* vCenter names the VM under a lease that comes to be ready, or takes it  *)
(* back with one in error.                                                 *)
LEMMA LeaseTurnsInv ==
  ASSUME Inv, LeaseTurns
  PROVE  Inv'
<1>c. /\ call \in Call /\ Shaped(call) /\ Allowed(call, denied) /\ MadeOK(call, vm, lease)
      /\ RowsOK(call, vm, denied) /\ Clear(call, vm)
    BY Apart
<1>1. call' = call /\ Stays /\ lease \in Open
    BY DEF LeaseTurns, Open
<1>2. /\ call.at \in {"lease", "upload"} /\ call.at \in Making /\ call.at # "over"
      /\ call.made \in Vms /\ vm[call.made].home
      /\ vm[call.made].has = {} /\ ItemOf(call).name # NoName
      /\ \A k \in 1..Len(call.rows) : call.rows[k].vm # call.made
    BY <1>1, <1>c DEF MadeOK, Making
<1>3. This = ItemOf(call) /\ This.name \in Names \cup {NoName}
    BY <1>2, ThisItem
<1>4. CASE lease = "initializing" /\ Free(This.name) /\ lease' = "ready" /\ Born(call.made, "importing")
  <2>1. vm' = [vm EXCEPT ![call.made] = [@ EXCEPT !.is = "importing", !.name = This.name]]
      BY <1>4 DEF Born
  <2>2. /\ vm' \in [Vms -> Vm] /\ Blank(vm') /\ RowsOK(call, vm', denied)
        /\ vm'[call.made].is = "importing" /\ vm'[call.made].name = This.name
        /\ vm'[call.made].home = vm[call.made].home /\ vm'[call.made].has = vm[call.made].has
        /\ \A k \in 1..Len(call.rows) :
             call.rows[k].vm # NoVm => vm'[call.rows[k].vm] = vm[call.rows[k].vm]
      BY <1>2, <1>3, <2>1, BornVm
  <2>3. call.at = "lease"
      BY <1>2, <1>4, <1>c DEF MadeOK
  <2>4. MadeOK(call, vm', lease')
      BY <1>2, <1>3, <1>4, <2>2, <2>3 DEF MadeOK, Open
  <2>5. FollowsOK(call, vm')
      BY <2>3 DEF FollowsOK
  <2>6. Clear(call, vm')
      BY <1>3, <1>4, <2>2, FreeIsClear DEF Clear
  <2>7. lease' \in Open \cup {NoLease, "error", "done", "aborted", "left"}
      BY <1>4 DEF Open
  <2> QED BY <1>1, <1>c, <2>2, <2>4, <2>5, <2>6, <2>7, CallInv DEF Sound
<1>5. CASE lease' = "error" /\ Turns(call.made, "gone")
  <2>1. /\ vm' \in [Vms -> Vm] /\ Blank(vm') /\ RowsOK(call, vm', denied) /\ Clear(call, vm')
        /\ vm'[call.made].is = "gone" /\ vm'[call.made].name = vm[call.made].name
        /\ vm'[call.made].home /\ vm'[call.made].has = vm[call.made].has
      BY <1>2, <1>5, MadeTurns
  <2>2. MadeOK(call, vm', lease')
      BY <1>2, <1>5, <2>1 DEF MadeOK, Open
  <2>3. FollowsOK(call, vm')
      BY <1>2 DEF FollowsOK
  <2>4. lease' \in Open \cup {NoLease, "error", "done", "aborted", "left"}
      BY <1>5
  <2> QED BY <1>1, <1>c, <2>1, <2>2, <2>3, <2>4, CallInv DEF Sound
<1> QED BY <1>4, <1>5 DEF LeaseTurns

-----------------------------------------------------------------------------
(* The steps after                                                         *)

(* What comes after the VM is there: its parts are in their order, and the *)
(* power-on of a VM comes last, but for deploy_ova's.                      *)
LEMMA DuePart ==
  ASSUME Inv, call.at = "follow", NEW part \in Due
  PROVE  /\ part \in Parts /\ part \in call.todo /\ part \in This.wants /\ call.todo \subseteq This.wants
         /\ ~BestEffort(call.tool, This) /\ part = "power_on" => call.todo = {"power_on"}
<1>1. /\ part \in call.todo /\ Earlier(call.tool, This, part) \cap call.todo = {}
      /\ call.todo \subseteq Parts /\ call.todo \subseteq This.wants
    BY Apart DEF Due, Call, FollowsOK, This, ItemOf
<1>2. ASSUME ~BestEffort(call.tool, This), part = "power_on"
      PROVE  call.todo = {"power_on"}
  <2>1. Earlier(call.tool, This, part) = Parts \ {"power_on"}
      BY <1>2 DEF Earlier
  <2> QED BY <1>1, <1>2, <2>1
<1> QED BY <1>1, <1>2

(* The VM that the name finds is the one just made, if that is still       *)
(* there, and otherwise none of the call's.  (find_vm_by_name)             *)
LEMMA FoundVm ==
  ASSUME Inv, call.at = "follow", NEW v \in Found(This.name)
  PROVE  /\ v \in Vms /\ vm[v].is = "here"
         /\ vm[call.made].is = "here" => v = call.made
         /\ \A k \in 1..Len(call.rows) : call.rows[k].vm # v
<1>1. v \in Here(This.name) /\ Here(This.name) = {v}
    BY DEF Found
<1>2. v \in Vms /\ vm[v].is = "here" /\ vm[v].name = This.name
    BY <1>1 DEF Here
<1>3. call.made \in Vms /\ vm[call.made].name = This.name /\ call.at \in Making
    BY Apart DEF MadeOK, Making, This, ItemOf
<1>4. vm[call.made].is = "here" => v = call.made
    BY <1>1, <1>3 DEF Here
<1>5. v # NoVm
    BY <1>2, DeployAssumption
<1>6. \A k \in 1..Len(call.rows) : call.rows[k].vm # v
    BY <1>2, <1>3, <1>5, Apart DEF Clear, This, ItemOf
<1> QED BY <1>2, <1>4, <1>6

(* A step after, done or not: the rows do not see it, and of the VM just   *)
(* made nothing changes but the part, if it is still there.                *)
LEMMA PartDone ==
  ASSUME Inv, call.at = "follow", NEW part \in Due,
         vm' = vm \/ \E v \in Found(This.name) : Gets(v, part)
  PROVE  /\ vm' \in [Vms -> Vm] /\ Blank(vm') /\ RowsOK(call, vm', denied) /\ Clear(call, vm')
         /\ vm'[call.made].is = vm[call.made].is /\ vm'[call.made].name = vm[call.made].name
         /\ vm'[call.made].home
         /\ \/ vm'[call.made].has = vm[call.made].has
            \/ vm[call.made].is = "here" /\ vm'[call.made].has = vm[call.made].has \cup {part}
         /\ vm[call.made].is = "here" /\ (\E v \in Found(This.name) : Gets(v, part)) =>
              vm'[call.made].has = vm[call.made].has \cup {part}
<1>c. /\ call \in Call /\ vm \in [Vms -> Vm] /\ Blank(vm) /\ RowsOK(call, vm, denied) /\ Clear(call, vm)
      /\ call.made \in Vms /\ vm[call.made].home
    BY Apart DEF MadeOK, Making
<1>1. CASE \E v \in Found(This.name) : Gets(v, part)
  <2>1. PICK v \in Found(This.name) : Gets(v, part)
      BY <1>1
  <2>2. /\ v \in Vms /\ vm[v].is = "here" /\ (vm[call.made].is = "here" => v = call.made)
        /\ \A k \in 1..Len(call.rows) : call.rows[k].vm # v
      BY <2>1, FoundVm
  <2>3. part \in Parts
      BY DuePart
  <2>4. /\ vm' \in [Vms -> Vm] /\ vm'[v].is = vm[v].is /\ vm'[v].name = vm[v].name
        /\ vm'[v].home = vm[v].home /\ vm'[v].has = vm[v].has \cup {part}
        /\ \A u \in Vms \ {v} : vm'[u] = vm[u]
    <3>1. vm[v] \in Vm
        BY <2>2, <1>c
    <3>2. [vm[v] EXCEPT !.has = vm[v].has \cup {part}] \in Vm
        BY <2>3, <3>1 DEF Vm
    <3>3. vm' = [vm EXCEPT ![v] = [vm[v] EXCEPT !.has = vm[v].has \cup {part}]]
        BY <2>1 DEF Gets
    <3> QED BY <1>c, <2>2, <3>1, <3>2, <3>3 DEF Vm
  <2>5. Blank(vm')
      BY <1>c, <2>2, <2>4, BlankStays
  <2>6. \A k \in 1..Len(call.rows) : call.rows[k].vm # NoVm => vm'[call.rows[k].vm] = vm[call.rows[k].vm]
      BY <1>c, <2>2, <2>4, RowVms
  <2>7. RowsOK(call, vm', denied)
    <3>1. \A k \in 1..Len(call.rows) :
            call.rows[k].vm # NoVm => Ages(vm[call.rows[k].vm], vm'[call.rows[k].vm])
        BY <2>6 DEF Ages
    <3>2. vm' \in [Vms -> Vm] /\ vm \in [Vms -> Vm] /\ call \in Call /\ RowsOK(call, vm, denied)
        BY <1>c, <2>4
    <3> QED BY ONLY <3>1, <3>2, RowsKept
  <2>8. vm'[call.made].name = vm[call.made].name /\ vm'[call.made].is = vm[call.made].is
        /\ vm'[call.made].home
      BY <1>c, <2>2, <2>4
  <2>9. Clear(call, vm')
      BY <1>c, <2>6, <2>8 DEF Clear
  <2>10. CASE v = call.made
      BY <2>10, <2>2, <2>4, <2>5, <2>7, <2>8, <2>9
  <2>11. CASE v # call.made
    <3>1. vm'[call.made] = vm[call.made] /\ vm[call.made].is # "here"
        BY <2>11, <2>2, <2>4, <1>c
    <3> QED BY <3>1, <2>4, <2>5, <2>7, <2>8, <2>9
  <2> QED BY <2>10, <2>11
<1>2. CASE vm' = vm /\ ~\E v \in Found(This.name) : Gets(v, part)
    BY <1>2, <1>c
<1> QED BY <1>1, <1>2

(* What the VM has is of what the item wants, and all of it once it runs.  *)
LEMMA PartOfWants ==
  ASSUME Inv, call.at = "follow", NEW part \in Due, NEW has,
         \/ has = vm[call.made].has
         \/ vm[call.made].is = "here" /\ has = vm[call.made].has \cup {part}
  PROVE  /\ has \subseteq This.wants
         /\ "power_on" \in has /\ ~BestEffort(call.tool, This) => has = This.wants
<1>1. /\ vm[call.made].has \subseteq This.wants
      /\ vm[call.made].is = "here" /\ ~BestEffort(call.tool, This) => vm[call.made].has = This.wants \ call.todo
      /\ "power_on" \in vm[call.made].has /\ ~BestEffort(call.tool, This) => vm[call.made].has = This.wants
    BY Apart DEF FollowsOK, This, ItemOf
<1>2. /\ part \in This.wants
      /\ ~BestEffort(call.tool, This) /\ part = "power_on" => call.todo = {"power_on"}
    BY DuePart
<1>3. has \subseteq This.wants
    BY <1>1, <1>2
<1>4. ASSUME "power_on" \in has, ~BestEffort(call.tool, This)
      PROVE  has = This.wants
  <2>1. CASE "power_on" \in vm[call.made].has
      BY <2>1, <1>1, <1>2, <1>4
  <2>2. CASE "power_on" \notin vm[call.made].has
    <3>1. vm[call.made].is = "here" /\ has = vm[call.made].has \cup {part} /\ part = "power_on"
        BY <2>2, <1>4
    <3> QED BY <3>1, <1>1, <1>2, <1>4
  <2> QED BY <2>1, <2>2
<1> QED BY <1>3, <1>4

(* One step less to do: the call is where it was.                          *)
LEMMA TodoShrinks ==
  ASSUME Inv, Stays, call.at = "follow", NEW part \in Due, lease' = lease,
         vm' = vm \/ \E v \in Found(This.name) : Gets(v, part),
         call' = [call EXCEPT !.todo = @ \ {part}],
         (\E v \in Found(This.name) : Gets(v, part)) \/ BestEffort(call.tool, This)
  PROVE  Inv'
<1>c. /\ call \in Call /\ Shaped(call) /\ Allowed(call, denied) /\ MadeOK(call, vm, lease)
      /\ lease \in Open \cup {NoLease, "error", "done", "aborted", "left"}
    BY Apart DEF World
<1>f. /\ vm[call.made].is \in {"here", "gone"}
      /\ vm[call.made].is = "here" /\ ~BestEffort(call.tool, This) => vm[call.made].has = This.wants \ call.todo
    BY Apart DEF FollowsOK, This, ItemOf
<1>1. /\ vm' \in [Vms -> Vm] /\ Blank(vm') /\ RowsOK(call, vm', denied) /\ Clear(call, vm')
      /\ vm'[call.made].is = vm[call.made].is /\ vm'[call.made].name = vm[call.made].name
      /\ vm'[call.made].home
      /\ \/ vm'[call.made].has = vm[call.made].has
         \/ vm[call.made].is = "here" /\ vm'[call.made].has = vm[call.made].has \cup {part}
      /\ vm[call.made].is = "here" /\ (\E v \in Found(This.name) : Gets(v, part)) =>
           vm'[call.made].has = vm[call.made].has \cup {part}
    BY PartDone
<1>2. /\ vm'[call.made].has \subseteq This.wants
      /\ "power_on" \in vm'[call.made].has /\ ~BestEffort(call.tool, This) => vm'[call.made].has = This.wants
    BY <1>1, PartOfWants
<1>3. part \in call.todo /\ part \in This.wants /\ call.todo \subseteq This.wants
    BY DuePart
<1>4. /\ call' \in Call /\ call'.at = "follow" /\ call'.made = call.made /\ call'.rows = call.rows
      /\ call'.items = call.items /\ call'.pos = call.pos /\ call'.tool = call.tool
      /\ call'.answer = call.answer /\ call'.todo = call.todo \ {part}
    BY <1>c DEF Call
<1>5. ItemOf(call') = This /\ ItemOf(call) = This
    BY <1>4 DEF ItemOf, This
<1>6. Shaped(call') /\ Allowed(call', denied) /\ RowsOK(call', vm', denied)
    BY <1>1, <1>4, <1>c DEF Shaped, Allowed, RowsOK
<1>7. MadeOK(call', vm', lease')
    BY <1>1, <1>4, <1>5, <1>c, <1>f DEF MadeOK, Making
<1>8. FollowsOK(call', vm')
  <2>1. ASSUME vm'[call.made].is = "here", ~BestEffort(call.tool, This)
        PROVE  vm'[call.made].has = This.wants \ (call.todo \ {part})
      BY <2>1, <1>1, <1>3, <1>f
  <2>2. call'.todo \subseteq This.wants
      BY <1>3, <1>4
  <2> QED BY <1>1, <1>2, <1>4, <1>5, <1>f, <2>1, <2>2 DEF FollowsOK
<1>9. Clear(call', vm')
    BY <1>1, <1>4, <1>5 DEF Clear, Making
<1> QED BY <1>1, <1>4, <1>6, <1>7, <1>8, <1>9, <1>c, CallInv DEF Sound

(* A step after is done, or not: what fails ends the item, but not in      *)
(* deploy_ova.                                                             *)
LEMMA FollowUpInv ==
  ASSUME Inv, FollowUp \/ FollowUpFails
  PROVE  Inv'
<1>1. call.at = "follow" /\ lease' = lease /\ Stays
    BY DEF FollowUp, FollowUpFails
<1>2. PICK part \in Due :
        /\ vm' = vm \/ \E v \in Found(This.name) : Gets(v, part)
        /\ \/ /\ call' = [call EXCEPT !.todo = @ \ {part}]
              /\ (\E v \in Found(This.name) : Gets(v, part)) \/ BestEffort(call.tool, This)
           \/ call' = ItemRaised(call)
    BY DEF FollowUp, FollowUpFails
<1>3. CASE call' = [call EXCEPT !.todo = @ \ {part}]
           /\ ((\E v \in Found(This.name) : Gets(v, part)) \/ BestEffort(call.tool, This))
    BY <1>1, <1>2, <1>3, TodoShrinks
<1>4. CASE call' = ItemRaised(call)
  <2>1. /\ vm' \in [Vms -> Vm] /\ Blank(vm') /\ RowsOK(call, vm', denied)
        /\ vm'[call.made].is = vm[call.made].is /\ vm'[call.made].home
        /\ \/ vm'[call.made].has = vm[call.made].has
           \/ vm[call.made].is = "here" /\ vm'[call.made].has = vm[call.made].has \cup {part}
      BY <1>1, <1>2, PartDone
  <2>2. /\ vm'[call.made].has \subseteq This.wants
        /\ "power_on" \in vm'[call.made].has /\ ~BestEffort(call.tool, This) => vm'[call.made].has = This.wants
      BY <1>1, <2>1, PartOfWants
  <2>3. This.wants \cap denied = {}
    <3>1. call.pos \in 1..Len(call.items)
        BY <1>1, Apart DEF Shaped
    <3> QED BY <3>1, <1>1, Apart DEF Allowed, This
  <2>4. RowOK([ok |-> FALSE, vm |-> call.made, of |-> "item"], This, call.tool, vm', denied)
    <3>1. vm'[call.made].is # "unborn"
        BY <1>1, <2>1, Apart DEF MadeOK, Making
    <3> QED BY <2>1, <2>2, <2>3, <3>1 DEF RowOK
  <2>5. /\ lease' \in Open \cup {NoLease, "error", "done", "aborted", "left"} /\ lease' \notin Open
      BY <1>1, Apart DEF MadeOK, World
  <2> QED BY <1>1, <1>4, <2>1, <2>4, <2>5, RaisedInv
<1> QED BY <1>2, <1>3, <1>4

(* With nothing left to do, the row says "ok", of a VM that has all.       *)
LEMMA ItemDoneInv ==
  ASSUME Inv, ItemDone
  PROVE  Inv'
<1>1. /\ call.at = "follow" /\ call.todo = {} /\ call' = NextItem(call, TRUE) /\ vm' = vm /\ lease' = lease
      /\ Stays
    BY DEF ItemDone
<1>2. /\ call \in Call /\ Shaped(call) /\ Allowed(call, denied) /\ RowsOK(call, vm, denied)
      /\ vm \in [Vms -> Vm] /\ Blank(vm)
      /\ lease \in Open \cup {NoLease, "error", "done", "aborted", "left"} /\ lease \notin Open
    BY <1>1, Apart DEF MadeOK, World
<1>3. This.wants \cap denied = {}
  <2>1. call.pos \in 1..Len(call.items)
      BY <1>1, <1>2 DEF Shaped
  <2> QED BY <2>1, <1>1, <1>2 DEF Allowed, This
<1>4. RowOK([ok |-> TRUE, vm |-> call.made, of |-> "item"], ItemOf(call), call.tool, vm, denied)
  <2>1. call.made \in Vms /\ call.made # NoVm /\ vm[call.made].home /\ vm[call.made].is \in {"here", "gone"}
      BY <1>1, Apart, DeployAssumption DEF MadeOK, Making, FollowsOK
  <2>2. /\ vm[call.made].has \subseteq This.wants
        /\ vm[call.made].is = "here" /\ ~BestEffort(call.tool, This) => vm[call.made].has = This.wants \ {}
        /\ "power_on" \in vm[call.made].has /\ ~BestEffort(call.tool, This) => vm[call.made].has = This.wants
      BY <1>1, Apart DEF FollowsOK, This, ItemOf
  <2>3. This = ItemOf(call)
      BY DEF This, ItemOf
  <2> QED BY <1>3, <2>1, <2>2, <2>3 DEF RowOK
<1>5. call' \in Call /\ Sound(call', vm, lease, denied)
    BY <1>1, <1>2, <1>4, NextItemSound
<1> QED BY <1>1, <1>2, <1>5, CallInv

-----------------------------------------------------------------------------
(* Everyone else                                                           *)

(* What others do to the VMs leaves the call where it is.                  *)
LEMMA OthersInv ==
  ASSUME Inv, call' = call, lease' = lease, denied' = denied, source' \in {"none", "vm", "template"},
         base' \in BOOLEAN, changes' \in 0..MaxChanges, vm' \in [Vms -> Vm], Blank(vm'),
         \A k \in 1..Len(call.rows) :
           call.rows[k].vm # NoVm => Ages(vm[call.rows[k].vm], vm'[call.rows[k].vm]),
         call.at \in Making =>
           vm'[call.made] = vm[call.made] \/ (call.at = "follow" /\ Ages(vm[call.made], vm'[call.made]))
  PROVE  Inv'
<1>1. /\ call \in Call /\ vm \in [Vms -> Vm] /\ Sound(call, vm, lease, denied)
      /\ lease \in Open \cup {NoLease, "error", "done", "aborted", "left"} /\ denied \in Rules
    BY DEF Inv, World
<1>2. Sound(call, vm', lease, denied)
    BY <1>1, WorldTurns
<1>3. World'
    BY <1>1 DEF World
<1> QED BY <1>1, <1>2, <1>3 DEF Inv

(* One VM, which the call is not working on, comes to be there or goes.    *)
LEMMA OtherTurns ==
  ASSUME Inv, NEW v \in Vms, NEW is \in {"here", "gone"}, Turns(v, is),
         vm[v].is \in {"coming", "importing", "here"}, vm[v].is = "here" => is = "gone"
  PROVE  /\ vm' \in [Vms -> Vm] /\ Blank(vm')
         /\ Ages(vm[v], vm'[v]) /\ \A u \in Vms \ {v} : vm'[u] = vm[u]
         /\ \A u \in Vms : Ages(vm[u], vm'[u])
<1>1. vm \in [Vms -> Vm] /\ Blank(vm)
    BY Apart
<1>2. /\ vm' \in [Vms -> Vm]
      /\ vm'[v].is = is /\ vm'[v].name = vm[v].name /\ vm'[v].home = vm[v].home /\ vm'[v].has = vm[v].has
      /\ \A u \in Vms \ {v} : vm'[u] = vm[u]
  <2>1. vm[v] \in Vm
      BY <1>1
  <2>2. [vm[v] EXCEPT !.is = is] \in Vm
      BY <2>1 DEF Vm
  <2>3. vm' = [vm EXCEPT ![v] = [vm[v] EXCEPT !.is = is]]
      BY DEF Turns
  <2> QED BY <1>1, <2>1, <2>2, <2>3 DEF Vm
<1>3. Blank(vm')
    BY <1>1, <1>2, BlankStays
<1>4. Ages(vm[v], vm'[v])
    BY <1>2 DEF Ages
<1>5. \A u \in Vms : Ages(vm[u], vm'[u])
    BY <1>2, <1>4 DEF Ages
<1> QED BY <1>2, <1>3, <1>4, <1>5

(* A task that nobody waits for ends, vCenter drops a lease in time; or    *)
(* others destroy a VM.                                                    *)
LEMMA VmTurnsInv ==
  ASSUME Inv, LateTaskEnds \/ OthersDestroy
  PROVE  Inv'
<1>c. /\ call \in Call /\ source \in {"none", "vm", "template"} /\ base \in BOOLEAN
      /\ changes \in 0..MaxChanges /\ MaxChanges \in Nat /\ MadeOK(call, vm, lease)
    BY Apart, DeployAssumption DEF World
<1>1. PICK v \in Vms, is \in {"here", "gone"} :
        /\ Turns(v, is) /\ vm[v].is \in {"coming", "importing", "here"} /\ (vm[v].is = "here" => is = "gone")
        /\ v = call.made => OthersDestroy /\ vm[v].is = "here"
  <2>1. CASE LateTaskEnds
    <3>1. PICK v \in Vms \ {call.made} :
            \/ vm[v].is = "coming" /\ Turns(v, "here")
            \/ vm[v].is \in {"coming", "importing"} /\ Turns(v, "gone")
        BY <2>1 DEF LateTaskEnds
    <3>2. v \in Vms /\ v # call.made
        OBVIOUS
    <3>3. CASE vm[v].is = "coming" /\ Turns(v, "here")
        BY <3>2, <3>3
    <3>4. CASE vm[v].is \in {"coming", "importing"} /\ Turns(v, "gone")
        BY <3>2, <3>4
    <3> QED BY <3>1, <3>3, <3>4
  <2>2. CASE OthersDestroy
      BY <2>2 DEF OthersDestroy
  <2> QED BY <2>1, <2>2
<1>2. /\ vm' \in [Vms -> Vm] /\ Blank(vm')
      /\ \A u \in Vms \ {v} : vm'[u] = vm[u]
      /\ \A u \in Vms : Ages(vm[u], vm'[u])
    BY <1>1, OtherTurns
<1>3. \A k \in 1..Len(call.rows) :
        call.rows[k].vm # NoVm => Ages(vm[call.rows[k].vm], vm'[call.rows[k].vm])
    BY <1>2, <1>c, RowVms
<1>4. call.at \in Making =>
        vm'[call.made] = vm[call.made] \/ (call.at = "follow" /\ Ages(vm[call.made], vm'[call.made]))
  <2> SUFFICES ASSUME call.at \in Making, vm'[call.made] # vm[call.made]
               PROVE  call.at = "follow" /\ Ages(vm[call.made], vm'[call.made])
      OBVIOUS
  <2>1. call.made \in Vms
      BY <1>c DEF MadeOK
  <2>2. v = call.made /\ vm[call.made].is = "here"
      BY <1>1, <1>2, <2>1
  <2>3. call.at = "follow"
      BY <2>2, <1>c DEF MadeOK, Making
  <2> QED BY <1>2, <2>1, <2>3
<1>5. /\ call' = call /\ lease' = lease /\ denied' = denied /\ source' = source /\ base' = base
      /\ changes' \in 0..MaxChanges
    BY <1>c DEF LateTaskEnds, Stays, OthersDestroy, Others
<1> QED BY <1>c, <1>2, <1>3, <1>4, <1>5, OthersInv

(* Others create a VM: it is new to the call.                              *)
LEMMA OthersCreateInv ==
  ASSUME Inv, OthersCreate
  PROVE  Inv'
<1>c. /\ call \in Call /\ source \in {"none", "vm", "template"} /\ base \in BOOLEAN /\ vm \in [Vms -> Vm]
      /\ changes \in 0..MaxChanges /\ MaxChanges \in Nat /\ MadeOK(call, vm, lease) /\ Blank(vm)
    BY Apart, DeployAssumption DEF World
<1>1. PICK v \in Unborn \ {call.made}, n \in Names, home \in BOOLEAN :
        vm' = [vm EXCEPT ![v] = [is |-> "here", name |-> n, home |-> home, has |-> {}]]
    BY DEF OthersCreate
<1>2. v \in Vms /\ v # call.made /\ \A k \in 1..Len(call.rows) : call.rows[k].vm # v
    BY UnbornIsNew
<1>3. [is |-> "here", name |-> n, home |-> home, has |-> {}] \in Vm
    BY DEF Vm
<1>4. vm' \in [Vms -> Vm] /\ vm'[v].is = "here" /\ \A u \in Vms \ {v} : vm'[u] = vm[u]
    BY <1>1, <1>2, <1>3, <1>c
<1>5. Blank(vm')
    BY <1>2, <1>4, <1>c, BlankStays
<1>6. \A k \in 1..Len(call.rows) :
        call.rows[k].vm # NoVm => Ages(vm[call.rows[k].vm], vm'[call.rows[k].vm])
    BY <1>2, <1>4, <1>c, RowVms DEF Ages
<1>7. call.at \in Making => vm'[call.made] = vm[call.made]
    BY <1>2, <1>4, <1>c DEF MadeOK
<1>8. /\ call' = call /\ lease' = lease /\ denied' = denied /\ source' = source /\ base' = base
      /\ changes' \in 0..MaxChanges
    BY <1>c DEF OthersCreate, Others
<1> QED BY <1>c, <1>4, <1>5, <1>6, <1>7, <1>8, OthersInv

(* Others convert, delete or snapshot what is cloned from.                 *)
LEMMA SourceInv ==
  ASSUME Inv, Convert \/ SourceTurns
  PROVE  Inv'
<1>c. /\ call \in Call /\ source \in {"none", "vm", "template"} /\ base \in BOOLEAN /\ vm \in [Vms -> Vm]
      /\ changes \in 0..MaxChanges /\ MaxChanges \in Nat /\ Blank(vm)
    BY Apart, DeployAssumption DEF World
<1>1. /\ call' = call /\ lease' = lease /\ denied' = denied /\ vm' = vm
      /\ source' \in {"none", "vm", "template"} /\ base' \in BOOLEAN /\ changes' \in 0..MaxChanges
  <2>1. call' = call /\ lease' = lease /\ denied' = denied /\ vm' = vm /\ changes' \in 0..MaxChanges
      BY <1>c DEF Convert, SourceTurns, Others
  <2>2. source' \in {"none", "vm", "template"}
      BY <1>c DEF Convert, SourceTurns
  <2>3. base' = base \/ base' = FALSE \/ base' = ~base
      BY Zenon DEF Convert, SourceTurns
  <2>4. base' \in BOOLEAN
      BY <1>c, <2>3
  <2> QED BY <2>1, <2>2, <2>4
<1>2. \A k \in 1..Len(call.rows) :
        call.rows[k].vm # NoVm => Ages(vm[call.rows[k].vm], vm'[call.rows[k].vm])
    BY <1>1 DEF Ages
<1> QED BY <1>c, <1>1, <1>2, OthersInv

-----------------------------------------------------------------------------
(* The VMs of others                                                       *)

\* What RowsTellTheTruth says of them.
HasReason(v, part) ==
  \E k \in Bereft : call.items[k].name = vm[v].name /\ part \in call.items[k].wants \ denied

Strangers == \A v \in Vms \ Created : \A part \in vm[v].has : HasReason(v, part)

\* A call keeps its rows, and what it is making or makes a row of that.
Goes(c, e) ==
  /\ e.items = c.items
  /\ \A k \in 1..Len(c.rows) : k \in 1..Len(e.rows) /\ e.rows[k].vm = c.rows[k].vm
  /\ c.made # NoVm =>
       \/ e.made = c.made /\ (c.at = "follow" => e.at = "follow" /\ e.pos = c.pos /\ Len(e.rows) = Len(c.rows))
       \/ c.pos \in 1..Len(e.rows) /\ e.rows[c.pos].vm = c.made

\* No VM gets a part, and one that has parts keeps its name.
Quiet == \A v \in Vms : vm'[v].has # {} => vm'[v].has = vm[v].has /\ vm'[v].name = vm[v].name

GoneStay == \A v \in Vms : vm[v].is = "gone" => vm'[v].is = "gone"

(* What the call created stays its own, and an item does not get a lost VM *)
(* back.                                                                   *)
LEMMA BereftStay ==
  ASSUME Inv, Inv', Goes(call, call'), GoneStay
  PROVE  Created \subseteq Created' /\ Bereft \subseteq Bereft'
<1>c. /\ call \in Call /\ Shaped(call) /\ call' \in Call /\ Len(call.rows) \in Nat /\ Len(call'.rows) \in Nat
      /\ Len(call.rows) <= Len(call.items)
    BY DEF Inv, Sound, Shaped, Call
<1>1. ASSUME NEW v \in Created PROVE v \in Created'
  <2>1. v # NoVm
      BY DEF Created
  <2>2. CASE \E k \in 1..Len(call.rows) : call.rows[k].vm = v
      BY <2>1, <2>2 DEF Goes, Created
  <2>3. CASE v = call.made
      BY <2>1, <2>3 DEF Goes, Created
  <2> QED BY <2>2, <2>3 DEF Created
<1>2. ASSUME NEW k \in Bereft PROVE k \in Bereft'
  <2> DEFINE v == MadeFor(k)
  <2>1. k \in 1..Len(call.items) /\ v # NoVm /\ vm[v].is = "gone" /\ k \in 1..Len(call'.items)
      BY DEF Bereft, Goes
  <2>2. CASE k <= Len(call.rows)
    <3>1. k \in 1..Len(call.rows) /\ v = call.rows[k].vm
        BY <2>1, <2>2, <1>c DEF MadeFor
    <3>2. k <= Len(call'.rows) /\ MadeFor(k)' = v
        BY <3>1, <1>c DEF Goes, MadeFor
    <3>3. v \in Vms
        BY <3>1, <2>1, <1>c, RowVms
    <3>4. vm'[v].is = "gone"
        BY <3>3, <2>1 DEF GoneStay
    <3> QED BY <2>1, <3>2, <3>4 DEF Bereft
  <2>3. CASE ~(k <= Len(call.rows))
    <3>1. k = call.pos /\ call.at = "follow" /\ v = call.made
        BY <2>3 DEF Bereft, MadeFor
    <3>2. v \in Vms
        BY <3>1, <2>1, <1>c DEF Call
    <3>3. vm'[v].is = "gone"
        BY <3>2, <2>1 DEF GoneStay
    <3>4. CASE call'.made = call.made /\ call'.at = "follow" /\ call'.pos = call.pos /\ Len(call'.rows) = Len(call.rows)
      <4>1. MadeFor(k)' = v
          BY <3>1, <3>4, <2>3 DEF MadeFor
      <4> QED BY <2>1, <3>1, <3>3, <3>4, <4>1 DEF Bereft
    <3>5. CASE call.pos \in 1..Len(call'.rows) /\ call'.rows[call.pos].vm = call.made
      <4>1. k <= Len(call'.rows) /\ MadeFor(k)' = v
          BY <3>1, <3>5, <1>c DEF MadeFor
      <4> QED BY <2>1, <3>3, <4>1 DEF Bereft
    <3> QED BY <2>1, <3>1, <3>4, <3>5 DEF Goes
  <2> QED BY <2>2, <2>3
<1> QED BY <1>1, <1>2

(* A part that a VM of others has, it had already, or has it for an item   *)
(* that lost its VM.                                                       *)
LEMMA ReasonsStay ==
  ASSUME Inv, Inv', Strangers, Goes(call, call'), GoneStay, denied' = denied,
         \A v \in Vms \ Created : \A part \in vm'[v].has :
           /\ vm'[v].name = vm[v].name
           /\ part \in vm[v].has \/ HasReason(v, part)
  PROVE  Strangers'
<1> SUFFICES ASSUME NEW v \in Vms, v \notin Created', NEW part \in vm'[v].has PROVE HasReason(v, part)'
    BY DEF Strangers
<1>1. v \in Vms \ Created /\ Bereft \subseteq Bereft'
    BY BereftStay
<1>2. vm'[v].name = vm[v].name /\ HasReason(v, part)
    BY <1>1 DEF Strangers
<1>3. PICK k \in Bereft : call.items[k].name = vm[v].name /\ part \in call.items[k].wants \ denied
    BY <1>2 DEF HasReason
<1>4. k \in Bereft' /\ call'.items[k].name = vm'[v].name /\ part \in call'.items[k].wants \ denied'
    BY <1>1, <1>2, <1>3 DEF Goes
<1> QED BY <1>4 DEF HasReason

(* The call goes on where it is, or makes a row of what it was making.     *)
LEMMA ItemGoes ==
  ASSUME Inv, call.at \notin {"begin", "over"}, NEW ok \in BOOLEAN, call' = NextItem(call, ok)
  PROVE  Goes(call, call')
<1>1. call \in Call /\ call.pos \in 1..Len(call.items) /\ Len(call.rows) = call.pos - 1
    BY DEF Inv, Sound, Shaped
<1> DEFINE row == [ok |-> ok, vm |-> call.made, of |-> "item"]
           rows == Append(call.rows, row)
<1>2. row \in Row /\ call.rows \in Seq(Row) /\ call.pos \in Nat
    BY <1>1 DEF Row, Call
<1>3. /\ Len(rows) = call.pos /\ rows[call.pos] = row /\ call.pos \in 1..Len(rows)
      /\ \A k \in 1..Len(call.rows) : rows[k] = call.rows[k] /\ k \in 1..Len(rows)
    BY <1>1, <1>2
<1>4. call'.items = call.items /\ call'.rows = rows
    BY <1>1 DEF NextItem, Over, Call
<1>5. row.vm = call.made
    OBVIOUS
<1> HIDE DEF row, rows
<1> QED BY <1>3, <1>4, <1>5 DEF Goes

(* What every step but the ones after does: no VM gets a part, and a VM    *)
(* that is gone stays gone.                                                *)
LEMMA StepQuiet ==
  ASSUME Inv, [Next]_vars, ~FollowUp, ~FollowUpFails
  PROVE  Quiet /\ GoneStay
<1>c. /\ vm \in [Vms -> Vm] /\ Blank(vm) /\ MadeOK(call, vm, lease) /\ call \in Call
    BY Apart
<1>m. call.at \in Making => call.made \in Vms
    BY <1>c DEF MadeOK
<1>1. CASE vm' = vm
    BY <1>1 DEF Quiet, GoneStay
<1>2. ASSUME NEW v \in Vms, NEW is, Turns(v, is), vm[v].is = "gone" => is = "gone"
      PROVE  Quiet /\ GoneStay
  <2>1. vm' = [vm EXCEPT ![v] = [vm[v] EXCEPT !.is = is]] /\ vm[v] \in Vm
      BY <1>2, <1>c DEF Turns
  <2>2. vm'[v].name = vm[v].name /\ vm'[v].has = vm[v].has /\ vm'[v].is = is
        /\ \A u \in Vms \ {v} : vm'[u] = vm[u]
      BY <2>1, <1>c DEF Vm
  <2> QED BY <2>2, <1>2 DEF Quiet, GoneStay
<1>3. ASSUME NEW v \in Vms, NEW is, Born(v, is), vm[v].has = {}, vm[v].is # "gone"
      PROVE  Quiet /\ GoneStay
  <2>1. vm' = [vm EXCEPT ![v] = [vm[v] EXCEPT !.is = is, !.name = This.name]] /\ vm[v] \in Vm
      BY <1>3, <1>c DEF Born
  <2>2. vm'[v].has = {} /\ \A u \in Vms \ {v} : vm'[u] = vm[u]
      BY <2>1, <1>3, <1>c DEF Vm
  <2> QED BY <2>2, <1>3 DEF Quiet, GoneStay
<1>4. CASE OthersCreate
  <2>1. PICK v \in Unborn \ {call.made}, n \in Names, home \in BOOLEAN :
          vm' = [vm EXCEPT ![v] = [is |-> "here", name |-> n, home |-> home, has |-> {}]]
      BY <1>4 DEF OthersCreate
  <2>2. v \in Vms /\ vm'[v].has = {} /\ vm[v].is = "unborn" /\ \A u \in Vms \ {v} : vm'[u] = vm[u]
      BY <2>1, <1>c DEF Unborn
  <2> QED BY <2>2 DEF Quiet, GoneStay
<1>5. CASE Abort /\ call.at \in {"lease", "upload"}
  <2>1. call.made \in Vms /\ (vm' = vm \/ Turns(call.made, "gone"))
      BY <1>5, <1>m DEF Abort, Making
  <2> QED BY <2>1, <1>1, <1>2
<1>6. CASE StartTask
  <2>1. PICK v \in Unborn : Born(v, "coming")
      BY <1>6 DEF StartTask
  <2> QED BY <2>1, <1>3, UnbornIsNew
<1>7. CASE StartImport
  <2>1. PICK v \in Unborn : Turns(v, "importing")
      BY <1>7 DEF StartImport
  <2>2. v \in Vms /\ vm[v].is # "gone"
      BY UnbornIsNew
  <2> QED BY <2>1, <2>2, <1>2
<1>8. CASE LeaseTurns
  <2>1. /\ call.at \in {"lease", "upload"} /\ call.made \in Vms /\ vm[call.made].has = {}
        /\ vm[call.made].is = "importing"
      BY <1>8, <1>c DEF LeaseTurns, MadeOK, Making, Open
  <2> QED BY <2>1, <1>2, <1>3, <1>8 DEF LeaseTurns
<1>9. CASE TaskEnds \/ TaskFails
  <2>1. call.made \in Vms /\ vm[call.made].is = "coming"
      BY <1>9, <1>c DEF TaskEnds, TaskFails, MadeOK, Making
  <2>2. Turns(call.made, "here") \/ Turns(call.made, "gone")
      BY <1>9 DEF TaskEnds, TaskFails
  <2> QED BY <2>1, <2>2, <1>2
<1>10. CASE LateTaskEnds \/ OthersDestroy
  <2>1. PICK v \in Vms : (vm[v].is # "gone" /\ Turns(v, "here")) \/ Turns(v, "gone")
      BY <1>10 DEF LateTaskEnds, OthersDestroy
  <2> QED BY <2>1, <1>2
<1>11. CASE (Complete \/ UploadFails) /\ ~Abort
  <2>1. call.at = "upload" /\ lease = "ready" /\ Turns(call.made, "here")
      BY <1>11 DEF Complete, UploadFails
  <2>2. call.made \in Vms /\ vm[call.made].is = "importing"
      BY <2>1, <1>c DEF MadeOK, Making, Open
  <2> QED BY <2>1, <2>2, <1>2
<1>12. CASE LeaseTimesOut \/ (UploadFails /\ Abort)
    BY <1>5, <1>12 DEF LeaseTimesOut, StopWaiting, UploadFails
<1>13. CASE \/ Authorize \/ SourceUnread \/ Unnamed \/ CannotStart \/ TaskOutlivesWait \/ LeaseFails
            \/ LeaseUnread \/ Upload \/ ItemDone \/ Convert \/ SourceTurns
  <2>1. vm' = vm
      BY <1>13 DEF Authorize, SourceUnread, Unnamed, CannotStart, TaskOutlivesWait, LeaseFails,
         LeaseUnread, Upload, ItemDone, Convert, SourceTurns
  <2> QED BY <2>1, <1>1
<1>14. CASE Complete /\ Abort
  <2>1. call.at \in {"lease", "upload"}
      BY <1>14 DEF Complete
  <2> QED BY <2>1, <1>5, <1>14
<1>15. CASE UNCHANGED vars
    BY <1>15, <1>1 DEF vars
<1> QED BY <1>4, <1>6, <1>7, <1>8, <1>9, <1>10, <1>11, <1>12, <1>13, <1>14, <1>15 DEF Next

(* Every step keeps the rows of the call, and turns what is being made     *)
(* into a row or leaves it.                                                *)
LEMMA StepGoes ==
  ASSUME Inv, [Next]_vars
  PROVE  Goes(call, call') /\ denied' = denied
<1>c. /\ call \in Call /\ Shaped(call) /\ MadeOK(call, vm, lease)
      /\ Len(call.rows) \in Nat
    BY Apart DEF Call
<1>d. denied' = denied
  <2>1. Stays => denied' = denied
      BY DEF Stays
  <2>2. Others => denied' = denied
      BY DEF Others
  <2> QED BY <2>1, <2>2 DEF Next, vars, Authorize, SourceUnread, Unnamed, CannotStart, StartTask, TaskEnds,
         TaskFails, TaskOutlivesWait, LateTaskEnds, StartImport, LeaseTurns, LeaseTimesOut, LeaseFails,
         LeaseUnread, Upload, Complete, UploadFails, FollowUp, FollowUpFails, ItemDone, OthersCreate,
         OthersDestroy, Convert, SourceTurns
<1> SUFFICES Goes(call, call')
    BY <1>d
<1>1. CASE call' = ItemRaised(call) /\ call.at \notin {"begin", "over"}
    BY <1>1, ItemGoes DEF ItemRaised
<1>2. CASE ItemDone
    BY <1>2, ItemGoes DEF ItemDone
<1>3. CASE call' = call
    BY <1>3, <1>c DEF Goes
<1>4. CASE Authorize \/ SourceUnread \/ Unnamed
  <2>1. call.made = NoVm
      BY <1>4, <1>c DEF Authorize, SourceUnread, Unnamed, MadeOK
  <2>2. CASE \E a \in {"refused", "raised"} : call' = Over(call, a)
      BY <2>1, <2>2, <1>c DEF Goes, Over, Call
  <2>3. CASE call' = [call EXCEPT !.at = "item"]
      BY <2>1, <2>3, <1>c DEF Goes, Call
  <2>4. CASE call.at = "begin" /\ call' = Sourceless(call)
    <3>1. Len(call.rows) = 0
        BY <2>4, <1>c DEF Shaped
    <3>2. call'.items = call.items
        BY <2>4, <1>c DEF Sourceless, Over, Call
    <3> QED BY <2>1, <3>1, <3>2 DEF Goes
  <2> QED BY <1>4, <2>2, <2>3, <2>4 DEF Authorize, SourceUnread, Unnamed
<1>5. CASE StartTask \/ StartImport
  <2>1. call.made = NoVm
      BY <1>5, <1>c DEF StartTask, StartImport, MadeOK
  <2>2. call'.items = call.items /\ call'.rows = call.rows
      BY <1>5, <1>c DEF StartTask, StartImport, Call
  <2> QED BY <2>1, <2>2, <1>c DEF Goes
<1>6. CASE call' = Follow(call) /\ call.at # "follow"
  <2>1. call'.items = call.items /\ call'.rows = call.rows /\ call'.made = call.made
      BY <1>6, <1>c DEF Follow, Call
  <2> QED BY <2>1, <1>6, <1>c DEF Goes
<1>7. CASE Upload
  <2>1. call'.items = call.items /\ call'.rows = call.rows /\ call'.made = call.made /\ call.at = "lease"
      BY <1>7, <1>c DEF Upload, Call
  <2> QED BY <2>1, <1>c DEF Goes
<1>8. CASE FollowUp \/ FollowUpFails
  <2>1. call.at = "follow"
      BY <1>8 DEF FollowUp, FollowUpFails
  <2>2. CASE \E part \in Due : call' = [call EXCEPT !.todo = @ \ {part}]
    <3>1. /\ call'.items = call.items /\ call'.rows = call.rows /\ call'.made = call.made
          /\ call'.at = call.at /\ call'.pos = call.pos
        BY <2>2, <1>c DEF Call
    <3> QED BY <2>1, <3>1, <1>c DEF Goes
  <2> QED BY <1>1, <1>8, <2>1, <2>2 DEF FollowUp, FollowUpFails
<1>9. CASE \/ LateTaskEnds \/ LeaseTurns \/ OthersCreate \/ OthersDestroy \/ Convert \/ SourceTurns
            \/ UNCHANGED vars
  <2>1. call' = call
      BY <1>9 DEF LateTaskEnds, LeaseTurns, OthersCreate, OthersDestroy, Convert, SourceTurns, Others, vars
  <2> QED BY <2>1, <1>3
<1>10. CASE \/ CannotStart \/ TaskFails \/ TaskOutlivesWait \/ LeaseTimesOut \/ LeaseFails \/ LeaseUnread
            \/ UploadFails
    BY <1>10, <1>1 DEF CannotStart, TaskFails, TaskOutlivesWait, LeaseTimesOut, LeaseFails,
       LeaseUnread, UploadFails
<1>11. CASE TaskEnds \/ Complete
    BY <1>11, <1>6 DEF TaskEnds, Complete
<1> QED BY <1>2, <1>4, <1>5, <1>7, <1>8, <1>9, <1>10, <1>11 DEF Next

(* A step after falls to a VM of others only when the item's own is gone:  *)
(* what it gets, the item asked for.                                       *)
LEMMA StrangerFound ==
  ASSUME Inv, Strangers, FollowUp \/ FollowUpFails
  PROVE  /\ GoneStay
         /\ \A v \in Vms \ Created : \A part \in vm'[v].has :
              /\ vm'[v].name = vm[v].name
              /\ part \in vm[v].has \/ HasReason(v, part)
<1>c. /\ call.at = "follow" /\ vm \in [Vms -> Vm] /\ call.made \in Vms /\ call.made # NoVm
      /\ call.pos \in 1..Len(call.items) /\ Len(call.rows) = call.pos - 1
      /\ vm[call.made].is \in {"here", "gone"} /\ This.wants \cap denied = {}
  <2>1. call.at = "follow" /\ call.at \in Making
      BY DEF FollowUp, FollowUpFails, Making
  <2>2. call.pos \in 1..Len(call.items) /\ Len(call.rows) = call.pos - 1
      BY <2>1, Apart DEF Shaped
  <2>3. This.wants \cap denied = {}
      BY <2>1, <2>2, Apart DEF Allowed, This
  <2> QED BY <2>1, <2>2, <2>3, Apart, DeployAssumption DEF MadeOK, FollowsOK
<1>1. PICK part \in Due : vm' = vm \/ \E v \in Found(This.name) : Gets(v, part)
    BY DEF FollowUp, FollowUpFails
<1>2. CASE vm' = vm
    BY <1>2 DEF GoneStay
<1>3. CASE \E v \in Found(This.name) : Gets(v, part)
  <2>1. PICK v \in Found(This.name) : Gets(v, part)
      BY <1>3
  <2>2. /\ v \in Vms /\ vm[v].is = "here" /\ vm[v].name = This.name
        /\ vm[call.made].is = "here" => v = call.made
      BY <2>1, <1>c, FoundVm DEF Found, Here
  <2>3. /\ vm'[v].is = vm[v].is /\ vm'[v].name = vm[v].name /\ vm'[v].has = vm[v].has \cup {part}
        /\ \A u \in Vms \ {v} : vm'[u] = vm[u]
    <3>1. vm' = [vm EXCEPT ![v] = [vm[v] EXCEPT !.has = vm[v].has \cup {part}]] /\ vm[v] \in Vm
        BY <2>1, <2>2, <1>c DEF Gets
    <3> QED BY <3>1, <2>2, <1>c DEF Vm
  <2>4. ASSUME v \notin Created PROVE HasReason(v, part)
    <3>1. v # call.made /\ vm[call.made].is = "gone"
        BY <2>2, <2>4, <1>c DEF Created
    <3>2. MadeFor(call.pos) = call.made
        BY <1>c DEF MadeFor
    <3>3. call.pos \in Bereft
        BY <1>c, <3>1, <3>2 DEF Bereft
    <3>4. part \in This.wants \ denied
        BY <1>c, DuePart
    <3> QED BY <2>2, <3>3, <3>4 DEF HasReason, This
  <2>5. GoneStay
      BY <2>2, <2>3 DEF GoneStay
  <2> QED BY <2>3, <2>4, <2>5
<1> QED BY <1>1, <1>2, <1>3

(* Every step leaves the VMs of others what they had, or has its reason.   *)
LEMMA StrangersNext == Inv /\ Inv' /\ Strangers /\ [Next]_vars => Strangers'
<1> SUFFICES ASSUME Inv, Inv', Strangers, [Next]_vars PROVE Strangers'
    OBVIOUS
<1>1. Goes(call, call') /\ denied' = denied
    BY StepGoes
<1>2. CASE FollowUp \/ FollowUpFails
    BY <1>1, <1>2, StrangerFound, ReasonsStay
<1>3. CASE ~FollowUp /\ ~FollowUpFails
  <2>1. Quiet /\ GoneStay
      BY <1>3, StepQuiet
  <2>2. \A v \in Vms \ Created : \A part \in vm'[v].has :
          vm'[v].name = vm[v].name /\ (part \in vm[v].has \/ HasReason(v, part))
      BY <2>1 DEF Quiet
  <2> QED BY <1>1, <2>1, <2>2, ReasonsStay
<1> QED BY <1>2, <1>3

-----------------------------------------------------------------------------
(* The leases                                                              *)

LeftTyped == left \in [refused : SUBSET Vms, unread : SUBSET Vms]

Settled == LeftTyped /\ LeaseIsSettled

(* Every way out of an import takes the VM with it, or is noted.           *)
LEMMA SettledNext == Inv /\ Settled /\ [Next]_vars => Settled'
<1> SUFFICES ASSUME Inv, Settled, [Next]_vars PROVE Settled'
    OBVIOUS
<1> DEFINE Noted == left.refused \cup left.unread
<1>c. /\ vm \in [Vms -> Vm] /\ MadeOK(call, vm, lease) /\ call \in Call /\ LeftTyped /\ LeaseIsSettled
    BY Apart DEF Settled
<1>m. call.at \in Making => call.made \in Vms
    BY <1>c DEF MadeOK
<1>t. ASSUME NEW v \in Vms, NEW is, Turns(v, is)
      PROVE  vm'[v].is = is /\ \A u \in Vms \ {v} : vm'[u] = vm[u]
  <2>1. vm' = [vm EXCEPT ![v] = [vm[v] EXCEPT !.is = is]] /\ vm[v] \in Vm
      BY <1>t, <1>c DEF Turns
  <2> QED BY <2>1, <1>c DEF Vm
<1>1. ASSUME left' = left, \A v \in Vms : vm'[v].is = "importing" => vm[v].is = "importing",
             Importing => Importing' /\ call'.made = call.made
      PROVE  Settled'
    BY <1>1, <1>c DEF Settled, LeftTyped, LeaseIsSettled
<1>2. ASSUME left' = left, \A v \in Vms : vm'[v].is = "importing" => vm[v].is = "importing" /\ v # call.made
      PROVE  Settled'
    BY <1>2, <1>c DEF Settled, LeftTyped, LeaseIsSettled
<1>3. ASSUME Importing, vm' = vm, NEW f \in {"refused", "unread"}, left' = [left EXCEPT ![f] = @ \cup {call.made}]
      PROVE  Settled'
  <2>1. call.made \in Vms
      BY <1>3, <1>m DEF Importing, Making
  <2>2. LeftTyped' /\ Noted' = Noted \cup {call.made}
      BY <1>3, <1>c, <2>1 DEF LeftTyped
  <2>3. LeaseIsSettled'
      BY <1>3, <1>c, <2>2 DEF LeaseIsSettled
  <2> QED BY <2>2, <2>3 DEF Settled
<1>4. ASSUME Importing, Abort PROVE Settled'
  <2>1. CASE Turns(call.made, "gone") /\ left' = left
    <3>1. call.made \in Vms
        BY <1>4, <1>m DEF Importing, Making
    <3>2. vm'[call.made].is = "gone" /\ \A u \in Vms \ {call.made} : vm'[u] = vm[u]
        BY <2>1, <3>1, <1>t
    <3> QED BY <2>1, <3>2, <1>2
  <2>2. CASE vm' = vm /\ left' = [left EXCEPT !.refused = @ \cup {call.made}]
    <3>1. left' = [left EXCEPT !["refused"] = @ \cup {call.made}]
        BY <2>2
    <3> QED BY <1>4, <2>2, <3>1, <1>3
  <2> QED BY <1>4, <2>1, <2>2 DEF Abort
<1>5. CASE LeaseUnread
  <2>1. Importing /\ vm' = vm /\ left' = [left EXCEPT !["unread"] = @ \cup {call.made}]
      BY <1>5 DEF LeaseUnread, Importing
  <2> QED BY <2>1, <1>3
<1>6. CASE LeaseTimesOut
    BY <1>6, <1>4 DEF LeaseTimesOut, StopWaiting, Importing
<1>7. CASE LeaseFails
  <2>1. call.made \in Vms /\ vm[call.made].is = "gone"
      BY <1>7, <1>c DEF LeaseFails, MadeOK, Making, Open
  <2>2. vm' = vm /\ left' = left
      BY <1>7 DEF LeaseFails
  <2> QED BY <2>1, <2>2, <1>2
<1>8. CASE Complete \/ UploadFails
  <2>1. call.at = "upload" /\ Importing /\ call.made \in Vms
      BY <1>8, <1>m DEF Complete, UploadFails, Importing, Making
  <2>2. CASE Turns(call.made, "here") /\ left' = left
    <3>1. vm'[call.made].is = "here" /\ \A u \in Vms \ {call.made} : vm'[u] = vm[u]
        BY <2>1, <2>2, <1>t
    <3> QED BY <2>2, <3>1, <1>2
  <2> QED BY <1>4, <1>8, <2>1, <2>2 DEF Complete, UploadFails
<1>9. CASE Upload
  <2>1. call'.made = call.made /\ call'.at = "upload" /\ vm' = vm /\ left' = left
      BY <1>9, <1>c DEF Upload, Call
  <2> QED BY <2>1, <1>1 DEF Importing
<1>10. CASE StartImport
  <2>1. PICK v \in Unborn : Turns(v, "importing") /\ call' = [call EXCEPT !.at = "lease", !.made = v]
      BY <1>10 DEF StartImport
  <2>2. v \in Vms /\ ~Importing /\ left' = left
      BY <1>10 DEF StartImport, Unborn, Importing
  <2>3. call'.at = "lease" /\ call'.made = v
      BY <2>1, <1>c DEF Call
  <2>4. \A u \in Vms \ {v} : vm'[u] = vm[u]
      BY <2>1, <2>2, <1>t
  <2> QED BY <2>2, <2>3, <2>4, <1>c DEF Settled, LeftTyped, LeaseIsSettled, Importing
<1>11. CASE LeaseTurns
  <2>1. /\ Importing /\ call.made \in Vms /\ call' = call /\ left' = left /\ vm[call.made].is = "importing"
      BY <1>11, <1>c DEF LeaseTurns, MadeOK, Importing, Making, Open
  <2>2. CASE Born(call.made, "importing")
    <3>1. vm' = [vm EXCEPT ![call.made] = [vm[call.made] EXCEPT !.is = "importing", !.name = This.name]]
        BY <2>2 DEF Born
    <3>2. \A u \in Vms \ {call.made} : vm'[u] = vm[u]
        BY <3>1, <2>1, <1>c
    <3> QED BY <2>1, <3>2, <1>1 DEF Importing
  <2>3. CASE Turns(call.made, "gone")
    <3>1. vm'[call.made].is = "gone" /\ \A u \in Vms \ {call.made} : vm'[u] = vm[u]
        BY <2>1, <2>3, <1>t
    <3> QED BY <2>1, <3>1, <1>2
  <2> QED BY <1>11, <2>2, <2>3 DEF LeaseTurns
<1>12. CASE \/ Authorize \/ SourceUnread \/ Unnamed \/ CannotStart \/ TaskOutlivesWait \/ ItemDone
            \/ Convert \/ SourceTurns \/ UNCHANGED vars
  <2>1. vm' = vm /\ left' = left /\ (Importing => call' = call)
      BY <1>12 DEF Authorize, SourceUnread, Unnamed, CannotStart, TaskOutlivesWait, ItemDone, Convert,
         SourceTurns, Others, Importing, vars
  <2> QED BY <2>1, <1>1 DEF Importing
<1>13. CASE StartTask
  <2>1. PICK v \in Unborn : Born(v, "coming")
      BY <1>13 DEF StartTask
  <2>2. v \in Vms /\ ~Importing /\ left' = left
      BY <1>13 DEF StartTask, Unborn, Importing
  <2>3. vm' = [vm EXCEPT ![v] = [vm[v] EXCEPT !.is = "coming", !.name = This.name]] /\ vm[v] \in Vm
      BY <2>1, <2>2, <1>c DEF Born
  <2>4. vm'[v].is = "coming" /\ \A u \in Vms \ {v} : vm'[u] = vm[u]
      BY <2>2, <2>3, <1>c DEF Vm
  <2> QED BY <2>2, <2>4, <1>1
<1>14. CASE TaskEnds \/ TaskFails
  <2>1. call.at = "task" /\ call.made \in Vms /\ ~Importing /\ left' = left
      BY <1>14, <1>m DEF TaskEnds, TaskFails, Importing, Making
  <2>2. PICK is \in {"here", "gone"} : Turns(call.made, is)
      BY <1>14 DEF TaskEnds, TaskFails
  <2>3. vm'[call.made].is = is /\ \A u \in Vms \ {call.made} : vm'[u] = vm[u]
      BY <2>1, <2>2, <1>t
  <2> QED BY <2>1, <2>3, <1>1
<1>15. CASE LateTaskEnds \/ OthersDestroy
  <2>1. call' = call /\ left' = left
      BY <1>15 DEF LateTaskEnds, OthersDestroy, Others
  <2>2. PICK v \in Vms, is \in {"here", "gone"} : Turns(v, is)
      BY <1>15 DEF LateTaskEnds, OthersDestroy
  <2>3. vm'[v].is = is /\ \A u \in Vms \ {v} : vm'[u] = vm[u]
      BY <2>2, <1>t
  <2> QED BY <2>1, <2>3, <1>1 DEF Importing
<1>16. CASE OthersCreate
  <2>1. call' = call /\ left' = left
      BY <1>16 DEF OthersCreate, Others
  <2>2. PICK v \in Unborn \ {call.made}, n \in Names, home \in BOOLEAN :
          vm' = [vm EXCEPT ![v] = [is |-> "here", name |-> n, home |-> home, has |-> {}]]
      BY <1>16 DEF OthersCreate
  <2>3. v \in Vms /\ vm'[v].is = "here" /\ \A u \in Vms \ {v} : vm'[u] = vm[u]
      BY <2>2, <1>c DEF Unborn
  <2> QED BY <2>1, <2>3, <1>1 DEF Importing
<1>17. CASE FollowUp \/ FollowUpFails
  <2>1. ~Importing /\ left' = left
      BY <1>17 DEF FollowUp, FollowUpFails, Importing
  <2>2. vm' = vm \/ \E v \in Found(This.name), part \in Due : Gets(v, part)
      BY <1>17 DEF FollowUp, FollowUpFails
  <2>3. ASSUME NEW v \in Found(This.name), NEW part \in Due, Gets(v, part), NEW u \in Vms
        PROVE  vm'[u].is = vm[u].is
    <3>1. vm' = [vm EXCEPT ![v] = [vm[v] EXCEPT !.has = vm[v].has \cup {part}]] /\ vm[u] \in Vm
        BY <2>3, <1>c DEF Gets
    <3> QED BY <3>1, <1>c DEF Vm
  <2> QED BY <2>1, <2>2, <2>3, <1>1
<1> QED BY <1>5, <1>6, <1>7, <1>8, <1>9, <1>10, <1>11, <1>12, <1>13, <1>14, <1>15, <1>16, <1>17 DEF Next

-----------------------------------------------------------------------------
(* The theorems                                                            *)

(* Every step keeps the invariant.                                         *)
LEMMA InvNext == Inv /\ [Next]_vars => Inv'
<1> SUFFICES ASSUME Inv, [Next]_vars PROVE Inv'
    OBVIOUS
<1>1. CASE Authorize \/ SourceUnread
    BY <1>1, AuthorizeInv
<1>2. CASE Unnamed \/ CannotStart
    BY <1>2, UnnamedInv
<1>3. CASE StartTask
    BY <1>3, StartTaskInv
<1>4. CASE TaskEnds
    BY <1>4, TaskEndsInv
<1>5. CASE TaskFails \/ TaskOutlivesWait
    BY <1>5, TaskRaisedInv
<1>6. CASE LateTaskEnds \/ OthersDestroy
    BY <1>6, VmTurnsInv
<1>7. CASE StartImport
    BY <1>7, StartImportInv
<1>8. CASE LeaseTurns
    BY <1>8, LeaseTurnsInv
<1>9. CASE LeaseTimesOut \/ LeaseFails \/ LeaseUnread \/ UploadFails
    BY <1>9, ImportRaisedInv
<1>10. CASE Upload
    BY <1>10, UploadInv
<1>11. CASE Complete
    BY <1>11, CompleteInv
<1>12. CASE FollowUp \/ FollowUpFails
    BY <1>12, FollowUpInv
<1>13. CASE ItemDone
    BY <1>13, ItemDoneInv
<1>14. CASE OthersCreate
    BY <1>14, OthersCreateInv
<1>15. CASE Convert \/ SourceTurns
    BY <1>15, SourceInv
<1>16. CASE UNCHANGED vars
    BY <1>16 DEF vars, Inv, World
<1> QED BY <1>1, <1>2, <1>3, <1>4, <1>5, <1>6, <1>7, <1>8, <1>9, <1>10, <1>11, <1>12, <1>13, <1>14, <1>15, <1>16
    DEF Next

(* The invariant holds in every state of every behaviour.                  *)
LEMMA AlwaysInv == Spec => []Inv
  BY InvInit, InvNext, PTL DEF Spec

(* Nothing was imported, and no VM has parts, when the call begins.        *)
LEMMA MoreInit == Init => Strangers /\ Settled
  BY DEF Init, Strangers, Settled, LeftTyped, LeaseIsSettled

(* The VMs of others, in every state of every behaviour.                   *)
LEMMA AlwaysStrangers == Spec => []Strangers
  BY MoreInit, AlwaysInv, StrangersNext, PTL DEF Spec

(* The leases, in every state of every behaviour.                          *)
LEMMA AlwaysSettled == Spec => []Settled
  BY MoreInit, AlwaysInv, SettledNext, PTL DEF Spec

(* Every variable keeps its type; until a call is over it stands at an     *)
(* item of its list, with one row for each item before it.                 *)
THEOREM DeployTypeCorrect == Spec => []TypeOK
<1>1. Inv /\ Settled => TypeOK
    BY DEF Inv, World, Sound, Shaped, Settled, LeftTyped, TypeOK
<1> QED BY <1>1, AlwaysInv, AlwaysSettled, PTL

(* batch_deploy, batch_clone, batch_linked_clone: however names come and   *)
(* go and whatever fails, an item whose row says "ok" has the VM it        *)
(* created with all it asked for, or others destroyed it; no created VM    *)
(* runs incomplete, none gets what the rules deny; a VM of others gets a   *)
(* part only of the name, and of the wishes, of an item whose VM is gone;  *)
(* an answer has one row for each item, or the one of a missing source.    *)
THEOREM RowsAreTrue == Spec => []RowsTellTheTruth
<1>1. Inv /\ Strangers => RowsTellTheTruth
  <2> SUFFICES ASSUME Inv, Strangers PROVE RowsTellTheTruth
      OBVIOUS
  <2>1. \A k \in 1..Len(call.rows) : RowOK(call.rows[k], call.items[k], call.tool, vm, denied)
      BY Apart DEF RowsOK
  <2>2. SourceRow(call) => Created = {}
    <3>1. SourceRow(call) => \A k \in 1..Len(call.rows) : k = 1
        BY DEF SourceRow
    <3> QED BY <3>1 DEF SourceRow, Created
  <2>3. call.answer = "rows" => OneEach(call) \/ SourceRow(call)
      BY Apart DEF Shaped
  <2>4. call.answer = "rows" =>
          \/ Len(call.rows) = Len(call.items) /\ \A k \in 1..Len(call.rows) : call.rows[k].of = "item"
          \/ /\ call.tool = "clones" /\ Len(call.rows) = 1 /\ Created = {}
             /\ call.rows[1].of = "source" /\ ~call.rows[1].ok
      BY <2>2, <2>3 DEF OneEach, SourceRow
  <2>5. \A v \in Vms \ Created : \A part \in vm[v].has :
          \E k \in Bereft : call.items[k].name = vm[v].name /\ part \in call.items[k].wants \ denied
      BY DEF Strangers, HasReason
  <2>6. \A k \in 1..Len(call.rows) :
          LET row == call.rows[k]  item == call.items[k] IN
          /\ row.ok => row.vm # NoVm
          /\ row.vm # NoVm /\ vm[row.vm].is = "here" =>
               LET has == vm[row.vm].has IN
               /\ has \subseteq item.wants \ denied
               /\ row.ok /\ ~BestEffort(call.tool, item) => has = item.wants
               /\ "power_on" \in has /\ ~BestEffort(call.tool, item) => has = item.wants
      BY <2>1 DEF RowOK
  <2> QED BY <2>4, <2>5, <2>6 DEF RowsTellTheTruth
<1> QED BY <1>1, AlwaysInv, AlwaysStrangers, PTL

(* deploy_ova: whatever way an import ends, no VM stays half imported      *)
(* under its lease, but one whose Abort vCenter refused or whose           *)
(* lease.state could not be read.                                          *)
THEOREM LeasesAreSettled == Spec => []LeaseIsSettled
<1>1. Settled => LeaseIsSettled
    BY DEF Settled
<1> QED BY <1>1, AlwaysSettled, PTL
=============================================================================
