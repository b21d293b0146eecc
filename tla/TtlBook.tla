------------------------------- MODULE TtlBook -------------------------------
(***************************************************************************)
(* What the TTL store promises its callers: each update takes effect at    *)
(* once, on whatever the book holds at that moment, somewhere between the  *)
(* call and its return; an update that raises has no effect; one whose     *)
(* process dies has taken effect or not.                                   *)
(***************************************************************************)
CONSTANTS
  Names,     \* VM names, the keys of the store
  Entries,   \* what a TTL entry may say
  NoEntry,
  NoUpdate,
  Callers

VARIABLES
  book,      \* [Names -> Entries \cup {NoEntry}]
  update,    \* [Callers -> Updates \cup {NoUpdate}]: what each call is to do
  stage      \* [Callers -> Stages]

vars == <<book, update, stage>>

Books == [Names -> Entries \cup {NoEntry}]

\* set_ttl writes an entry; cancel_ttl and remove_entry write that there is none.
Updates == [name : Names, entry : Entries \cup {NoEntry}]

Stages == {"idle", "asked", "done", "failed"}

Updated(b, w) == [b EXCEPT ![w.name] = w.entry]

Init ==
  /\ book \in Books
  /\ update = [c \in Callers |-> NoUpdate]
  /\ stage = [c \in Callers |-> "idle"]

Ask(c, w) ==
  /\ stage[c] = "idle"
  /\ stage' = [stage EXCEPT ![c] = "asked"]
  /\ update' = [update EXCEPT ![c] = w]
  /\ UNCHANGED book

Perform(c) ==
  /\ stage[c] = "asked"
  /\ book' = Updated(book, update[c])
  /\ stage' = [stage EXCEPT ![c] = "done"]
  /\ UNCHANGED update

Fail(c) ==
  /\ stage[c] = "asked"
  /\ stage' = [stage EXCEPT ![c] = "failed"]
  /\ UNCHANGED <<book, update>>

Return(c) ==
  /\ stage[c] \in {"done", "failed"}
  /\ stage' = [stage EXCEPT ![c] = "idle"]
  /\ update' = [update EXCEPT ![c] = NoUpdate]
  /\ UNCHANGED book

Die(S) ==
  /\ stage' = [c \in Callers |-> IF c \in S THEN "idle" ELSE stage[c]]
  /\ update' = [c \in Callers |-> IF c \in S THEN NoUpdate ELSE update[c]]
  /\ UNCHANGED book

Next ==
  \/ \E c \in Callers :
       \/ \E w \in Updates : Ask(c, w)
       \/ Perform(c) \/ Fail(c) \/ Return(c)
  \/ \E S \in SUBSET Callers : Die(S)

Spec == Init /\ [][Next]_vars
=============================================================================
