-------------------------- MODULE MCPlanExecution --------------------------
(* Instances of PlanExecution for TLC.                                     *)
EXTENDS PlanExecution, Sequences, TLC

CONSTANTS n1, n2, p1, c1, r1, r2

OneServer  == [c \in Calls |-> r1]
TwoServers == [c \in Calls |-> IF c = c1 THEN r1 ELSE r2]

Step(kind, name) == [kind |-> kind, name |-> name]

EverySwitch ==
  [p \in Plans |-> <<Step("create", n1), Step("power_off", n2), Step("power_on", n2)>>]

CreateOnReconfigure ==
  [p \in Plans |->
     SubSeq(<<Step("create", n1), Step("power_on", n2), Step("reconfigure", n2)>>, 1, N)]

PowerOnCreate ==
  [p \in Plans |-> <<Step("power_on", n2), Step("create", n1)>>]

\* In one server nothing tells two worker threads, or two UUIDs, apart.
Symmetry == Permutations(Calls) \cup Permutations(Uuids)
=============================================================================
