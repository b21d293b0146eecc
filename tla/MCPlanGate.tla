----------------------------- MODULE MCPlanGate -----------------------------
EXTENDS PlanGate, TLC

CONSTANTS i1, i2, vm1

S(action) == [action |-> action, name |-> vm1, ack |-> NoAck, long |-> FALSE,
              undo |-> FALSE, id |-> NoId, of |-> 0]

VmSteps ==
  {S(a) : a \in {"power_on", "power_off", "create", "deploy", "snapshot", "drop_snapshot",
                 "delete", "rescan"}}
    \cup {[S("delete") EXCEPT !.ack = [id |-> i, snaps |-> k]] : i \in {i1, i2}, k \in {0, 1}}
    \cup {[S("exec") EXCEPT !.long = long] : long \in BOOLEAN}

HostSteps ==
  {S(a) : a \in {"power_on", "reset", "upload", "download", "migrate",
                 "create_cluster", "delete_cluster", "add_host", "remove_host"}}

AllPlans == [1..3 -> VmSteps] \cup [1..3 -> HostSteps]
AllRules == {{}, {"power_off", "power_on"}}

\* Bound: the VM starts on another host only when the plan migrates it.
Migrates == \E i \in DOMAIN plan : plan[i].step.action = "migrate"
MCInit == Init /\ ((\E i \in Alive(w) : w.vm[i].away) => Migrates)
MCSpec == MCInit /\ [][Next]_vars

Sym == Permutations({i1, i2})
=============================================================================
