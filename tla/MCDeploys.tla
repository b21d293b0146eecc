----------------------------- MODULE MCDeploys ------------------------------
EXTENDS Deploys, TLC

CONSTANTS v1, v2, v3, a, b

Items(names, way, wants) == [name : names, way : {way}, wants : wants]

Wants == {{}, {"snapshot", "power_on"}}
With(part) == {w \cup {part} : w \in Wants}

\* The spec's cpu and memory have defaults: every clone of it is reconfigured.
SpecItems(way) ==
  Items({a, b, NoName}, "ova", Wants)
    \cup (IF way = "create" THEN Items({a, b}, way, Wants \cup With("iso"))
          ELSE Items({a, b}, way, With("reconfigure")))

Batch(tool, items) == [tool : {tool}, items : [1..2 -> items]]

AllCalls ==
  UNION {Batch("spec", SpecItems(way)) : way \in {"linked", "template", "clone", "create"}}
    \cup UNION {Batch("clones", Items({a, b}, "clone", {w})) : w \in Wants}
    \cup UNION {Batch("linked", Items({a, b}, "linked", {w})) : w \in Wants \cup With("reconfigure")}
    \cup [tool : {"single"}, items : [1..1 -> UNION {Items({a}, way, Wants) : way \in {"ova", "linked", "template"}}]]

AllRules == {{}, {"power_on"}}

Sym == Permutations({v1, v2, v3})
=============================================================================
