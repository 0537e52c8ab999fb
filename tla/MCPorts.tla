------------------------------ MODULE MCPorts ------------------------------
EXTENDS Ports, FiniteSetsExt, TLC

\* A node of each kind that matters to the graph, and wires between them: every
\* pair of nodes, several for some of them, and some that are not allowed.
TypeIn == [timer |-> "TimerNode", map |-> "MapNode", fork |-> "ForkNode", and |-> "AndNode"]

AllIds == DOMAIN TypeIn

Wire(from, to, input, kind) ==
  [source |-> from, sourcePort |-> "out", target |-> to, targetPort |-> input, type |-> kind]

SomeEdges ==
  {Wire(s, t, "in", "data") : s \in AllIds, t \in AllIds \ {"timer"}}
  \cup {Wire("timer", "map", "size", "attribute"), Wire("map", "timer", "in", "control"),
        Wire("map", "and", "in", "raw"), Wire("fork", "map", "in", "raw"),
        Wire("fork", "timer", "in", "data"), Wire("and", "map", "trigger", "data")}

UpTo(n) == UNION {kSubset(k, SomeEdges) : k \in 0..n}

SmallFiles ==
  [ids : {AllIds}, twice : BOOLEAN, edges : UpTo(4)]
  \cup [ids : {AllIds \ {n} : n \in AllIds}, twice : {FALSE}, edges : UpTo(2)]

Symmetry == Permutations(Wires)
=============================================================================
