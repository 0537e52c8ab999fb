------------------------------ MODULE GraphRun ------------------------------
(***************************************************************************)
(* core/engine.py and core/port_schema.py: what Engine.run() does with a   *)
(* graph before the nodes run: it checks the wires and that there is no    *)
(* cycle, builds the wires, and settles the order in which it starts the   *)
(* nodes.  Nothing here suspends; the steps are the turns of the loops.    *)
(*                                                                         *)
(* Both searches take ready nodes in an order of their own (the check the  *)
(* last one found, the order the first one) and follow the wires of a node *)
(* as the file lists them.  The model takes them in any order.             *)
(*                                                                         *)
(* A definition marked "Defect" is a wrong version of the one after it, to *)
(* check that the properties would notice; no specification uses it.       *)
(***************************************************************************)
EXTENDS Naturals, Sequences, FiniteSets

CONSTANTS
  TypeOf,   \* the type of the node of each id
  Files     \* the graphs a file may hold: the ids it lists, whether it lists
            \* one of them twice, and its edges

Edge == [source : DOMAIN TypeOf, sourcePort : STRING,
         target : DOMAIN TypeOf, targetPort : STRING, type : STRING]

ASSUME GraphAssumption ==
  \A f \in Files :
    /\ f.ids \subseteq DOMAIN TypeOf /\ IsFiniteSet(f.ids)
    /\ f.edges \subseteq Edge /\ IsFiniteSet(f.edges)
    /\ f.twice \in BOOLEAN

VARIABLES
  stage,      \* where run() is
  listed,     \* the ids of graph.nodes
  twice,      \* whether one of them is listed twice
  edges,      \* graph.edges
  landed,     \* the input pipe each wire ends in: <<node, port>>
  pumped,     \* the wires that end in a pump: <<node, attribute>>
  degree,     \* in_degree
  ready,      \* queue
  follow,     \* the wires of the node just taken still to be followed
  order       \* order, of which the check keeps only the length (visited)

graph == <<listed, twice, edges>>
wiring == <<landed, pumped>>
graphVars == <<stage, graph, wiring, degree, ready, follow, order>>

-----------------------------------------------------------------------------
(* The port schema.                                                        *)

Dynamic == {"*"}

PortsAre(ins, outs) == [inputs |-> ins, outputs |-> outs]

\* One type of each kind of schema.
Overrides ==
  [ TimerNode               |-> PortsAre({}, {"out"}),
    AndNode                 |-> PortsAre(Dynamic, {"out"}),
    FileOutputNode          |-> PortsAre({"in"}, {}),
    ForkNode                |-> PortsAre({"in"}, Dynamic),
    SubgraphNode            |-> PortsAre(Dynamic, Dynamic),
    RollingWindowBufferNode |-> PortsAre({"in", "retain", "trigger"}, {"history", "out"}) ]

SchemaOf(type) ==
  IF type \in DOMAIN Overrides THEN Overrides[type] ELSE PortsAre({"in"}, {"out"})

PortAllowed(port, declared) == declared = Dynamic \/ port \in declared

EdgeTypes == {"data", "control", "endpoint", "attribute", "raw"}

\* validate_edge(), for an edge both of whose nodes exist.
ValidEdge(e) ==
  LET outputs == SchemaOf(TypeOf[e.source]).outputs
      inputs  == SchemaOf(TypeOf[e.target]).inputs
  IN  /\ e.type \in EdgeTypes
      /\ PortAllowed(e.sourcePort, outputs)
      /\ e.type = "raw" => outputs # Dynamic
      /\ e.type \notin {"attribute", "control"} => PortAllowed(e.targetPort, inputs)

-----------------------------------------------------------------------------
GraphInit ==
  /\ stage = "none"
  /\ listed = {} /\ twice = FALSE /\ edges = {}
  /\ landed = {} /\ pumped = {}
  /\ degree = <<>> /\ ready = {} /\ follow = {} /\ order = <<>>

\* What both searches begin with.
InDegree(es, n) == Cardinality({e \in es : e.target = n})

Begin(ns, es) ==
  /\ degree' = [n \in ns |-> InDegree(es, n)]
  /\ ready' = {n \in ns : InDegree(es, n) = 0}
  /\ follow' = {}
  /\ order' = <<>>

\* run() of a graph: its wires are checked first.
Validate(f) ==
  /\ listed' = f.ids /\ edges' = f.edges /\ twice' = f.twice
  /\ stage' = IF \A e \in f.edges : {e.source, e.target} \subseteq f.ids /\ ValidEdge(e)
              THEN "check" ELSE "invalid"
  /\ Begin(f.ids, f.edges)
  /\ UNCHANGED wiring

Searching == stage \in {"check", "order"}

\* A node is taken from the queue.
Take(n) ==
  /\ Searching
  /\ follow = {}
  /\ n \in ready
  /\ ready' = ready \ {n}
  /\ order' = Append(order, n)
  /\ follow' = {e \in edges : e.source = n}
  /\ UNCHANGED <<stage, graph, wiring, degree>>

\* Defect: several wires from one node count once.
FollowOnce(e) ==
  /\ Searching
  /\ e \in follow
  /\ follow' = {f \in follow : f.target # e.target}
  /\ degree' = [degree EXCEPT ![e.target] = @ - 1]
  /\ ready' = IF degree[e.target] = 1 THEN ready \cup {e.target} ELSE ready
  /\ UNCHANGED <<stage, graph, wiring, order>>

\* One of its wires: what it leads to waits for one wire less.
Follow(e) ==
  /\ Searching
  /\ e \in follow
  /\ follow' = follow \ {e}
  /\ degree' = [degree EXCEPT ![e.target] = @ - 1]
  /\ ready' = IF degree[e.target] = 1 THEN ready \cup {e.target} ELSE ready
  /\ UNCHANGED <<stage, graph, wiring, order>>

Exhausted == follow = {} /\ ready = {}

\* The number of entries of graph.nodes.
Entries == Cardinality(listed) + (IF twice THEN 1 ELSE 0)

\* The check is over.
Checked ==
  /\ stage = "check" /\ Exhausted
  /\ stage' = IF Len(order) = Entries THEN "wire" ELSE "cyclic"
  /\ UNCHANGED <<graph, wiring, degree, ready, follow, order>>

\* Defect: a control wire lands on the port it names, as it did once.
WireEdgesByPort ==
  /\ stage = "wire"
  /\ stage' = "order"
  /\ landed' = {<<e.target, e.targetPort, e.type>> : e \in {f \in edges : f.type # "attribute"}}
  /\ pumped' = {<<e.target, e.targetPort>> : e \in {f \in edges : f.type = "attribute"}}
  /\ Begin(listed, edges)
  /\ UNCHANGED graph

\* _wire_edges(); and _topological_order() begins.
WireEdges ==
  /\ stage = "wire"
  /\ stage' = "order"
  /\ landed' = {<<e.target, IF e.type = "control" THEN "control" ELSE e.targetPort, e.type>> :
                  e \in {f \in edges : f.type # "attribute"}}
  /\ pumped' = {<<e.target, e.targetPort>> : e \in {f \in edges : f.type = "attribute"}}
  /\ Begin(listed, edges)
  /\ UNCHANGED graph

\* The nodes in order are started, one after the other.
Ordered ==
  /\ stage = "order" /\ Exhausted
  /\ stage' = "start"
  /\ UNCHANGED <<graph, wiring, degree, ready, follow, order>>

GraphNext ==
  \/ stage = "none" /\ \E f \in Files : Validate(f)
  \/ \E n \in ready : Take(n)
  \/ \E e \in follow : Follow(e)
  \/ Checked \/ WireEdges \/ Ordered

GraphSpec == GraphInit /\ [][GraphNext]_graphVars

-----------------------------------------------------------------------------
(* Properties.                                                             *)

\* Each node of some set waits for another one of the set.
Cyclic ==
  \E S \in SUBSET listed :
    /\ S # {}
    /\ \A n \in S : \E e \in edges : e.target = n /\ e.source \in S

\* A graph is turned away as cyclic only if it is, or if it lists an id twice,
\* and no cyclic one gets through.  run() then starts every node once, and each
\* one after those that send to it: it would not notice a node missing from
\* order, and such a node would never run.
StartsInOrder ==
  /\ stage = "cyclic" => Cyclic \/ twice
  /\ stage \in {"wire", "order", "start"} => ~Cyclic
  /\ stage = "start" =>
       /\ \A n \in listed : \E i \in DOMAIN order : order[i] = n
       /\ \A i, j \in DOMAIN order : order[i] = order[j] => i = j
       /\ \A e \in edges : \A i \in DOMAIN order :
            order[i] = e.target => \E j \in 1..(i - 1) : order[j] = e.source

\* Every pipe ends in an input the node's type reads: validate_edge() lets the
\* ports of control wires pass unchecked, which is right only as long as
\* _wire_edges() puts those elsewhere.
NoDeafWire ==
  \A w \in landed :
    \/ w[2] = "control"
    \/ w[3] # "control" /\ PortAllowed(w[2], SchemaOf(TypeOf[w[1]]).inputs)

GraphKept == StartsInOrder /\ NoDeafWire
=============================================================================
