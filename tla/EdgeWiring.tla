------------------------------ MODULE EdgeWiring ------------------------------
(***************************************************************************)
(* Live wiring.  What is drawn on the canvas (editor.js) is sent to the    *)
(* backend one request at a time: nodes created and deleted, wires         *)
(* connected and disconnected (api/server.py), and "Run", which builds     *)
(* every node again as part of a session (core/engine.py).  Nobody waits   *)
(* for an answer before sending the next request, but "Run" itself: it     *)
(* stops the session, takes down what is drawn, and makes a workflow and a *)
(* session of that before it asks for the session's start, while others go *)
(* on drawing.  The backend keeps a wire in several places: the outputs of *)
(* one node, the inputs of another, the pipe of the edge, a task that      *)
(* pumps an attribute, the targets of a trigger.                           *)
(*                                                                         *)
(* A wire is a record [source, sourcePort, target, targetPort, kind]; the  *)
(* kind is "data" (raw wires are wired the same way), "control" or         *)
(* "attribute".  A plug is a triple <<node, port, pipe>>.  Pipes are named *)
(* by who made them.  Instances that have been replaced or deleted are not *)
(* kept: nothing can reach their plugs.                                    *)
(*                                                                         *)
(* A definition marked "Defect" is a wrong version of the one after it, to *)
(* check that the properties would notice; no specification uses it.       *)
(***************************************************************************)
EXTENDS Integers, FiniteSets, SequencesExt

CONSTANTS
  Nodes,          \* ids of nodes; those of nodes that are wholly gone are used again
  Wires,          \* wires that somebody may draw
  Valid,          \* those that validate_edge() accepts
  OwnOutputs,     \* <<node, port>> where init() makes a pipe of its own
  OwnInputs,      \* the same for inputs
  Copies,         \* pipes that one wire may have at the same time
  MaxRequests,    \* bound: requests under way, in order or not
  MaxAwaits,      \* bound: disconnects of one wire that await its listener
  EraseAfterRun   \* whether a wire that "Run" has built may be erased

WiringAssumption ==
  /\ IsFiniteSet(Nodes)
  /\ IsFiniteSet(Wires)
  /\ Wires \subseteq [source: Nodes, sourcePort: STRING, target: Nodes,
                      targetPort: STRING, kind: {"data", "control", "attribute"}]
  /\ Valid \subseteq Wires
  /\ OwnOutputs \subseteq Nodes \X STRING
  /\ OwnInputs \subseteq Nodes \X STRING
  /\ Copies \in Nat \ {0}
  /\ MaxRequests \in [BOOLEAN -> Nat]
  /\ MaxAwaits \in Nat
  /\ EraseAfterRun \in BOOLEAN
ASSUME WiringAssumption

VARIABLES
  inOrder,      \* whether requests are served in the order they were sent
  nodes,        \* the nodes on the canvas
  drawn,        \* the wires on the canvas
  ran,          \* those among them that the last "Run" has built
  preparing,    \* what a "Run" took down, until it asks for the start: {} or {it}
  outdated,     \* history: whether a start was asked for that was not the canvas
  requests,     \* the requests under way, in the order they were sent
  rejected,     \* wires whose connect has failed, the answer being under way
  live,         \* _nodes
  outs,         \* plugs in the outputs of live nodes
  ins,          \* plugs in their inputs; the control pipes have port "control"
  edgePipe,     \* _edge_pipes
  pumps,        \* _attribute_pump_tasks: the pipe that each one reads
  sessionPumps, \* the plugs that Engine._attribute_tasks read
  stopped,      \* whether the session is stopped (or there is none)
  targets,      \* _graph_control_targets: how often one node lists another
  deleting,     \* nodes whose delete request awaits stop()
  unwiring      \* how many disconnects of a control wire await its listener

runs == <<preparing, outdated>>
canvas == <<inOrder, nodes, drawn, ran, runs>>
session == <<sessionPumps, stopped>>
wiring == <<outs, ins, edgePipe, pumps, session, targets>>
suspended == <<deleting, unwiring>>
vars == <<canvas, requests, rejected, live, wiring, suspended>>

-----------------------------------------------------------------------------
(* Wires and plugs *)

OutPlug(w, pipe) == <<w.source, w.sourcePort, pipe>>
InPort(w) == IF w.kind = "control" THEN "control" ELSE w.targetPort
InPlug(w, pipe) == <<w.target, InPort(w), pipe>>
PumpKey(w) == <<w.source, w.target, w.targetPort>>
Touching(n) == {w \in drawn : n \in {w.source, w.target}}
SameSlot(w) == {x \in drawn : x.target = w.target /\ x.targetPort = w.targetPort}

EdgePipes(w) == {"edge"} \X {w} \X (1 .. Copies)

\* Defect: a run has one pipe for each node.
RunPipeOfNode(w) == <<"run", w.source>>

RunPipe(w) == <<"run", w.source, w.target>>
OwnPipe(side, n, port) == <<side, n, port>>
OwnPipes == {OwnPipe("output", o[1], o[2]) : o \in OwnOutputs}
              \cup {OwnPipe("input", o[1], o[2]) : o \in OwnInputs}
Pipes == UNION {EdgePipes(w) : w \in Wires} \cup {RunPipe(w) : w \in Wires} \cup OwnPipes

Plugged(plugs, n, port) == {x \in plugs : x[1] = n /\ x[2] = port}
PlugsOf(plugs, ns) == {x \in plugs : x[1] \in ns}

\* The pipes of w that nothing refers to: what Pipe() returns is one of them.
FreshPipes(w) ==
  EdgePipes(w) \ ({x[3] : x \in outs \cup ins} \cup Range(edgePipe) \cup Range(pumps))

\* Defect: a wire takes the place of all that were plugged in there.
PlugOver(plugs, side, n, port, pipe) ==
  (plugs \ Plugged(plugs, n, port)) \cup {<<n, port, pipe>>}

\* Defect: a wire is plugged in beside the pipe that init() had made.
PlugBeside(plugs, side, n, port, pipe) == plugs \cup {<<n, port, pipe>>}

\* A port that has only the pipe init() made for it gives that one up.
Plug(plugs, side, n, port, pipe) ==
  LET own == <<n, port, OwnPipe(side, n, port)>>
  IN  (IF Plugged(plugs, n, port) = {own} THEN plugs \ {own} ELSE plugs)
        \cup {<<n, port, pipe>>}

\* What is removed when the pipe of the wire is not known: a port's only one.
OnlyOne(plugs, n, port) ==
  LET there == Plugged(plugs, n, port)
  IN  IF Cardinality(there) = 1 THEN there ELSE {}

-----------------------------------------------------------------------------
(* The canvas *)

Create(n) == [op |-> "create", of |-> n]
Connect(w) == [op |-> "connect", of |-> w]
Disconnect(w) == [op |-> "disconnect", of |-> w]
Delete(n) == [op |-> "delete", of |-> n]
Start(payload) == [op |-> "run", of |-> payload]

\* graphToRunPayload()
Payload == [nodes |-> nodes, wires |-> drawn]
Payloads == [nodes: SUBSET Nodes, wires: SUBSET Wires]

Requests ==
  [op: {"create", "delete"}, of: Nodes] \cup [op: {"connect", "disconnect"}, of: Wires]
    \cup [op: {"run"}, of: Payloads]

Disconnects(ws) == SetToSeq({Disconnect(w) : w \in ws})

\* The start of a Run that is being prepared is one of the requests to come.
Send(more) ==
  /\ Len(requests) + Len(more) + Cardinality(preparing) <= MaxRequests[inOrder]
  /\ requests' = requests \o more

MayErase(ws) == EraseAfterRun \/ ws \cap ran = {}

\* Nothing anywhere mentions n: it can stand for a new id.
Unused(n) ==
  /\ n \notin nodes \cup live \cup deleting
  /\ Range(requests) \cap {Create(n), Delete(n)} = {}
  /\ \A p \in preparing : n \notin p.nodes
  /\ \A r \in Range(requests) : r.op = "run" => n \notin r.of.nodes
  /\ \A w \in Wires : n \in {w.source, w.target} =>
       /\ Range(requests) \cap {Connect(w), Disconnect(w)} = {}
       /\ w \notin rejected \cup DOMAIN edgePipe

\* createPsfNode() with a new id.
AddNode(n) ==
  /\ Unused(n)
  /\ Send(<<Create(n)>>)
  /\ nodes' = nodes \cup {n}
  /\ UNCHANGED <<inOrder, drawn, ran, runs, rejected, live, wiring, suspended>>

\* graph.remove(): first the wires of the node, then the node.
RemoveNode(n) ==
  /\ n \in nodes
  /\ MayErase(Touching(n))
  /\ Send(Append(Disconnects(Touching(n)), Delete(n)))
  /\ nodes' = nodes \ {n}
  /\ drawn' = drawn \ Touching(n)
  /\ ran' = ran \ Touching(n)
  /\ UNCHANGED <<inOrder, runs, rejected, live, wiring, suspended>>

\* An input slot of the canvas holds one wire: the one there goes first.
Draw(w) ==
  /\ w \notin drawn
  /\ {w.source, w.target} \subseteq nodes
  /\ MayErase(SameSlot(w))
  /\ Send(Append(Disconnects(SameSlot(w)), Connect(w)))
  /\ drawn' = (drawn \ SameSlot(w)) \cup {w}
  /\ ran' = ran \ SameSlot(w)
  /\ UNCHANGED <<inOrder, nodes, runs, rejected, live, wiring, suspended>>

EraseAll(ws) ==
  /\ Send(Disconnects(ws))
  /\ drawn' = drawn \ ws
  /\ ran' = ran \ ws
  /\ UNCHANGED <<inOrder, nodes, runs, live, wiring, suspended>>

Erase(w) ==
  /\ w \in drawn
  /\ MayErase({w})
  /\ EraseAll({w})
  /\ UNCHANGED rejected

\* The answer to a failed connect: whatever is in that slot is taken off.
Rejected(w) ==
  /\ w \in rejected
  /\ rejected' = rejected \ {w}
  /\ EraseAll(SameSlot(w))

\* A Run whose start has not been served.  Nobody presses Run or Stop then.
RunUnderWay == preparing # {} \/ \E r \in Range(requests) : r.op = "run"

\* runWorkflow(), with the session stopped: what is drawn is taken down for the
\* workflow and the session that are made next.  (With an invalid wire on the
\* canvas it would end there.)
Run ==
  /\ stopped
  /\ ~ RunUnderWay
  /\ nodes # {}
  /\ drawn \subseteq Valid
  /\ Len(requests) < MaxRequests[inOrder]
  /\ preparing' = {Payload}
  /\ UNCHANGED <<inOrder, nodes, drawn, ran, outdated, requests, rejected, live, wiring,
                 suspended>>

\* The requests between are answered: the start of the session is asked for.
AskStart ==
  \E payload \in preparing :
    /\ requests' = Append(requests, Start(payload))
    /\ preparing' = {}
    /\ ran' = drawn \cap payload.wires
    /\ outdated' = (outdated \/ payload # Payload)
    /\ UNCHANGED <<inOrder, nodes, drawn, rejected, live, wiring, suspended>>

-----------------------------------------------------------------------------
(* The backend: one request is served up to its await, or to its end *)

\* The request that is served now is r, and is no longer under way.
Serving(r) ==
  \E i \in IF inOrder THEN {1} \cap DOMAIN requests ELSE DOMAIN requests :
    /\ requests[i] = r
    /\ requests' = RemoveAt(requests, i)

Found(w) == {w.source, w.target} \subseteq live

CreateNode(n) ==
  /\ Serving(Create(n))
  /\ live' = live \cup {n}
  /\ UNCHANGED <<canvas, rejected, wiring, suspended>>

ConnectNodes(w) ==
  /\ Serving(Connect(w))
  /\ Found(w) /\ w \in Valid
  /\ FreshPipes(w) # {}
  /\ LET pipe == CHOOSE p \in FreshPipes(w) : TRUE
     IN  /\ outs' = Plug(outs, "output", w.source, w.sourcePort, pipe)
         /\ edgePipe' = [x \in DOMAIN edgePipe \cup {w} |-> IF x = w THEN pipe ELSE edgePipe[x]]
         /\ ins' = IF w.kind = "attribute" THEN ins
                   ELSE Plug(ins, "input", w.target, InPort(w), pipe)
         /\ pumps' = IF w.kind # "attribute" THEN pumps
                     ELSE [k \in DOMAIN pumps \cup {PumpKey(w)} |->
                             IF k = PumpKey(w) THEN pipe ELSE pumps[k]]
  /\ targets' = IF w.kind # "control" THEN targets
                ELSE [targets EXCEPT ![<<w.source, w.target>>] = @ + 1]
  /\ UNCHANGED <<canvas, rejected, live, session, suspended>>

RejectConnect(w) ==
  /\ Serving(Connect(w))
  /\ ~ (Found(w) /\ w \in Valid)
  /\ rejected' = rejected \cup {w}
  /\ UNCHANGED <<canvas, live, wiring, suspended>>

\* Defect: the trigger keeps its target.
StayTargeted(w) == targets

\* Defect: removes a mention of the target without looking for one.
UntargetAlways(w) == [targets EXCEPT ![<<w.source, w.target>>] = @ - 1]

\* Removes one mention of the target, if there is one.
Untarget(w) == [targets EXCEPT ![<<w.source, w.target>>] = IF @ = 0 THEN 0 ELSE @ - 1]

\* Defect: the whole output port is cleared.
UnplugAllOutputs(w) == outs \ Plugged(outs, w.source, w.sourcePort)

UnplugOutput(w) ==
  outs \ (IF w \in DOMAIN edgePipe THEN {OutPlug(w, edgePipe[w])}
          ELSE OnlyOne(outs, w.source, w.sourcePort))

\* Defect: the input side of the wire is left in place.
UnplugNoInput(w) == ins

UnplugInput(w) ==
  ins \ (IF w.kind = "attribute" THEN {}
         ELSE IF w \in DOMAIN edgePipe THEN {InPlug(w, edgePipe[w])}
         ELSE OnlyOne(ins, w.target, InPort(w)))

\* A control wire's listener is awaited before its target is removed.
DisconnectNodes(w) ==
  /\ Serving(Disconnect(w))
  /\ Found(w)
  /\ outs' = UnplugOutput(w)
  /\ ins' = UnplugInput(w)
  /\ edgePipe' = [x \in DOMAIN edgePipe \ {w} |-> edgePipe[x]]
  /\ pumps' = IF w.kind # "attribute" THEN pumps
              ELSE [k \in DOMAIN pumps \ {PumpKey(w)} |-> pumps[k]]
  /\ IF w.kind = "control"
     THEN /\ unwiring[w] < MaxAwaits
          /\ unwiring' = [unwiring EXCEPT ![w] = @ + 1]
          /\ UNCHANGED targets
     ELSE targets' = Untarget(w) /\ UNCHANGED unwiring
  /\ UNCHANGED <<canvas, rejected, live, session, deleting>>

DisconnectReturns(w) ==
  /\ unwiring[w] > 0
  /\ unwiring' = [unwiring EXCEPT ![w] = @ - 1]
  /\ targets' = Untarget(w)
  /\ UNCHANGED <<canvas, requests, rejected, live, outs, ins, edgePipe, pumps,
                 session, deleting>>

DisconnectFails(w) ==
  /\ Serving(Disconnect(w))
  /\ ~ Found(w)
  /\ UNCHANGED <<canvas, rejected, live, wiring, suspended>>

\* Nothing reaches the old instances of ns: their plugs and targets are gone,
\* and a disconnect that is suspended has them in hand, not the new ones.
Discard(ns, newTargets) ==
  /\ targets' = [e \in Nodes \X Nodes |-> IF e[1] \in ns THEN newTargets[e] ELSE targets[e]]
  /\ unwiring' = [w \in Wires |-> IF w.source \in ns THEN 0 ELSE unwiring[w]]

DeleteNode(n) ==
  /\ Serving(Delete(n))
  /\ IF n \in live
     THEN /\ live' = live \ {n}
          /\ deleting' = deleting \cup {n}
          /\ outs' = outs \ PlugsOf(outs, {n})
          /\ ins' = ins \ PlugsOf(ins, {n})
          /\ Discard({n}, [e \in Nodes \X Nodes |-> 0])
     ELSE UNCHANGED <<live, outs, ins, targets, suspended>>
  /\ UNCHANGED <<canvas, rejected, edgePipe, pumps, session>>

\* Defect: only the pumps that the node feeds are cancelled.
SweptSources(n) == {k \in DOMAIN pumps : k[1] = n}

Swept(n) == {k \in DOMAIN pumps : n \in {k[1], k[2]}}

DeleteReturns(n) ==
  /\ n \in deleting
  /\ deleting' = deleting \ {n}
  /\ pumps' = [k \in DOMAIN pumps \ Swept(n) |-> pumps[k]]
  /\ UNCHANGED <<canvas, requests, rejected, live, outs, ins, edgePipe,
                 session, targets, unwiring>>

\* Session.stop(), for the Stop button or as the first request of a Run: the
\* session's pumps are cancelled (but those of a session that is still starting
\* its nodes are not); the plugs stay where they are.
StopSession ==
  /\ ~ stopped
  /\ ~ RunUnderWay
  /\ stopped' = TRUE
  /\ sessionPumps' \in {{}, sessionPumps}
  /\ UNCHANGED <<canvas, requests, rejected, live, outs, ins, edgePipe, pumps, targets,
                 suspended>>

\* Engine.run(): new instances of all nodes, one pipe for each pair of nodes.
RunSession(r) ==
  /\ r.op = "run" /\ Serving(r)
  /\ LET ns == r.of.nodes
         ws == r.of.wires
         pumped == {w \in ws : w.kind = "attribute"}
         controls(e) == {w \in ws : w.kind = "control" /\ <<w.source, w.target>> = e}
     IN  /\ live' = live \cup ns
         /\ outs' = (outs \ PlugsOf(outs, ns)) \cup {OutPlug(w, RunPipe(w)) : w \in ws}
         /\ ins' = (ins \ PlugsOf(ins, ns)) \cup {InPlug(w, RunPipe(w)) : w \in ws \ pumped}
         /\ sessionPumps' = {InPlug(w, RunPipe(w)) : w \in pumped}
         /\ stopped' = FALSE
         /\ Discard(ns, [e \in Nodes \X Nodes |-> Cardinality(controls(e))])
  /\ UNCHANGED <<canvas, rejected, edgePipe, pumps, deleting>>

\* A start whose init() makes the pipes of a self-contained node.
NodeInit(n) ==
  LET unwired(plugs, side, own) ==
        {<<n, o[2], OwnPipe(side, n, o[2])>> :
           o \in {o \in own : o[1] = n /\ Plugged(plugs, n, o[2]) = {}}}
  IN  /\ n \in live
      /\ outs' = outs \cup unwired(outs, "output", OwnOutputs)
      /\ ins' = ins \cup unwired(ins, "input", OwnInputs)
      /\ UNCHANGED <<canvas, requests, rejected, live, edgePipe, pumps, session,
                     targets, suspended>>

-----------------------------------------------------------------------------
Init ==
  /\ inOrder \in BOOLEAN
  /\ nodes = {} /\ drawn = {} /\ ran = {}
  /\ preparing = {} /\ outdated = FALSE
  /\ requests = <<>> /\ rejected = {}
  /\ live = {}
  /\ outs = {} /\ ins = {} /\ sessionPumps = {} /\ stopped = TRUE
  /\ edgePipe = [w \in {} |-> <<>>]
  /\ pumps = [k \in {} |-> <<>>]
  /\ targets = [e \in Nodes \X Nodes |-> 0]
  /\ deleting = {} /\ unwiring = [w \in Wires |-> 0]

Canvas ==
  \/ \E n \in Nodes : AddNode(n) \/ RemoveNode(n)
  \/ \E w \in Wires : Draw(w) \/ Erase(w)
  \/ Run \/ AskStart

Backend ==
  \/ \E n \in Nodes : CreateNode(n) \/ DeleteNode(n) \/ DeleteReturns(n) \/ NodeInit(n)
  \/ \E w \in Wires : \/ ConnectNodes(w) \/ RejectConnect(w) \/ Rejected(w)
                      \/ DisconnectNodes(w) \/ DisconnectReturns(w) \/ DisconnectFails(w)
  \/ StopSession
  \/ \E r \in Range(requests) : RunSession(r)

Next == Canvas \/ Backend

Spec == Init /\ [][Next]_vars

-----------------------------------------------------------------------------
(* What the properties need of the wires that may be drawn *)

Pair(w) == <<w.source, w.target>>

\* Two wires have a port in common: an output, an input slot, an input.
ShareAPort(w, x) ==
  \/ w.source = x.source /\ w.sourcePort = x.sourcePort
  \/ w.target = x.target /\ (w.targetPort = x.targetPort \/ InPort(w) = InPort(x))

\* What Run has built is not erased, and a wire that will be refused is not
\* drawn at a port of one that will not: a disconnect of a wire whose pipe is
\* not known takes the only plug there is.
Steady ==
  /\ ~ EraseAfterRun
  /\ \A w \in Wires \ Valid : \A x \in Valid : ~ ShareAPort(w, x)

\* Wires that join the same nodes share an input slot, so that only one of them
\* can be drawn: a run has one pipe for each pair of nodes.
PlugsApart ==
  \A w, x \in Wires : Pair(w) = Pair(x) => w.targetPort = x.targetPort /\ w.kind = x.kind

\* Between two nodes that a control wire can join there are only such wires:
\* targets are listed by node, and every disconnect takes one off the list.
Targeting == {w \in Valid : w.kind = "control"}
TargetsApart == \A w \in Targeting : \A x \in Wires : Pair(x) = Pair(w) => x \in Targeting

-----------------------------------------------------------------------------
(* What a wire is worth *)

Reads(w, pipe) ==
  IF w.kind # "attribute" THEN InPlug(w, pipe) \in ins
  ELSE \/ InPlug(w, pipe) \in sessionPumps
       \/ PumpKey(w) \in DOMAIN pumps /\ pumps[PumpKey(w)] = pipe

Works(w) ==
  /\ Found(w)
  /\ \E x \in Plugged(outs, w.source, w.sourcePort) : Reads(w, x[3])

Quiet ==
  /\ requests = <<>> /\ preparing = {} /\ rejected = {} /\ deleting = {}
  /\ \A w \in Wires : unwiring[w] = 0

\* Every variable has its type; every plug belongs to a node that is live.
TypeOK ==
  /\ nodes \subseteq Nodes /\ live \subseteq Nodes /\ deleting \subseteq Nodes
  /\ drawn \subseteq Wires /\ rejected \subseteq Wires
  /\ ran \subseteq drawn
  /\ requests \in Seq(Requests)
  /\ preparing \subseteq Payloads /\ stopped \in BOOLEAN /\ outdated \in BOOLEAN
  /\ unwiring \in [Wires -> Nat]
  /\ \A x \in outs \cup ins : x[1] \in live /\ x[3] \in Pipes
  /\ DOMAIN edgePipe \subseteq Wires /\ Range(edgePipe) \subseteq Pipes
  /\ DOMAIN pumps \subseteq {PumpKey(w) : w \in Wires} /\ Range(pumps) \subseteq Pipes
  /\ targets \in [Nodes \X Nodes -> Nat]

\* The requests are served in order, and every start was of the canvas of its
\* moment: nothing was drawn or erased while a Run was being prepared.
Orderly == inOrder /\ ~ outdated

\* An attribute wire of a session is dead once the session is stopped.
Dead(w) == stopped /\ w \in ran /\ w.kind = "attribute"

Matching == live = nodes /\ \A w \in Wires : Dead(w) \/ (w \in drawn <=> Works(w))

\* What is drawn matches what is wired (editor.js, syncWireToBackend): once
\* all requests are done, the nodes and the working wires are those drawn.
WiredAsDrawn == Orderly /\ Quiet => Matching

\* No queue fills up behind the wires: once all requests are done, what a node
\* emits into is read by a live one (or was by a session that is stopped), and
\* what it reads from is fed.
NoDeadEnds ==
  LET made(plugs) == {x[3] : x \in plugs} \ OwnPipes
      read == made(ins \cup sessionPumps) \cup {pumps[k] : k \in DOMAIN pumps}
                \cup {RunPipe(w) : w \in {x \in Wires : Dead(x)}}
  IN  Orderly /\ Quiet => made(outs) \subseteq read /\ made(ins) \subseteq made(outs)

\* Every item reaches every wire of an output: no two inputs or attributes take
\* turns at one pipe, as long as requests and starts are in order.
OneReader ==
  LET pumped == {<<k[2], k[3], pumps[k]>> : k \in DOMAIN pumps}
  IN  Orderly => \A x, y \in ins \cup sessionPumps \cup pumped : x[3] = y[3] => x = y

\* A trigger fires exactly the nodes it has control wires to: its list agrees
\* with the canvas, though wires to it are removed in two steps.
TargetsDrawn ==
  Orderly /\ Quiet =>
    \A e \in Nodes \X Nodes :
      targets[e] = Cardinality({w \in drawn : w.kind = "control"
                                              /\ <<w.source, w.target>> = e})

\* Real wiring wins: a pipe that init() made for a port is alone there.
RealWiringWins ==
  \A plugs \in {outs, ins} : \A x \in plugs :
    x[3] \in OwnPipes => Plugged(plugs, x[1], x[2]) = {x}

\* No attribute pump outlives one of its nodes, in whatever order the requests
\* to delete nodes and wires arrive.
PumpsOfLive ==
  deleting = {} => \A k \in DOMAIN pumps : {k[1], k[2]} \subseteq live

\* No removal cuts another wire: a wire stops working only in the step that
\* serves its own disconnect, or, if it is an attribute wire, when the session
\* is stopped: whatever else is taken off, deleted or rebuilt.
OnlyAskedRemovals ==
  [][\A w \in Wires :
       Orderly /\ Works(w) /\ ~ Works(w)' =>
         Serving(Disconnect(w)) \/ (w.kind = "attribute" /\ StopSession)]_vars
=============================================================================
