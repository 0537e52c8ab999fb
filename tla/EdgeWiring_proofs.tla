-------------------------- MODULE EdgeWiring_proofs --------------------------
(***************************************************************************)
(* Proofs about EdgeWiring, for any nodes and wires, any number of         *)
(* requests under way and any order of serving them: pumps and plugs       *)
(* belong to live nodes, and the pipes that init() makes give way to real  *)
(* wires. When requests are served in order, and every start is of the     *)
(* canvas of its moment, what the backend has wired is what a former state *)
(* of the canvas showed: the requests under way are the edits from that    *)
(* state to the present one. From that follow what the pipes, the          *)
(* triggers' targets and the readers of a pipe are once nothing is under   *)
(* way.                                                                    *)
(***************************************************************************)
EXTENDS EdgeWiring, FiniteSetTheorems, TLAPS

\* A run is asked for with the nodes of all its wires.
SoundRequests ==
  {r \in Requests : r.op = "run" =>
     \A w \in r.of.wires : {w.source, w.target} \subseteq r.of.nodes}

\* So is what a Run takes down, and all its wires are valid.
SoundPayloads ==
  {p \in Payloads : /\ p.wires \subseteq Valid
                    /\ \A w \in p.wires : {w.source, w.target} \subseteq p.nodes}

\* What the canvas sends is about nodes and wires, and a wire on the canvas
\* has its two nodes there.
CanvasInv ==
  /\ nodes \subseteq Nodes
  /\ drawn \subseteq Wires
  /\ \A w \in drawn : {w.source, w.target} \subseteq nodes
  /\ ran \subseteq drawn
  /\ rejected \subseteq Wires
  /\ requests \in Seq(SoundRequests)
  /\ preparing \subseteq SoundPayloads

-----------------------------------------------------------------------------
(* Sequences of requests *)

LEMMA ConcatTyped ==
  ASSUME NEW S, NEW s \in Seq(S), NEW t \in Seq(S)
  PROVE  s \o t \in Seq(S)
OBVIOUS

LEMMA AppendTyped ==
  ASSUME NEW S, NEW s \in Seq(S), NEW x \in S
  PROVE  Append(s, x) \in Seq(S)
OBVIOUS

LEMMA RemoveAtTyped ==
  ASSUME NEW S, NEW s \in Seq(S), NEW i \in DOMAIN s
  PROVE  RemoveAt(s, i) \in Seq(S)
<1>1. i \in 1 .. Len(s)
  OBVIOUS
<1>2. SubSeq(s, 1, i - 1) \in Seq(S)
  BY <1>1
<1>3. SubSeq(s, i + 1, Len(s)) \in Seq(S)
  BY <1>1
<1> QED
  BY <1>2, <1>3, ConcatTyped DEF RemoveAt

LEMMA SetToSeqTyped ==
  ASSUME NEW S, IsFiniteSet(S)
  PROVE  SetToSeq(S) \in Seq(S)
<1> DEFINE n == Cardinality(S)
<1>1. n \in Nat /\ ExistsBijection(1 .. n, S)
  BY FS_CardinalityType
<1>2. \E f \in [1 .. n -> S] : IsInjective(f)
  <2>1. PICK f : f \in Bijection(1 .. n, S)
    BY <1>1 DEF ExistsBijection
  <2>2. f \in [1 .. n -> S] /\ IsInjective(f)
    BY <2>1 DEF Bijection, Injection, IsInjective
  <2> QED
    BY <2>2
<1>3. SetToSeq(S) \in [1 .. n -> S]
  BY <1>2 DEF SetToSeq
<1> QED
  BY <1>1, <1>3

LEMMA SoundRequest ==
  /\ \A n \in Nodes : Create(n) \in SoundRequests /\ Delete(n) \in SoundRequests
  /\ \A w \in Wires : Connect(w) \in SoundRequests /\ Disconnect(w) \in SoundRequests
BY DEF SoundRequests, Requests, Create, Delete, Connect, Disconnect

LEMMA DisconnectsTyped ==
  ASSUME NEW ws, ws \subseteq Wires
  PROVE  Disconnects(ws) \in Seq(SoundRequests)
<1> DEFINE S == {Disconnect(w) : w \in ws}
<1>1. IsFiniteSet(ws)
  BY WiringAssumption, FS_Subset DEF WiringAssumption
<1>2. IsFiniteSet(S)
  <2> DEFINE f == [w \in ws |-> Disconnect(w)]
  <2>1. f \in Surjection(ws, S)
    BY DEF Surjection
  <2> QED
    BY <1>1, <2>1, FS_Surjection
<1>3. S \subseteq SoundRequests
  BY SoundRequest
<1>4. SetToSeq(S) \in Seq(S)
  BY <1>2, SetToSeqTyped
<1> QED
  BY <1>3, <1>4 DEF Disconnects

\* Sending more sound requests, and serving one, keeps the others.
LEMMA SendTyped ==
  ASSUME CanvasInv, NEW more \in Seq(SoundRequests), Send(more)
  PROVE  requests' \in Seq(SoundRequests)
BY ConcatTyped DEF CanvasInv, Send

LEMMA ServingTyped ==
  ASSUME CanvasInv, NEW r, Serving(r)
  PROVE  /\ requests' \in Seq(SoundRequests)
         /\ r \in SoundRequests
<1>1. PICK i \in DOMAIN requests : r = requests[i] /\ requests' = RemoveAt(requests, i)
  BY DEF Serving
<1> QED
  BY <1>1, RemoveAtTyped DEF CanvasInv

-----------------------------------------------------------------------------
(* The canvas, and what it has under way *)

LEMMA CanvasInit ==
  Init => CanvasInv
BY DEF Init, CanvasInv

LEMMA AddNodeKeepsCanvas ==
  ASSUME CanvasInv, NEW n \in Nodes, AddNode(n)
  PROVE  CanvasInv'
<1>1. <<Create(n)>> \in Seq(SoundRequests)
  BY SoundRequest
<1>2. requests' \in Seq(SoundRequests)
  BY <1>1, SendTyped DEF AddNode
<1> QED
  BY <1>2 DEF CanvasInv, AddNode, runs

LEMMA RemoveNodeKeepsCanvas ==
  ASSUME CanvasInv, NEW n \in Nodes, RemoveNode(n)
  PROVE  CanvasInv'
<1>1. Touching(n) \subseteq Wires
  BY DEF CanvasInv, Touching
<1>2. Append(Disconnects(Touching(n)), Delete(n)) \in Seq(SoundRequests)
  BY <1>1, DisconnectsTyped, AppendTyped, SoundRequest
<1>3. requests' \in Seq(SoundRequests)
  BY <1>2, SendTyped DEF RemoveNode
<1> QED
  BY <1>3 DEF CanvasInv, RemoveNode, Touching, runs

LEMMA DrawKeepsCanvas ==
  ASSUME CanvasInv, NEW w \in Wires, Draw(w)
  PROVE  CanvasInv'
<1>1. SameSlot(w) \subseteq Wires
  BY DEF CanvasInv, SameSlot
<1>2. Append(Disconnects(SameSlot(w)), Connect(w)) \in Seq(SoundRequests)
  BY <1>1, DisconnectsTyped, AppendTyped, SoundRequest
<1>3. requests' \in Seq(SoundRequests)
  BY <1>2, SendTyped DEF Draw
<1> QED
  BY <1>3 DEF CanvasInv, Draw, runs

LEMMA EraseAllKeepsCanvas ==
  ASSUME CanvasInv, NEW ws, ws \subseteq Wires, EraseAll(ws), rejected' \subseteq rejected
  PROVE  CanvasInv'
<1>1. requests' \in Seq(SoundRequests)
  BY DisconnectsTyped, SendTyped DEF EraseAll
<1> QED
  BY <1>1 DEF CanvasInv, EraseAll, runs

LEMMA RunKeepsCanvas ==
  ASSUME CanvasInv, Run
  PROVE  CanvasInv'
<1>1. Payload \in SoundPayloads
  BY DEF CanvasInv, Run, Payload, Payloads, SoundPayloads
<1> QED
  BY <1>1 DEF CanvasInv, Run

LEMMA AskStartKeepsCanvas ==
  ASSUME CanvasInv, AskStart
  PROVE  CanvasInv'
<1>1. PICK p \in preparing : /\ requests' = Append(requests, Start(p)) /\ preparing' = {}
                             /\ ran' \subseteq drawn
                             /\ UNCHANGED <<nodes, drawn, rejected>>
  BY DEF AskStart
<1>2. Start(p) \in SoundRequests
  BY <1>1 DEF CanvasInv, Start, SoundPayloads, SoundRequests, Requests
<1>3. requests' \in Seq(SoundRequests)
  BY <1>1, <1>2, AppendTyped DEF CanvasInv
<1> QED
  BY <1>1, <1>3 DEF CanvasInv

\* Serving a request leaves the canvas alone; so does what follows an await.
LEMMA ServeKeepsCanvas ==
  ASSUME CanvasInv, NEW r, Serving(r), UNCHANGED canvas, rejected' \subseteq Wires
  PROVE  CanvasInv'
BY ServingTyped DEF CanvasInv, canvas, runs

LEMMA StayKeepsCanvas ==
  ASSUME CanvasInv, UNCHANGED <<canvas, requests, rejected>>
  PROVE  CanvasInv'
BY DEF CanvasInv, canvas, runs

LEMMA CanvasStep ==
  ASSUME CanvasInv, [Next]_vars
  PROVE  CanvasInv'
<1>1. CASE \E n \in Nodes : AddNode(n)
  BY <1>1, AddNodeKeepsCanvas
<1>2. CASE \E n \in Nodes : RemoveNode(n)
  BY <1>2, RemoveNodeKeepsCanvas
<1>3. CASE \E w \in Wires : Draw(w)
  BY <1>3, DrawKeepsCanvas
<1>4. CASE \E w \in Wires : Erase(w)
  <2>1. PICK w \in Wires : Erase(w)
    BY <1>4
  <2>2. EraseAll({w}) /\ rejected' \subseteq rejected
    BY <2>1 DEF Erase
  <2> QED
    BY <2>2, EraseAllKeepsCanvas
<1>5. CASE \E w \in Wires : Rejected(w)
  <2>1. PICK w \in Wires : Rejected(w)
    BY <1>5
  <2>2. EraseAll(SameSlot(w)) /\ rejected' \subseteq rejected
    BY <2>1 DEF Rejected
  <2>3. SameSlot(w) \subseteq Wires
    BY DEF CanvasInv, SameSlot
  <2> QED
    BY <2>2, <2>3, EraseAllKeepsCanvas
<1>6. CASE Run \/ AskStart
  BY <1>6, RunKeepsCanvas, AskStartKeepsCanvas
<1>7. CASE \E n \in Nodes : CreateNode(n)
  <2>1. PICK n \in Nodes : Serving(Create(n)) /\ UNCHANGED <<canvas, rejected>>
    BY <1>7 DEF CreateNode
  <2> QED
    BY <2>1, ServeKeepsCanvas DEF CanvasInv
<1>8. CASE \E n \in Nodes : DeleteNode(n)
  <2>1. PICK n \in Nodes : Serving(Delete(n)) /\ UNCHANGED <<canvas, rejected>>
    BY <1>8 DEF DeleteNode
  <2> QED
    BY <2>1, ServeKeepsCanvas DEF CanvasInv
<1>9. CASE \E n \in Nodes : DeleteReturns(n) \/ NodeInit(n)
  BY <1>9, StayKeepsCanvas DEF DeleteReturns, NodeInit
<1>10. CASE \E w \in Wires : ConnectNodes(w)
  <2>1. PICK w \in Wires : Serving(Connect(w)) /\ UNCHANGED <<canvas, rejected>>
    BY <1>10 DEF ConnectNodes
  <2> QED
    BY <2>1, ServeKeepsCanvas DEF CanvasInv
<1>11. CASE \E w \in Wires : RejectConnect(w)
  <2>1. PICK w \in Wires : /\ Serving(Connect(w)) /\ UNCHANGED canvas
                           /\ rejected' = rejected \cup {w}
    BY <1>11 DEF RejectConnect
  <2> QED
    BY <2>1, ServeKeepsCanvas DEF CanvasInv
<1>12. CASE \E w \in Wires : DisconnectNodes(w) \/ DisconnectFails(w)
  <2>1. PICK w \in Wires : Serving(Disconnect(w)) /\ UNCHANGED <<canvas, rejected>>
    BY <1>12 DEF DisconnectNodes, DisconnectFails
  <2> QED
    BY <2>1, ServeKeepsCanvas DEF CanvasInv
<1>13. CASE \E w \in Wires : DisconnectReturns(w)
  BY <1>13, StayKeepsCanvas DEF DisconnectReturns
<1>14. CASE \E r \in Range(requests) : RunSession(r)
  <2>1. PICK r \in Range(requests) : Serving(r) /\ UNCHANGED <<canvas, rejected>>
    BY <1>14 DEF RunSession
  <2> QED
    BY <2>1, ServeKeepsCanvas DEF CanvasInv
<1>15. CASE StopSession
  BY <1>15, StayKeepsCanvas DEF StopSession
<1>16. CASE UNCHANGED vars
  BY <1>16, StayKeepsCanvas DEF vars
<1> QED
  BY <1>1, <1>2, <1>3, <1>4, <1>5, <1>6, <1>7, <1>8, <1>9, <1>10, <1>11, <1>12,
     <1>13, <1>14, <1>15, <1>16 DEF Next, Canvas, Backend

-----------------------------------------------------------------------------
(* Pumps *)

\* A pump may outlive its nodes only until the deletion that sweeps it is over.
PumpsHeld == \A k \in DOMAIN pumps : {k[1], k[2]} \subseteq live \cup deleting

LEMMA PumpsStep ==
  ASSUME PumpsHeld, [Next]_vars
  PROVE  PumpsHeld'
<1>1. CASE UNCHANGED <<live, deleting, pumps>>
  BY <1>1 DEF PumpsHeld
<1>2. CASE \E n \in Nodes : CreateNode(n)
  BY <1>2 DEF PumpsHeld, CreateNode, wiring, suspended
<1>3. CASE \E n \in Nodes : DeleteNode(n)
  BY <1>3 DEF PumpsHeld, DeleteNode, suspended
<1>4. CASE \E n \in Nodes : DeleteReturns(n)
  BY <1>4 DEF PumpsHeld, DeleteReturns, Swept
<1>5. CASE \E w \in Wires : ConnectNodes(w)
  <2>1. PICK w \in Wires : /\ Found(w) /\ UNCHANGED <<live, deleting>>
                          /\ DOMAIN pumps' \subseteq DOMAIN pumps \cup {PumpKey(w)}
    BY <1>5 DEF ConnectNodes, suspended
  <2>2. {PumpKey(w)[1], PumpKey(w)[2]} \subseteq live
    BY <2>1 DEF Found, PumpKey
  <2> QED
    BY <2>1, <2>2 DEF PumpsHeld
<1>6. CASE \E w \in Wires : DisconnectNodes(w)
  BY <1>6 DEF PumpsHeld, DisconnectNodes
<1>7. CASE \E r \in Range(requests) : RunSession(r)
  BY <1>7 DEF PumpsHeld, RunSession
<1> QED
  BY <1>1, <1>2, <1>3, <1>4, <1>5, <1>6, <1>7
  DEF Next, Canvas, Backend, vars, wiring, suspended, AddNode, RemoveNode, Draw, Erase,
      EraseAll, Rejected, Run, AskStart, NodeInit, RejectConnect, DisconnectReturns,
      DisconnectFails, StopSession

\* No attribute pump outlives one of its nodes, in whatever order requests are
\* served: at every moment at which no deletion is suspended, both ends of
\* every pump in _attribute_pump_tasks are registered (delete_node's sweep).
THEOREM PumpsLive == Spec => []PumpsOfLive
<1>1. Init => PumpsHeld
  BY DEF Init, PumpsHeld
<1>2. PumpsHeld /\ [Next]_vars => PumpsHeld'
  BY PumpsStep
<1>3. PumpsHeld => PumpsOfLive
  BY DEF PumpsHeld, PumpsOfLive
<1> QED
  BY <1>1, <1>2, <1>3, PTL DEF Spec

-----------------------------------------------------------------------------
(* Pipes of self-contained nodes *)

\* In plugs, a pipe that init() made is at the port it was made for, alone.
OwnAlone(plugs, side) ==
  \A x \in plugs :
    /\ x = <<x[1], x[2], x[3]>>
    /\ x[3] \in OwnPipes => /\ x[3] = OwnPipe(side, x[1], x[2])
                            /\ Plugged(plugs, x[1], x[2]) = {x}

LEMMA OwnPipesTagged ==
  ASSUME NEW p \in OwnPipes
  PROVE  p[1] \in {"output", "input"}
BY DEF OwnPipes, OwnPipe

LEMMA OthersPipes ==
  ASSUME NEW w
  PROVE  RunPipe(w) \notin OwnPipes /\ \A p \in FreshPipes(w) : p \notin OwnPipes
BY OwnPipesTagged DEF RunPipe, FreshPipes, EdgePipes

\* Taking plugs away leaves what was alone alone.
LEMMA FewerAlone ==
  ASSUME NEW plugs, NEW side, NEW fewer, fewer \subseteq plugs, OwnAlone(plugs, side)
  PROVE  OwnAlone(fewer, side)
BY DEF OwnAlone, Plugged

LEMMA PlugAlone ==
  ASSUME NEW plugs, NEW side, OwnAlone(plugs, side), NEW n, NEW port, NEW pipe,
         pipe \notin OwnPipes
  PROVE  OwnAlone(Plug(plugs, side, n, port, pipe), side)
<1> DEFINE own == <<n, port, OwnPipe(side, n, port)>>
           new == <<n, port, pipe>>
           after == Plug(plugs, side, n, port, pipe)
<1>1. \A x \in after : x = new \/ x \in plugs
  BY DEF Plug
<1> SUFFICES ASSUME NEW x \in after, x[3] \in OwnPipes
             PROVE  /\ x[3] = OwnPipe(side, x[1], x[2])
                    /\ Plugged(after, x[1], x[2]) = {x}
  BY <1>1 DEF OwnAlone
<1>2. /\ x \in plugs /\ x = <<x[1], x[2], x[3]>>
      /\ x[3] = OwnPipe(side, x[1], x[2]) /\ Plugged(plugs, x[1], x[2]) = {x}
  BY <1>1 DEF OwnAlone
<1>3. ~ (x[1] = n /\ x[2] = port)
  <2> SUFFICES ASSUME x[1] = n, x[2] = port
               PROVE  FALSE
    OBVIOUS
  <2>1. x = own /\ Plugged(plugs, n, port) = {own}
    BY <1>2
  <2> QED
    BY <2>1 DEF Plug
<1> QED
  BY <1>2, <1>3 DEF Plug, Plugged

\* What init() makes for ports that nothing is plugged into.
LEMMA InitAlone ==
  ASSUME NEW plugs, NEW side, OwnAlone(plugs, side), NEW n, NEW more,
         \A x \in more : /\ x = <<n, x[2], OwnPipe(side, n, x[2])>>
                         /\ Plugged(plugs, n, x[2]) = {}
  PROVE  OwnAlone(plugs \cup more, side)
<1> DEFINE after == plugs \cup more
<1> SUFFICES ASSUME NEW x \in after
             PROVE  /\ x = <<x[1], x[2], x[3]>>
                    /\ x[3] \in OwnPipes => /\ x[3] = OwnPipe(side, x[1], x[2])
                                            /\ Plugged(after, x[1], x[2]) = {x}
  BY DEF OwnAlone
<1>1. CASE x \in plugs
  <2>1. \A y \in more : ~ (y[1] = x[1] /\ y[2] = x[2])
    BY <1>1 DEF Plugged
  <2>2. Plugged(after, x[1], x[2]) = Plugged(plugs, x[1], x[2])
    BY <2>1 DEF Plugged
  <2> QED
    BY <1>1, <2>2 DEF OwnAlone
<1>2. CASE x \in more
  <2>1. x = <<n, x[2], OwnPipe(side, n, x[2])>> /\ Plugged(plugs, n, x[2]) = {}
    BY <1>2
  <2>2. Plugged(after, n, x[2]) = {x}
    BY <1>2, <2>1 DEF Plugged
  <2> QED
    BY <2>1, <2>2
<1> QED
  BY <1>1, <1>2

\* A run gives its nodes new plugs, none of them made by init().
LEMMA RebuiltAlone ==
  ASSUME NEW plugs, NEW side, OwnAlone(plugs, side), NEW ns, NEW built,
         \A x \in built : x[1] \in ns /\ x = <<x[1], x[2], x[3]>> /\ x[3] \notin OwnPipes
  PROVE  OwnAlone((plugs \ PlugsOf(plugs, ns)) \cup built, side)
<1> DEFINE after == (plugs \ PlugsOf(plugs, ns)) \cup built
<1> SUFFICES ASSUME NEW x \in after, x[3] \in OwnPipes
             PROVE  /\ x[3] = OwnPipe(side, x[1], x[2])
                    /\ Plugged(after, x[1], x[2]) = {x}
  BY DEF OwnAlone
<1>1. x \in plugs /\ x[1] \notin ns
  BY DEF PlugsOf
<1>2. Plugged(after, x[1], x[2]) \subseteq Plugged(plugs, x[1], x[2])
  BY <1>1 DEF Plugged
<1>3. x \in Plugged(after, x[1], x[2])
  BY DEF Plugged
<1> QED
  BY <1>1, <1>2, <1>3 DEF OwnAlone

PlugsAlone == OwnAlone(outs, "output") /\ OwnAlone(ins, "input")

LEMMA PlugsAloneStep ==
  ASSUME CanvasInv, PlugsAlone, [Next]_vars
  PROVE  PlugsAlone'
<1>1. CASE UNCHANGED <<outs, ins>>
  BY <1>1 DEF PlugsAlone, OwnAlone, Plugged
<1>2. CASE outs' \subseteq outs /\ ins' \subseteq ins
  BY <1>2, FewerAlone DEF PlugsAlone
<1>3. CASE \E w \in Wires : ConnectNodes(w)
  <2>1. PICK w \in Wires : ConnectNodes(w)
    BY <1>3
  <2> DEFINE pipe == CHOOSE p \in FreshPipes(w) : TRUE
  <2>2. pipe \notin OwnPipes
    BY <2>1, OthersPipes DEF ConnectNodes
  <2>3. /\ outs' = Plug(outs, "output", w.source, w.sourcePort, pipe)
        /\ ins' = IF w.kind = "attribute" THEN ins
                  ELSE Plug(ins, "input", w.target, InPort(w), pipe)
    BY <2>1 DEF ConnectNodes
  <2> HIDE DEF pipe
  <2>4. OwnAlone(outs', "output")
    BY <2>2, <2>3, PlugAlone DEF PlugsAlone
  <2>5. OwnAlone(ins', "input")
    BY <2>2, <2>3, PlugAlone DEF PlugsAlone
  <2> QED
    BY <2>4, <2>5 DEF PlugsAlone
<1>4. CASE \E n \in Nodes : NodeInit(n)
  <2>1. PICK n \in Nodes : NodeInit(n)
    BY <1>4
  <2> DEFINE unwired(plugs, side, own) ==
        {<<n, o[2], OwnPipe(side, n, o[2])>> :
           o \in {o \in own : o[1] = n /\ Plugged(plugs, n, o[2]) = {}}}
             moreOuts == unwired(outs, "output", OwnOutputs)
             moreIns == unwired(ins, "input", OwnInputs)
  <2>2. outs' = outs \cup moreOuts /\ ins' = ins \cup moreIns
    BY <2>1 DEF NodeInit
  <2>3. \A x \in moreOuts : /\ x = <<n, x[2], OwnPipe("output", n, x[2])>>
                            /\ Plugged(outs, n, x[2]) = {}
    OBVIOUS
  <2>4. \A x \in moreIns : /\ x = <<n, x[2], OwnPipe("input", n, x[2])>>
                           /\ Plugged(ins, n, x[2]) = {}
    OBVIOUS
  <2> HIDE DEF moreOuts, moreIns
  <2>5. OwnAlone(outs \cup moreOuts, "output")
    BY <2>3, InitAlone DEF PlugsAlone
  <2>6. OwnAlone(ins \cup moreIns, "input")
    BY <2>4, InitAlone DEF PlugsAlone
  <2> QED
    BY <2>2, <2>5, <2>6 DEF PlugsAlone
<1>5. CASE \E r \in Range(requests) : RunSession(r)
  <2>1. PICK r \in Range(requests) : RunSession(r)
    BY <1>5
  <2>2. r.op = "run" /\ r \in SoundRequests
    BY <2>1, ServingTyped DEF RunSession
  <2> DEFINE ns == r.of.nodes
             ws == r.of.wires
             outside == {OutPlug(w, RunPipe(w)) : w \in ws}
             inside == {InPlug(w, RunPipe(w)) : w \in ws \ {w \in ws : w.kind = "attribute"}}
  <2>3. /\ outs' = (outs \ PlugsOf(outs, ns)) \cup outside
        /\ ins' = (ins \ PlugsOf(ins, ns)) \cup inside
    BY <2>1 DEF RunSession
  <2>4. \A w \in ws : w.source \in ns /\ w.target \in ns /\ RunPipe(w) \notin OwnPipes
    BY <2>2, OthersPipes DEF SoundRequests
  <2>5. \A x \in outside : x[1] \in ns /\ x = <<x[1], x[2], x[3]>> /\ x[3] \notin OwnPipes
    BY <2>4 DEF OutPlug
  <2>6. \A x \in inside : x[1] \in ns /\ x = <<x[1], x[2], x[3]>> /\ x[3] \notin OwnPipes
    BY <2>4 DEF InPlug
  <2> HIDE DEF outside, inside, ns, ws
  <2>7. OwnAlone((outs \ PlugsOf(outs, ns)) \cup outside, "output")
    BY <2>5, RebuiltAlone DEF PlugsAlone
  <2>8. OwnAlone((ins \ PlugsOf(ins, ns)) \cup inside, "input")
    BY <2>6, RebuiltAlone DEF PlugsAlone
  <2> QED
    BY <2>3, <2>7, <2>8 DEF PlugsAlone
<1> QED
  BY <1>1, <1>2, <1>3, <1>4, <1>5
  DEF Next, Canvas, Backend, vars, wiring, AddNode, RemoveNode, Draw, Erase, EraseAll,
      Rejected, Run, AskStart, CreateNode, RejectConnect, DisconnectNodes, UnplugOutput,
      UnplugInput, DisconnectReturns, DisconnectFails, DeleteNode, DeleteReturns, StopSession

\* Real wiring wins: whenever init() runs and however wires come and go, a pipe
\* that a self-contained node made for a port is the only one there
\* (add_output(), add_input() and their _if_unwired() forms).
THEOREM RealWiring == Spec => []RealWiringWins
<1>1. Init => CanvasInv /\ PlugsAlone
  BY CanvasInit DEF Init, PlugsAlone, OwnAlone
<1>2. (CanvasInv /\ PlugsAlone) /\ [Next]_vars => (CanvasInv /\ PlugsAlone)'
  BY CanvasStep, PlugsAloneStep
<1>3. PlugsAlone => RealWiringWins
  BY DEF PlugsAlone, OwnAlone, RealWiringWins
<1> QED
  BY <1>1, <1>2, <1>3, PTL DEF Spec

-----------------------------------------------------------------------------
(* The canvas as it was before the requests under way *)

CanvasStates == [nodes: SUBSET Nodes, wires: SUBSET Wires, ran: SUBSET Wires]
TheCanvas == [nodes |-> nodes, wires |-> drawn, ran |-> ran]

\* A wire has its nodes, a slot has one wire, and only valid ones were built.
Neat(c) ==
  /\ \A w \in c.wires : w.source \in c.nodes /\ w.target \in c.nodes
  /\ \A w \in c.wires : \A x \in c.wires :
       w.target = x.target /\ w.targetPort = x.targetPort => w = x
  /\ c.ran \subseteq c.wires \cap Valid

\* The request r says that the canvas went from c to d.
Edit(r, c, d) ==
  /\ r.op = "create" =>
       /\ r.of \notin c.nodes
       /\ d = [nodes |-> c.nodes \cup {r.of}, wires |-> c.wires, ran |-> c.ran]
  /\ r.op = "delete" =>
       d = [nodes |-> c.nodes \ {r.of}, wires |-> c.wires, ran |-> c.ran]
  /\ r.op = "connect" =>
       /\ r.of \notin c.wires
       /\ d = [nodes |-> c.nodes, wires |-> c.wires \cup {r.of}, ran |-> c.ran]
  /\ r.op = "disconnect" =>
       /\ r.of \in c.wires
       /\ Steady => r.of \notin c.ran
       /\ d = [nodes |-> c.nodes, wires |-> c.wires \ {r.of}, ran |-> c.ran \ {r.of}]
  /\ r.op = "run" =>
       /\ r.of = [nodes |-> c.nodes, wires |-> c.wires]
       /\ c.wires \subseteq Valid
       /\ d = [nodes |-> c.nodes, wires |-> c.wires, ran |-> c.wires]

\* g[i] is the canvas after the first i requests of s, and c the last one.  A
\* node in gone, or to be deleted, does not come back.
Hist(s, g, c, gone) ==
  /\ g \in [0 .. Len(s) -> CanvasStates]
  /\ \A i \in 0 .. Len(s) : Neat(g[i])
  /\ g[Len(s)] = c
  /\ \A i \in 1 .. Len(s) : Edit(s[i], g[i - 1], g[i])
  /\ \A i \in 0 .. Len(s) : gone \cap g[i].nodes = {}
  /\ \A i \in 1 .. Len(s) : s[i].op = "delete" =>
       \A j \in i .. Len(s) : s[i].of \notin g[j].nodes

LEMMA ExtendByOne ==
  ASSUME NEW s \in Seq(SoundRequests), NEW g, NEW c, NEW gone, Hist(s, g, c, gone),
         NEW r \in SoundRequests, NEW d \in CanvasStates, Neat(d), Edit(r, c, d),
         \A n \in d.nodes : n \in c.nodes \/ (n \notin gone /\ Delete(n) \notin Range(s)),
         r.op = "delete" => r.of \notin d.nodes
  PROVE  \E h : Hist(Append(s, r), h, d, gone) /\ h[0] = g[0]
<1> DEFINE m == Len(s)
           t == Append(s, r)
           h == [i \in 0 .. m + 1 |-> IF i <= m THEN g[i] ELSE d]
<1>1. /\ m \in Nat /\ t \in Seq(SoundRequests) /\ Len(t) = m + 1
      /\ \A i \in 1 .. m : t[i] = s[i]
      /\ t[m + 1] = r
  OBVIOUS
<1>2. g \in [0 .. m -> CanvasStates] /\ g[m] = c
  BY DEF Hist
<1>3. h \in [0 .. Len(t) -> CanvasStates] /\ h[Len(t)] = d /\ h[0] = g[0]
  BY <1>1, <1>2
<1>4. \A i \in 0 .. m : h[i] = g[i]
  BY <1>1
<1>5. \A i \in 0 .. Len(t) : i \in 0 .. m \/ i = m + 1
  BY <1>1
<1> HIDE DEF h, t
<1>6. \A i \in 0 .. Len(t) : Neat(h[i])
  BY <1>1, <1>3, <1>4, <1>5 DEF Hist
<1>7. ASSUME NEW i \in 1 .. Len(t)
      PROVE  Edit(t[i], h[i - 1], h[i])
  <2>1. CASE i \in 1 .. m
    <3>1. t[i] = s[i] /\ h[i - 1] = g[i - 1] /\ h[i] = g[i]
      BY <1>1, <1>4, <2>1
    <3> QED
      BY <2>1, <3>1 DEF Hist
  <2>2. CASE i = m + 1
    <3>1. t[i] = r /\ h[i - 1] = c /\ h[i] = d
      BY <1>1, <1>2, <1>3, <1>4, <2>2
    <3> QED
      BY <3>1
  <2> QED
    BY <1>1, <1>7, <2>1, <2>2
<1>8. \A n \in d.nodes : n \notin gone
  BY <1>1, <1>2 DEF Hist
<1>9. \A i \in 0 .. Len(t) : gone \cap h[i].nodes = {}
  BY <1>1, <1>3, <1>4, <1>5, <1>8 DEF Hist
<1>10. ASSUME NEW i \in 1 .. Len(t), t[i].op = "delete", NEW j \in i .. Len(t)
       PROVE  t[i].of \notin h[j].nodes
  <2>1. CASE i = m + 1
    BY <1>1, <1>3, <1>10, <2>1
  <2>2. CASE i \in 1 .. m
    <3>1. t[i] = s[i] /\ s[i] \in Range(s) /\ s[i] \in SoundRequests
      BY <1>1, <2>2 DEF Range
    <3>2. s[i] = Delete(s[i].of)
      BY <1>10, <3>1 DEF Delete, SoundRequests, Requests
    <3>3. \A k \in i .. m : s[i].of \notin g[k].nodes
      BY <1>10, <2>2, <3>1 DEF Hist
    <3>4. m \in i .. m
      BY <1>1, <2>2
    <3>5. s[i].of \notin d.nodes
      BY <1>2, <3>1, <3>2, <3>3, <3>4
    <3> QED
      BY <1>1, <1>3, <1>4, <3>1, <3>3, <3>5, <2>2
  <2> QED
    BY <1>1, <1>10, <2>1, <2>2
<1>11. Hist(t, h, d, gone)
  BY <1>3, <1>6, <1>7, <1>9, <1>10 DEF Hist
<1> QED
  BY <1>3, <1>11 DEF t

LEMMA SetToSeqExact ==
  ASSUME NEW S, IsFiniteSet(S)
  PROVE  /\ SetToSeq(S) \in Seq(S)
         /\ \A x \in S : \E i \in 1 .. Len(SetToSeq(S)) : SetToSeq(S)[i] = x
         /\ \A i, j \in 1 .. Len(SetToSeq(S)) : SetToSeq(S)[i] = SetToSeq(S)[j] => i = j
<1> DEFINE n == Cardinality(S)
           t == SetToSeq(S)
<1>1. n \in Nat /\ ExistsBijection(1 .. n, S)
  BY FS_CardinalityType
<1>2. \E f \in [1 .. n -> S] : IsInjective(f)
  <2>1. PICK f : f \in Bijection(1 .. n, S)
    BY <1>1 DEF ExistsBijection
  <2>2. f \in [1 .. n -> S] /\ IsInjective(f)
    BY <2>1 DEF Bijection, Injection, IsInjective
  <2> QED
    BY <2>2
<1>3. t \in [1 .. n -> S] /\ IsInjective(t)
  BY <1>2 DEF SetToSeq
<1> HIDE DEF n, t
<1>4. t \in Injection(1 .. n, S)
  BY <1>3 DEF Injection, IsInjective
<1>5. Cardinality(1 .. n) = n
  BY <1>1, FS_Interval
<1>6. t \in Surjection(1 .. n, S)
  BY <1>4, <1>5, FS_Injection DEF n
<1>7. t \in Seq(S) /\ Len(t) = n
  BY <1>1, <1>3
<1>8. \A x \in S : \E i \in 1 .. n : t[i] = x
  BY <1>6 DEF Surjection
<1>9. \A i, j \in 1 .. n : t[i] = t[j] => i = j
  BY <1>3 DEF IsInjective
<1> QED
  BY <1>7, <1>8, <1>9 DEF t

\* There is just one disconnect for each of the wires.
LEMMA DisconnectsExact ==
  ASSUME NEW ws, ws \subseteq Wires, NEW D, D = Disconnects(ws)
  PROVE  /\ D \in Seq(SoundRequests)
         /\ \A i \in 1 .. Len(D) : D[i].of \in ws /\ D[i] = Disconnect(D[i].of)
         /\ \A w \in ws : \E i \in 1 .. Len(D) : D[i].of = w
         /\ \A i, j \in 1 .. Len(D) : D[i].of = D[j].of => i = j
<1> DEFINE S == {Disconnect(w) : w \in ws}
<1>1. IsFiniteSet(ws)
  BY WiringAssumption, FS_Subset DEF WiringAssumption
<1>2. IsFiniteSet(S)
  <2> DEFINE f == [w \in ws |-> Disconnect(w)]
  <2>1. f \in Surjection(ws, S)
    BY DEF Surjection
  <2> QED
    BY <1>1, <2>1, FS_Surjection
<1>3. \A x \in S : x.of \in ws /\ x = Disconnect(x.of)
  BY DEF Disconnect
<1>4. \A w \in ws : Disconnect(w) \in S /\ Disconnect(w).of = w
  BY DEF Disconnect
<1>5. D = SetToSeq(S)
  BY DEF Disconnects
<1> HIDE DEF S
<1>6. /\ D \in Seq(S)
      /\ \A x \in S : \E i \in 1 .. Len(D) : D[i] = x
      /\ \A i, j \in 1 .. Len(D) : D[i] = D[j] => i = j
  BY <1>2, <1>5, SetToSeqExact
<1>7. \A i \in 1 .. Len(D) : D[i] \in S
  BY <1>6
<1>8. D \in Seq(SoundRequests)
  BY DisconnectsTyped
<1> QED
  BY <1>3, <1>4, <1>6, <1>7, <1>8

Without(c, ws) == [nodes |-> c.nodes, wires |-> c.wires \ ws, ran |-> c.ran \ ws]

LEMMA WithoutNeat ==
  ASSUME NEW c \in CanvasStates, Neat(c), NEW ws
  PROVE  Without(c, ws) \in CanvasStates /\ Neat(Without(c, ws))
BY DEF CanvasStates, Neat, Without

LEMMA ExtendByDisconnects ==
  ASSUME NEW s \in Seq(SoundRequests), NEW g, NEW c, NEW gone, Hist(s, g, c, gone),
         NEW ws, ws \subseteq c.wires, Steady => ws \cap c.ran = {}
  PROVE  \E h : Hist(s \o Disconnects(ws), h, Without(c, ws), gone) /\ h[0] = g[0]
<1> DEFINE m == Len(s)
           D == Disconnects(ws)
           k == Len(D)
           t == s \o D
           off(i) == {D[j].of : j \in 1 .. i}
           h == [i \in 0 .. m + k |-> IF i <= m THEN g[i] ELSE Without(c, off(i - m))]
<1>1. g \in [0 .. m -> CanvasStates] /\ g[m] = c /\ m \in Nat
  BY DEF Hist
<1>2. c \in CanvasStates /\ Neat(c) /\ ws \subseteq Wires
  BY <1>1 DEF Hist, CanvasStates
<1>3. /\ D \in Seq(SoundRequests)
      /\ \A i \in 1 .. k : D[i].of \in ws /\ D[i] = Disconnect(D[i].of)
      /\ \A w \in ws : \E i \in 1 .. k : D[i].of = w
      /\ \A i, j \in 1 .. k : D[i].of = D[j].of => i = j
  BY <1>2, DisconnectsExact
<1> HIDE DEF D
<1>4. /\ k \in Nat /\ t \in Seq(SoundRequests) /\ Len(t) = m + k
      /\ \A i \in 1 .. m : t[i] = s[i]
      /\ \A i \in 1 .. k : t[m + i] = D[i]
  BY <1>1, <1>3, ConcatTyped
<1>5. off(0) = {} /\ off(k) = ws
  BY <1>3
<1>6. \A i \in 1 .. k : off(i) = off(i - 1) \cup {D[i].of} /\ D[i].of \notin off(i - 1)
  <2> SUFFICES ASSUME NEW i \in 1 .. k
               PROVE  off(i) = off(i - 1) \cup {D[i].of} /\ D[i].of \notin off(i - 1)
    OBVIOUS
  <2>1. 1 .. i = (1 .. i - 1) \cup {i} /\ \A j \in 1 .. i - 1 : j \in 1 .. k /\ j # i
    BY <1>4
  <2>2. D[i].of \notin off(i - 1)
    BY <1>3, <2>1
  <2>3. off(i) = off(i - 1) \cup {D[i].of}
    BY <2>1
  <2> QED
    BY <2>2, <2>3
<1> HIDE DEF off
<1>7. Without(c, {}) = c
  BY <1>2 DEF Without, CanvasStates
<1>8. \A i \in 0 .. m : h[i] = g[i]
  BY <1>1, <1>4
<1>9. \A i \in 0 .. k : h[m + i] = Without(c, off(i))
  <2> SUFFICES ASSUME NEW i \in 0 .. k
               PROVE  h[m + i] = Without(c, off(i))
    OBVIOUS
  <2>1. CASE i = 0
    <3>1. h[m] = c /\ m + i = m
      BY <1>1, <1>8, <2>1
    <3>2. Without(c, off(i)) = c
      BY <1>5, <1>7, <2>1
    <3> QED
      BY <3>1, <3>2
  <2>2. CASE i # 0
    <3>1. ~ (m + i <= m) /\ m + i \in 0 .. m + k /\ (m + i) - m = i
      BY <1>1, <1>4, <2>2
    <3> QED
      BY <3>1
  <2> QED
    BY <2>1, <2>2
<1>10. \A i \in 0 .. k : Without(c, off(i)) \in CanvasStates /\ Neat(Without(c, off(i)))
  BY <1>2, WithoutNeat
<1>11. \A i \in 0 .. Len(t) : i \in 0 .. m \/ (i - m \in 1 .. k /\ i = m + (i - m))
  BY <1>1, <1>4
<1>0. \A i \in 0 .. Len(t) : i - m \in 1 .. k /\ i = m + (i - m) =>
        /\ i - m \in 0 .. k
        /\ h[i] = Without(c, off(i - m))
  <2> SUFFICES ASSUME NEW i \in 0 .. Len(t), NEW j \in 1 .. k, i = m + j, j = i - m
               PROVE  j \in 0 .. k /\ h[i] = Without(c, off(j))
    OBVIOUS
  <2>1. j \in 0 .. k
    BY <1>4
  <2> HIDE DEF h
  <2> QED
    BY <1>9, <2>1
<1>12. \A i \in 0 .. Len(t) : h[i] \in CanvasStates /\ Neat(h[i])
  <2> SUFFICES ASSUME NEW i \in 0 .. Len(t)
               PROVE  h[i] \in CanvasStates /\ Neat(h[i])
    OBVIOUS
  <2> HIDE DEF h
  <2>1. CASE i \in 0 .. m
    BY <1>1, <1>8, <2>1 DEF Hist
  <2>2. CASE i - m \in 1 .. k /\ i = m + (i - m)
    BY <1>0, <1>10, <2>2
  <2> QED
    BY <1>11, <2>1, <2>2
<1>13. h \in [0 .. Len(t) -> CanvasStates] /\ h[Len(t)] = Without(c, ws) /\ h[0] = g[0]
  <2>1. h[Len(t)] = Without(c, ws)
    BY <1>4, <1>5, <1>9
  <2>2. h[0] = g[0]
    BY <1>1, <1>8
  <2>3. h = [i \in 0 .. Len(t) |-> h[i]]
    BY <1>4
  <2> HIDE DEF h
  <2> QED
    BY <1>12, <2>1, <2>2, <2>3
<1> HIDE DEF h, t
<1>14. ASSUME NEW i \in 1 .. Len(t)
       PROVE  Edit(t[i], h[i - 1], h[i])
  <2>1. CASE i \in 1 .. m
    <3>1. t[i] = s[i] /\ h[i - 1] = g[i - 1] /\ h[i] = g[i]
      BY <1>1, <1>4, <1>8, <2>1
    <3> QED
      BY <2>1, <3>1 DEF Hist
  <2>2. CASE i - m \in 1 .. k /\ i = m + (i - m)
    <3> DEFINE j == i - m
               w == D[j].of
    <3>1. j \in 1 .. k /\ j - 1 \in 0 .. k /\ j \in 0 .. k /\ i - 1 = m + (j - 1) /\ i = m + j
      BY <1>1, <1>4, <2>2
    <3>2. h[i - 1] = Without(c, off(j - 1)) /\ h[i] = Without(c, off(j))
      BY <1>9, <3>1
    <3>3. /\ t[i] = Disconnect(w) /\ w \in ws
          /\ off(j) = off(j - 1) \cup {w} /\ w \notin off(j - 1)
      BY <1>3, <1>4, <1>6, <3>1
    <3> DEFINE before == Without(c, off(j - 1))
               after == Without(c, off(j))
    <3> HIDE DEF j, w
    <3>4. w \in before.wires /\ (Steady => w \notin before.ran)
      BY <3>3 DEF Without
    <3>5. after = [nodes |-> before.nodes, wires |-> before.wires \ {w},
                   ran |-> before.ran \ {w}]
      BY <3>3 DEF Without
    <3> HIDE DEF before, after
    <3>6. Edit(Disconnect(w), before, after)
      BY <3>4, <3>5 DEF Edit, Disconnect
    <3> QED
      BY <3>2, <3>3, <3>6 DEF before, after
  <2> QED
    BY <1>1, <1>4, <1>11, <1>14, <2>1, <2>2
<1>15. \A i \in 0 .. Len(t) : gone \cap h[i].nodes = {} /\ (i \notin 0 .. m => h[i].nodes = c.nodes)
  <2> SUFFICES ASSUME NEW i \in 0 .. Len(t)
               PROVE  gone \cap h[i].nodes = {} /\ (i \notin 0 .. m => h[i].nodes = c.nodes)
    OBVIOUS
  <2>1. CASE i \in 0 .. m
    BY <1>8, <2>1 DEF Hist
  <2>2. CASE i - m \in 1 .. k /\ i = m + (i - m)
    <3>1. \A ys : Without(c, ys).nodes = c.nodes
      BY DEF Without
    <3>3. h[i] = Without(c, off(i - m))
      BY <1>0, <2>2
    <3>2. gone \cap c.nodes = {}
      BY <1>1 DEF Hist
    <3> QED
      BY <3>1, <3>2, <3>3
  <2> QED
    BY <1>11, <2>1, <2>2
<1>16. ASSUME NEW i \in 1 .. Len(t), t[i].op = "delete", NEW j \in i .. Len(t)
       PROVE  t[i].of \notin h[j].nodes
  <2>1. CASE i \in 1 .. m
    <3>1. t[i] = s[i] /\ m \in i .. m
      BY <1>1, <1>4, <2>1
    <3>2. \A n \in i .. m : s[i].of \notin g[n].nodes
      BY <1>16, <2>1, <3>1 DEF Hist
    <3>3. s[i].of \notin c.nodes
      BY <1>1, <3>1, <3>2
    <3>4. j \in 0 .. Len(t) /\ (j \in 0 .. m => j \in i .. m)
      BY <1>1, <1>4
    <3> QED
      BY <1>8, <1>15, <3>1, <3>2, <3>3, <3>4
  <2>2. CASE i - m \in 1 .. k /\ i = m + (i - m)
    <3>1. t[i] = Disconnect(D[i - m].of)
      BY <1>3, <1>4, <2>2
    <3> QED
      BY <1>16, <3>1 DEF Disconnect
  <2> QED
    BY <1>1, <1>4, <1>11, <1>16, <2>1, <2>2
<1>17. Hist(t, h, Without(c, ws), gone)
  BY <1>12, <1>13, <1>14, <1>15, <1>16 DEF Hist
<1> QED
  BY <1>13, <1>17 DEF t, D

\* The first request is served: the backend has seen one more edit.
LEMMA SeeOneMore ==
  ASSUME NEW s \in Seq(SoundRequests), NEW g, NEW c, NEW gone, Hist(s, g, c, gone),
         1 \in DOMAIN s, NEW left, left \subseteq gone \cup {n \in {s[1].of} : s[1].op = "delete"}
  PROVE  \E h : Hist(RemoveAt(s, 1), h, c, left) /\ h[0] = g[1]
<1> DEFINE m == Len(s)
           t == RemoveAt(s, 1)
           h == [i \in 0 .. m - 1 |-> g[i + 1]]
<1>1. m \in Nat /\ m >= 1 /\ g \in [0 .. m -> CanvasStates] /\ g[m] = c
  BY DEF Hist
<1>2. t = SubSeq(s, 2, m)
  <2>1. SubSeq(s, 1, 0) = <<>>
    OBVIOUS
  <2>2. SubSeq(s, 2, m) \in Seq(SoundRequests)
    BY <1>1
  <2>3. t = <<>> \o SubSeq(s, 2, m)
    BY <2>1 DEF RemoveAt
  <2> QED
    BY <2>2, <2>3
<1>3. Len(t) = m - 1 /\ \A i \in 1 .. m - 1 : t[i] = s[i + 1]
  BY <1>1, <1>2
<1>4. h \in [0 .. m - 1 -> CanvasStates] /\ h[0] = g[1] /\ h[m - 1] = c
  BY <1>1
<1>5. \A i \in 0 .. m - 1 : h[i] = g[i + 1] /\ i + 1 \in 0 .. m
  BY <1>1
<1> HIDE DEF h, t
<1>6. \A i \in 0 .. m - 1 : Neat(h[i])
  BY <1>5 DEF Hist
<1>7. ASSUME NEW i \in 1 .. m - 1
      PROVE  Edit(t[i], h[i - 1], h[i])
  <2>1. i + 1 \in 1 .. m /\ (i + 1) - 1 = i /\ i - 1 \in 0 .. m - 1 /\ (i - 1) + 1 = i
    BY <1>1, <1>7
  <2>2. h[i - 1] = g[i] /\ h[i] = g[i + 1] /\ t[i] = s[i + 1]
    BY <1>3, <1>5, <1>7, <2>1
  <2>3. Edit(s[i + 1], g[(i + 1) - 1], g[i + 1])
    BY <2>1 DEF Hist
  <2> QED
    BY <2>1, <2>2, <2>3
<1>8. ASSUME NEW i \in 0 .. m - 1
      PROVE  left \cap h[i].nodes = {}
  <2>1. h[i] = g[i + 1] /\ i + 1 \in 0 .. m /\ i + 1 \in 1 .. m /\ 1 \in 1 .. m
    BY <1>1, <1>5, <1>8
  <2>2. gone \cap g[i + 1].nodes = {}
    BY <2>1 DEF Hist
  <2>3. s[1].op = "delete" => s[1].of \notin g[i + 1].nodes
    BY <2>1 DEF Hist
  <2> QED
    BY <2>1, <2>2, <2>3
<1>9. ASSUME NEW i \in 1 .. m - 1, t[i].op = "delete", NEW j \in i .. m - 1
      PROVE  t[i].of \notin h[j].nodes
  <2>1. i + 1 \in 1 .. m /\ j + 1 \in (i + 1) .. m /\ j \in 0 .. m - 1
    BY <1>1, <1>9
  <2>2. t[i] = s[i + 1] /\ h[j] = g[j + 1]
    BY <1>3, <1>5, <2>1
  <2> QED
    BY <1>9, <2>1, <2>2 DEF Hist
<1>10. Hist(t, h, c, left)
  BY <1>3, <1>4, <1>6, <1>7, <1>8, <1>9 DEF Hist
<1> QED
  BY <1>4, <1>10 DEF t

\* The backend is where the canvas was before the requests under way; what it
\* refused was not valid.
CanvasSeen(g) ==
  /\ Hist(requests, g, TheCanvas, deleting)
  /\ g[0].nodes = live
  /\ rejected \cap Valid = {}

LEMMA AppendConcat ==
  ASSUME NEW S, NEW s \in Seq(S), NEW t \in Seq(S), NEW x \in S
  PROVE  s \o Append(t, x) = Append(s \o t, x) /\ s \o <<x>> = Append(s, x)
OBVIOUS

LEMMA LastSeen ==
  ASSUME CanvasInv, NEW g, CanvasSeen(g)
  PROVE  TheCanvas \in CanvasStates /\ Neat(TheCanvas)
BY DEF CanvasSeen, Hist

\* What the canvas sends for one change: disconnects first.
LEMMA SeenSent ==
  ASSUME CanvasInv, NEW g, CanvasSeen(g), UNCHANGED <<live, deleting>>,
         rejected' \subseteq rejected,
         NEW ws, ws \subseteq drawn, Steady => ws \cap ran = {},
         NEW r \in SoundRequests, Send(Append(Disconnects(ws), r)),
         TheCanvas' \in CanvasStates, Neat(TheCanvas'),
         Edit(r, Without(TheCanvas, ws), TheCanvas'), nodes' \subseteq nodes,
         r.op = "delete" => r.of \notin nodes'
  PROVE  \E h : CanvasSeen(h)' /\ h[0] = g[0]
<1> DEFINE c == TheCanvas
           d == TheCanvas'
           mid == requests \o Disconnects(ws)
<1>1. requests \in Seq(SoundRequests) /\ Disconnects(ws) \in Seq(SoundRequests)
  BY DisconnectsTyped DEF CanvasInv
<1>2. mid \in Seq(SoundRequests) /\ requests' = Append(mid, r)
  BY <1>1, ConcatTyped, AppendConcat DEF Send
<1>3. Hist(requests, g, c, deleting) /\ ws \subseteq c.wires /\ (Steady => ws \cap c.ran = {})
  BY DEF CanvasSeen, TheCanvas
<1>4. PICK f : Hist(mid, f, Without(c, ws), deleting) /\ f[0] = g[0]
  BY <1>1, <1>3, ExtendByDisconnects
<1>5. /\ \A n \in d.nodes : n \in Without(c, ws).nodes
      /\ r.op = "delete" => r.of \notin d.nodes
  BY DEF TheCanvas, Without
<1>0. d \in CanvasStates /\ Neat(d) /\ Edit(r, Without(c, ws), d)
  OBVIOUS
<1> HIDE DEF c, d, mid
<1>6. PICK h : Hist(Append(mid, r), h, d, deleting) /\ h[0] = f[0]
  BY <1>0, <1>2, <1>4, <1>5, ExtendByOne
<1>7. CanvasSeen(h)'
  BY <1>2, <1>4, <1>6 DEF CanvasSeen, d
<1> QED
  BY <1>4, <1>6, <1>7

LEMMA SeenAddNode ==
  ASSUME CanvasInv, NEW g, CanvasSeen(g), NEW n \in Nodes, AddNode(n)
  PROVE  \E h : CanvasSeen(h)' /\ h[0] = g[0]
<1> DEFINE c == TheCanvas
           d == TheCanvas'
<1>1. c \in CanvasStates /\ Neat(c)
  BY LastSeen
<1>2. d = [nodes |-> c.nodes \cup {n}, wires |-> c.wires, ran |-> c.ran]
  BY DEF AddNode, TheCanvas
<1>3. n \notin c.nodes /\ n \notin deleting /\ Delete(n) \notin Range(requests)
  BY DEF AddNode, Unused, TheCanvas
<1>4. requests \in Seq(SoundRequests) /\ Create(n) \in SoundRequests
  BY SoundRequest DEF CanvasInv
<1>5. requests' = Append(requests, Create(n))
  BY <1>4, AppendConcat DEF AddNode, Send
<1>6. Hist(requests, g, c, deleting)
  BY DEF CanvasSeen
<1> HIDE DEF c, d
<1>7. d \in CanvasStates /\ Neat(d)
  BY <1>1, <1>2 DEF CanvasStates, Neat
<1>8. Edit(Create(n), c, d)
  BY <1>2, <1>3 DEF Edit, Create
<1>9. /\ \A m \in d.nodes : m \in c.nodes \/ (m \notin deleting /\ Delete(m) \notin Range(requests))
      /\ Create(n).op # "delete"
  BY <1>2, <1>3 DEF Create
<1>10. PICK h : Hist(Append(requests, Create(n)), h, d, deleting) /\ h[0] = g[0]
  BY <1>4, <1>6, <1>7, <1>8, <1>9, ExtendByOne
<1>11. UNCHANGED <<live, deleting, rejected>>
  BY DEF AddNode, suspended
<1> QED
  BY <1>5, <1>10, <1>11 DEF CanvasSeen, d

LEMMA SeenRemoveNode ==
  ASSUME CanvasInv, NEW g, CanvasSeen(g), NEW n \in Nodes, RemoveNode(n)
  PROVE  \E h : CanvasSeen(h)' /\ h[0] = g[0]
<1> DEFINE ws == Touching(n)
           c == Without(TheCanvas, ws)
           d == TheCanvas'
<1>1. ws \subseteq drawn /\ (Steady => ws \cap ran = {})
  BY DEF Touching, RemoveNode, MayErase, Steady
<1>2. c \in CanvasStates /\ Neat(c)
  BY LastSeen, WithoutNeat
<1>3. d = [nodes |-> c.nodes \ {n}, wires |-> c.wires, ran |-> c.ran]
  BY DEF RemoveNode, TheCanvas, Without
<1>4. \A w \in c.wires : w.source # n /\ w.target # n
  BY DEF Without, TheCanvas, Touching
<1>5. /\ Send(Append(Disconnects(ws), Delete(n))) /\ Delete(n) \in SoundRequests
      /\ nodes' \subseteq nodes /\ n \notin nodes'
      /\ UNCHANGED <<live, deleting, rejected>>
  BY SoundRequest DEF RemoveNode, suspended
<1>6. Delete(n).of = n
  BY DEF Delete
<1> HIDE DEF ws, c, d
<1>7. d \in CanvasStates /\ Neat(d)
  BY <1>2, <1>3, <1>4 DEF CanvasStates, Neat
<1>8. Edit(Delete(n), c, d)
  BY <1>3 DEF Edit, Delete
<1> QED
  BY <1>1, <1>5, <1>6, <1>7, <1>8, SeenSent DEF c, d

LEMMA SeenDraw ==
  ASSUME CanvasInv, NEW g, CanvasSeen(g), NEW w \in Wires, Draw(w)
  PROVE  \E h : CanvasSeen(h)' /\ h[0] = g[0]
<1> DEFINE ws == SameSlot(w)
           c == Without(TheCanvas, ws)
           d == TheCanvas'
<1>1. ws \subseteq drawn /\ (Steady => ws \cap ran = {}) /\ w \notin drawn
  BY DEF SameSlot, Draw, MayErase, Steady
<1>2. c \in CanvasStates /\ Neat(c)
  BY LastSeen, WithoutNeat
<1>3. d = [nodes |-> c.nodes, wires |-> c.wires \cup {w}, ran |-> c.ran]
  BY DEF Draw, TheCanvas, Without
<1>4. \A x \in c.wires : ~ (x.target = w.target /\ x.targetPort = w.targetPort)
  BY DEF Without, TheCanvas, SameSlot
<1>5. w \notin c.wires /\ w.source \in c.nodes /\ w.target \in c.nodes
  BY <1>1 DEF Draw, Without, TheCanvas
<1>6. /\ Send(Append(Disconnects(ws), Connect(w))) /\ Connect(w) \in SoundRequests
      /\ nodes' \subseteq nodes
      /\ UNCHANGED <<live, deleting, rejected>>
  BY SoundRequest DEF Draw, suspended
<1>7. Connect(w).op # "delete"
  BY DEF Connect
<1> HIDE DEF ws, c, d
<1>8. d \in CanvasStates
  BY <1>2, <1>3 DEF CanvasStates
<1>9. Neat(d)
  BY <1>2, <1>3, <1>4, <1>5 DEF Neat
<1>10. Edit(Connect(w), c, d)
  BY <1>3, <1>5 DEF Edit, Connect
<1> QED
  BY <1>1, <1>6, <1>7, <1>8, <1>9, <1>10, SeenSent DEF c, d

LEMMA SeenErase ==
  ASSUME CanvasInv, NEW g, CanvasSeen(g), NEW ws, ws \subseteq drawn, EraseAll(ws),
         Steady => ws \cap ran = {}, rejected' \subseteq rejected
  PROVE  \E h : CanvasSeen(h)' /\ h[0] = g[0]
<1> DEFINE c == TheCanvas
<1>1. requests \in Seq(SoundRequests) /\ requests' = requests \o Disconnects(ws)
  BY DEF CanvasInv, EraseAll, Send
<1>2. Hist(requests, g, c, deleting) /\ ws \subseteq c.wires /\ (Steady => ws \cap c.ran = {})
  BY DEF CanvasSeen, TheCanvas
<1>3. PICK h : Hist(requests \o Disconnects(ws), h, Without(c, ws), deleting) /\ h[0] = g[0]
  BY <1>1, <1>2, ExtendByDisconnects
<1>4. TheCanvas' = Without(c, ws) /\ UNCHANGED <<live, deleting>>
  BY DEF EraseAll, TheCanvas, Without, suspended
<1> HIDE DEF c
<1> QED
  BY <1>1, <1>3, <1>4 DEF CanvasSeen

LEMMA SeenRun ==
  ASSUME NEW g, CanvasSeen(g), Run
  PROVE  CanvasSeen(g)'
BY DEF CanvasSeen, Run, TheCanvas, suspended, Hist

\* The start that is asked for is of what is drawn.
LEMMA SeenAskStart ==
  ASSUME CanvasInv, NEW g, CanvasSeen(g), AskStart, ~ outdated'
  PROVE  \E h : CanvasSeen(h)' /\ h[0] = g[0]
<1> DEFINE c == TheCanvas
           d == TheCanvas'
           start == Start(Payload)
<1>0. /\ Payload \in preparing /\ requests' = Append(requests, start)
      /\ ran' = drawn \cap Payload.wires
      /\ UNCHANGED <<nodes, drawn, live, deleting, rejected>>
  BY DEF AskStart, suspended
<1>1. c \in CanvasStates /\ Neat(c)
  BY LastSeen
<1>2. d = [nodes |-> c.nodes, wires |-> c.wires, ran |-> c.wires] /\ c.wires \subseteq Valid
  BY <1>0 DEF TheCanvas, Payload, CanvasInv, SoundPayloads
<1>3. requests \in Seq(SoundRequests) /\ start \in SoundRequests
  BY DEF CanvasInv, Start, Payload, Payloads, SoundRequests, Requests
<1>4. requests' = Append(requests, start)
  BY <1>0
<1>5. Hist(requests, g, c, deleting) /\ UNCHANGED <<live, deleting, rejected>>
  BY <1>0 DEF CanvasSeen
<1>6. Edit(start, c, d)
  BY <1>2 DEF Edit, Start, Payload, TheCanvas
<1>7. start.op # "delete"
  BY DEF Start
<1> HIDE DEF c, d, start
<1>8. d \in CanvasStates /\ Neat(d)
  BY <1>1, <1>2 DEF CanvasStates, Neat
<1>9. \A m \in d.nodes : m \in c.nodes
  BY <1>2
<1>10. PICK h : Hist(Append(requests, start), h, d, deleting) /\ h[0] = g[0]
  BY <1>3, <1>5, <1>6, <1>7, <1>8, <1>9, ExtendByOne
<1> QED
  BY <1>4, <1>5, <1>10 DEF CanvasSeen, d

\* In order, it is the first request that is served.
LEMMA HeadServed ==
  ASSUME CanvasInv, inOrder, NEW g, CanvasSeen(g), NEW r, Serving(r)
  PROVE  /\ 1 \in DOMAIN requests /\ r = requests[1] /\ requests' = RemoveAt(requests, 1)
         /\ r \in SoundRequests
         /\ g[0] \in CanvasStates /\ Neat(g[0]) /\ g[1] \in CanvasStates /\ Neat(g[1])
         /\ Edit(r, g[0], g[1])
<1>1. 1 \in DOMAIN requests /\ r = requests[1] /\ requests' = RemoveAt(requests, 1)
  BY DEF Serving
<1>2. requests \in Seq(SoundRequests)
  BY DEF CanvasInv
<1>3. 1 \in 1 .. Len(requests) /\ 0 \in 0 .. Len(requests) /\ 1 \in 0 .. Len(requests)
  BY <1>1, <1>2
<1>4. Hist(requests, g, TheCanvas, deleting)
  BY DEF CanvasSeen
<1>5. Edit(requests[1], g[1 - 1], g[1])
  BY <1>3, <1>4 DEF Hist
<1>6. g[0] \in CanvasStates /\ Neat(g[0]) /\ g[1] \in CanvasStates /\ Neat(g[1])
  BY <1>3, <1>4 DEF Hist
<1> QED
  BY <1>1, <1>2, <1>3, <1>5, <1>6

LEMMA SeenServed ==
  ASSUME CanvasInv, inOrder, NEW g, CanvasSeen(g), NEW r, Serving(r), UNCHANGED canvas,
         live' = g[1].nodes, rejected' \cap Valid = {},
         deleting' \subseteq deleting \cup {n \in {r.of} : r.op = "delete"}
  PROVE  \E h : CanvasSeen(h)' /\ h[0] = g[1]
<1>1. /\ 1 \in DOMAIN requests /\ r = requests[1] /\ requests' = RemoveAt(requests, 1)
  BY HeadServed
<1>2. Hist(requests, g, TheCanvas, deleting) /\ requests \in Seq(SoundRequests)
  BY DEF CanvasSeen, CanvasInv
<1>3. TheCanvas' = TheCanvas
  BY DEF canvas, TheCanvas
<1> DEFINE left == deleting'
           c == TheCanvas
<1>4. left \subseteq deleting \cup {n \in {requests[1].of} : requests[1].op = "delete"}
  BY <1>1
<1> HIDE DEF left, c
<1>5. PICK h : Hist(RemoveAt(requests, 1), h, c, left) /\ h[0] = g[1]
  BY <1>1, <1>2, <1>4, SeeOneMore DEF c
<1> QED
  BY <1>1, <1>3, <1>5 DEF CanvasSeen, left, c

LEMMA SeenStays ==
  ASSUME CanvasInv, NEW g, CanvasSeen(g), UNCHANGED <<canvas, requests, rejected, live>>,
         deleting' \subseteq deleting
  PROVE  CanvasSeen(g)'
BY DEF CanvasSeen, canvas, TheCanvas, Hist

\* The backend goes from the canvas c to the canvas d.
Moves(c, d) ==
  \/ c = d /\ UNCHANGED <<wiring, unwiring>>
  \/ \E n \in Nodes : \/ CreateNode(n) /\ Edit(Create(n), c, d)
                      \/ DeleteNode(n) /\ Edit(Delete(n), c, d)
                      \/ (DeleteReturns(n) \/ NodeInit(n)) /\ c = d
  \/ \E w \in Wires : \/ ConnectNodes(w) /\ Edit(Connect(w), c, d)
                      \/ RejectConnect(w) /\ w \notin Valid /\ Edit(Connect(w), c, d)
                      \/ DisconnectNodes(w) /\ Edit(Disconnect(w), c, d)
                      \/ DisconnectReturns(w) /\ c = d
  \/ StopSession /\ c = d
  \/ \E r \in SoundRequests : RunSession(r) /\ Edit(r, c, d)

\* What is known of the canvas that the backend has seen.
SeenState(c) == c \in CanvasStates /\ Neat(c) /\ c.nodes = live /\ deleting \cap c.nodes = {}

LEMMA SeenStateHolds ==
  ASSUME CanvasInv, NEW g, CanvasSeen(g)
  PROVE  SeenState(g[0])
<1>1. 0 \in 0 .. Len(requests)
  BY DEF CanvasInv
<1> QED
  BY <1>1 DEF CanvasSeen, Hist, SeenState

LEMMA SeenStep ==
  ASSUME CanvasInv, inOrder, ~ outdated', NEW g, CanvasSeen(g), [Next]_vars
  PROVE  \E h : CanvasSeen(h)' /\ Moves(g[0], h[0])
<1> DEFINE c == g[0]
           e == g[1]
           Goal == \E h : CanvasSeen(h)' /\ Moves(g[0], h[0])
<1>0. SeenState(c)
  BY SeenStateHolds
<1>00. ASSUME NEW r, Serving(r), UNCHANGED canvas, live' = e.nodes, rejected' \cap Valid = {},
              deleting' \subseteq deleting \cup {n \in {r.of} : r.op = "delete"},
              Edit(r, c, e) => Moves(c, e)
       PROVE  Goal
  <2>1. Edit(r, c, e)
    BY <1>00, HeadServed
  <2>2. \E h : CanvasSeen(h)' /\ h[0] = g[1]
    BY <1>00, SeenServed
  <2> QED
    BY <1>00, <2>1, <2>2
<1>000. ASSUME \E h : CanvasSeen(h)' /\ h[0] = g[0], UNCHANGED <<wiring, unwiring>>
        PROVE  Goal
  BY <1>000 DEF Moves
<1>1. CASE \E n \in Nodes : AddNode(n)
  BY <1>1, <1>000, SeenAddNode DEF AddNode, suspended
<1>2. CASE \E n \in Nodes : RemoveNode(n)
  BY <1>2, <1>000, SeenRemoveNode DEF RemoveNode, suspended
<1>3. CASE \E w \in Wires : Draw(w)
  BY <1>3, <1>000, SeenDraw DEF Draw, suspended
<1>4. CASE \E w \in Wires : Erase(w)
  <2>1. PICK w \in Wires : Erase(w)
    BY <1>4
  <2>2. /\ EraseAll({w}) /\ {w} \subseteq drawn /\ rejected' \subseteq rejected
        /\ Steady => {w} \cap ran = {}
    BY <2>1 DEF Erase, MayErase, Steady
  <2>3. \E h : CanvasSeen(h)' /\ h[0] = g[0]
    BY <2>2, SeenErase
  <2>4. UNCHANGED <<wiring, unwiring>>
    BY <2>2 DEF EraseAll, suspended
  <2> QED
    BY <1>000, <2>3, <2>4
<1>5. CASE \E w \in Wires : Rejected(w)
  <2>1. PICK w \in Wires : Rejected(w)
    BY <1>5
  <2> DEFINE ws == SameSlot(w)
  <2>2. EraseAll(ws) /\ ws \subseteq drawn /\ rejected' \subseteq rejected
    BY <2>1 DEF Rejected, SameSlot
  <2>3. w \in Wires \ Valid
    BY <2>1 DEF Rejected, CanvasSeen
  <2>4. ran \subseteq Valid
    BY LastSeen DEF TheCanvas, Neat
  <2>5. Steady => ws \cap ran = {}
    BY <2>3, <2>4 DEF Steady, ShareAPort, SameSlot
  <2> HIDE DEF ws
  <2>6. \E h : CanvasSeen(h)' /\ h[0] = g[0]
    BY <2>2, <2>5, SeenErase
  <2>7. UNCHANGED <<wiring, unwiring>>
    BY <2>2 DEF EraseAll, suspended
  <2> QED
    BY <1>000, <2>6, <2>7
<1>6. CASE Run \/ AskStart
  <2>1. UNCHANGED <<wiring, unwiring>>
    BY <1>6 DEF Run, AskStart, suspended
  <2>2. \E h : CanvasSeen(h)' /\ h[0] = g[0]
    BY <1>6, SeenRun, SeenAskStart
  <2> QED
    BY <1>000, <2>1, <2>2
<1>7. CASE \E n \in Nodes : CreateNode(n)
  <2>1. PICK n \in Nodes : CreateNode(n)
    BY <1>7
  <2>2. /\ Serving(Create(n)) /\ UNCHANGED canvas /\ rejected' \cap Valid = {}
        /\ live' = live \cup {n} /\ deleting' = deleting
    BY <2>1 DEF CreateNode, suspended, CanvasSeen
  <2>3. Edit(Create(n), c, e)
    BY <2>2, HeadServed
  <2>4. live' = e.nodes
    BY <1>0, <2>2, <2>3 DEF Edit, Create, SeenState
  <2>5. Edit(Create(n), c, e) => Moves(c, e)
    BY <2>1 DEF Moves
  <2> QED
    BY <1>00, <2>2, <2>4, <2>5
<1>8. CASE \E n \in Nodes : DeleteNode(n)
  <2>1. PICK n \in Nodes : DeleteNode(n)
    BY <1>8
  <2>2. /\ Serving(Delete(n)) /\ UNCHANGED canvas /\ rejected' \cap Valid = {}
        /\ live' = live \ {n} /\ deleting' \subseteq deleting \cup {n}
    BY <2>1 DEF DeleteNode, suspended, CanvasSeen
  <2>3. Edit(Delete(n), c, e)
    BY <2>2, HeadServed
  <2>4. live' = e.nodes
    BY <1>0, <2>2, <2>3 DEF Edit, Delete, SeenState
  <2>5. Edit(Delete(n), c, e) => Moves(c, e)
    BY <2>1 DEF Moves
  <2>6. deleting' \subseteq deleting \cup {m \in {Delete(n).of} : Delete(n).op = "delete"}
    BY <2>2 DEF Delete
  <2> QED
    BY <1>00, <2>2, <2>4, <2>5, <2>6
<1>9. CASE \E n \in Nodes : DeleteReturns(n) \/ NodeInit(n)
  <2>1. PICK n \in Nodes : DeleteReturns(n) \/ NodeInit(n)
    BY <1>9
  <2>2. UNCHANGED <<canvas, requests, rejected, live>> /\ deleting' \subseteq deleting
    BY <2>1 DEF DeleteReturns, NodeInit, suspended
  <2>3. CanvasSeen(g)'
    BY <2>2, SeenStays
  <2>4. Moves(c, c)
    BY <2>1 DEF Moves
  <2> QED
    BY <2>3, <2>4
<1>10. CASE \E w \in Wires : ConnectNodes(w)
  <2>1. PICK w \in Wires : ConnectNodes(w)
    BY <1>10
  <2>2. /\ Serving(Connect(w)) /\ UNCHANGED canvas /\ rejected' \cap Valid = {}
        /\ live' = live /\ deleting' = deleting
    BY <2>1 DEF ConnectNodes, suspended, CanvasSeen
  <2>3. Edit(Connect(w), c, e)
    BY <2>2, HeadServed
  <2>4. live' = e.nodes
    BY <1>0, <2>2, <2>3 DEF Edit, Connect, SeenState
  <2>5. Edit(Connect(w), c, e) => Moves(c, e)
    BY <2>1 DEF Moves
  <2> QED
    BY <1>00, <2>2, <2>4, <2>5
<1>11. CASE \E w \in Wires : RejectConnect(w)
  <2>1. PICK w \in Wires : RejectConnect(w)
    BY <1>11
  <2>2. /\ Serving(Connect(w)) /\ UNCHANGED canvas /\ rejected' = rejected \cup {w}
        /\ live' = live /\ deleting' = deleting
    BY <2>1 DEF RejectConnect, suspended
  <2>3. Edit(Connect(w), c, e) /\ Neat(e)
    BY <2>2, HeadServed
  <2>4. live' = e.nodes
    BY <1>0, <2>2, <2>3 DEF Edit, Connect, SeenState
  <2>5. w.source \in live /\ w.target \in live
    BY <2>2, <2>3, <2>4 DEF Edit, Connect, Neat
  <2>6. w \notin Valid
    BY <2>1, <2>5 DEF RejectConnect, Found
  <2>7. rejected' \cap Valid = {}
    BY <2>2, <2>6 DEF CanvasSeen
  <2>8. Edit(Connect(w), c, e) => Moves(c, e)
    BY <2>1, <2>6 DEF Moves
  <2> QED
    BY <1>00, <2>2, <2>4, <2>7, <2>8
<1>12. CASE \E w \in Wires : DisconnectNodes(w)
  <2>1. PICK w \in Wires : DisconnectNodes(w)
    BY <1>12
  <2>2. /\ Serving(Disconnect(w)) /\ UNCHANGED canvas /\ rejected' \cap Valid = {}
        /\ live' = live /\ deleting' = deleting
    BY <2>1 DEF DisconnectNodes, suspended, CanvasSeen
  <2>3. Edit(Disconnect(w), c, e)
    BY <2>2, HeadServed
  <2>4. live' = e.nodes
    BY <1>0, <2>2, <2>3 DEF Edit, Disconnect, SeenState
  <2>5. Edit(Disconnect(w), c, e) => Moves(c, e)
    BY <2>1 DEF Moves
  <2> QED
    BY <1>00, <2>2, <2>4, <2>5
<1>13. CASE \E w \in Wires : DisconnectFails(w)
  <2>1. PICK w \in Wires : DisconnectFails(w)
    BY <1>13
  <2>2. Edit(Disconnect(w), c, e) /\ Neat(c)
    BY <2>1, HeadServed DEF DisconnectFails
  <2>3. w.source \in c.nodes /\ w.target \in c.nodes
    BY <2>2 DEF Edit, Disconnect, Neat
  <2> QED
    BY <1>0, <2>1, <2>3 DEF DisconnectFails, Found, SeenState
<1>14. CASE \E w \in Wires : DisconnectReturns(w)
  <2>1. PICK w \in Wires : DisconnectReturns(w)
    BY <1>14
  <2>2. UNCHANGED <<canvas, requests, rejected, live>> /\ deleting' \subseteq deleting
    BY <2>1 DEF DisconnectReturns, suspended
  <2>3. CanvasSeen(g)'
    BY <2>2, SeenStays
  <2>4. Moves(c, c)
    BY <2>1 DEF Moves
  <2> QED
    BY <2>3, <2>4
<1>15. CASE \E r \in Range(requests) : RunSession(r)
  <2>1. PICK r \in Range(requests) : RunSession(r)
    BY <1>15
  <2>2. /\ Serving(r) /\ r.op = "run" /\ UNCHANGED canvas /\ rejected' \cap Valid = {}
        /\ live' = live \cup r.of.nodes /\ deleting' = deleting
    BY <2>1 DEF RunSession, CanvasSeen
  <2>3. Edit(r, c, e) /\ r \in SoundRequests
    BY <2>2, HeadServed
  <2>4. live' = e.nodes
    BY <1>0, <2>2, <2>3 DEF Edit, SeenState
  <2>5. Edit(r, c, e) => Moves(c, e)
    BY <2>1, <2>3 DEF Moves
  <2> QED
    BY <1>00, <2>2, <2>4, <2>5
<1>16. CASE StopSession
  <2>1. UNCHANGED <<canvas, requests, rejected, live>> /\ deleting' \subseteq deleting
    BY <1>16 DEF StopSession, suspended
  <2>2. CanvasSeen(g)'
    BY <2>1, SeenStays
  <2>3. Moves(c, c)
    BY <1>16 DEF Moves
  <2> QED
    BY <2>2, <2>3
<1>17. CASE UNCHANGED vars
  <2>1. CanvasSeen(g)'
    BY <1>17, SeenStays DEF vars, suspended
  <2>2. Moves(c, c)
    BY <1>17 DEF Moves, vars, suspended
  <2> QED
    BY <2>1, <2>2
<1> HIDE DEF Goal
<1> QED
  BY <1>1, <1>2, <1>3, <1>4, <1>5, <1>6, <1>7, <1>8, <1>9, <1>10, <1>11, <1>12,
     <1>13, <1>14, <1>15, <1>16, <1>17 DEF Next, Canvas, Backend

-----------------------------------------------------------------------------
(* Targets of triggers *)

\* A mention of a target is there for each wire, and for each disconnect of it
\* that has still to remove one.
Mentions(ws, un, e) ==
  {m \in Targeting \X Nat : /\ Pair(m[1]) = e
                            /\ IF m[2] = 0 THEN m[1] \in ws ELSE m[2] <= un[m[1]]}

Counted(ws, un, ts) ==
  /\ un \in [Wires -> Nat]
  /\ ts \in [Nodes \X Nodes -> Nat]
  /\ \A e \in Nodes \X Nodes : /\ IsFiniteSet(Mentions(ws, un, e))
                               /\ ts[e] = Cardinality(Mentions(ws, un, e))

LEMMA PairTyped ==
  ASSUME NEW w \in Wires
  PROVE  Pair(w) \in Nodes \X Nodes
BY WiringAssumption DEF WiringAssumption, Pair

LEMMA TargetingTyped ==
  Targeting \subseteq Wires
BY WiringAssumption DEF WiringAssumption, Targeting

LEMMA SameCounted ==
  ASSUME NEW ws, NEW un, NEW ts, Counted(ws, un, ts), NEW xs, NEW vn, vn \in [Wires -> Nat],
         \A w \in Targeting : (w \in xs <=> w \in ws) /\ vn[w] = un[w]
  PROVE  Counted(xs, vn, ts)
<1>1. ASSUME NEW e \in Nodes \X Nodes
      PROVE  Mentions(xs, vn, e) = Mentions(ws, un, e)
  BY DEF Mentions
<1> QED
  BY <1>1 DEF Counted

LEMMA OneMention ==
  ASSUME NEW ws, NEW un, NEW ts, Counted(ws, un, ts), NEW w \in Targeting, w \notin ws
  PROVE  Counted(ws \cup {w}, un, [ts EXCEPT ![Pair(w)] = @ + 1])
<1> DEFINE xs == ws \cup {w}
           us == [ts EXCEPT ![Pair(w)] = @ + 1]
<1>1. Pair(w) \in Nodes \X Nodes
  BY PairTyped, TargetingTyped
<1>2. us \in [Nodes \X Nodes -> Nat]
  BY <1>1 DEF Counted
<1>3. ASSUME NEW e \in Nodes \X Nodes
      PROVE  IsFiniteSet(Mentions(xs, un, e)) /\ us[e] = Cardinality(Mentions(xs, un, e))
  <2> DEFINE S == Mentions(ws, un, e)
             T == Mentions(xs, un, e)
  <2>1. IsFiniteSet(S) /\ ts[e] = Cardinality(S) /\ ts[e] \in Nat
    BY DEF Counted
  <2>2. CASE e = Pair(w)
    <3>1. <<w, 0>> \notin S
      BY DEF Mentions
    <3>2. T = S \cup {<<w, 0>>}
      BY <2>2 DEF Mentions
    <3>3. us[e] = ts[e] + 1
      BY <2>2, <1>1 DEF Counted
    <3> HIDE DEF S, T, us
    <3>4. IsFiniteSet(T) /\ Cardinality(T) = Cardinality(S) + 1
      BY <2>1, <3>1, <3>2, FS_AddElement
    <3> QED
      BY <2>1, <3>3, <3>4 DEF T
  <2>3. CASE e # Pair(w)
    <3>1. T = S
      BY <2>3 DEF Mentions
    <3>2. us[e] = ts[e]
      BY <2>3 DEF Counted
    <3> QED
      BY <2>1, <3>1, <3>2
  <2> QED
    BY <2>2, <2>3
<1> QED
  BY <1>2, <1>3 DEF Counted

\* A wire goes, and the mention made for it waits for its disconnect.
LEMMA MentionLeft ==
  ASSUME NEW ws, NEW un, NEW ts, Counted(ws, un, ts), NEW w \in Wires, w \in ws
  PROVE  Counted(ws \ {w}, [un EXCEPT ![w] = @ + 1], ts)
<1> DEFINE xs == ws \ {w}
           vn == [un EXCEPT ![w] = @ + 1]
<1>1. vn \in [Wires -> Nat] /\ un \in [Wires -> Nat] /\ ts \in [Nodes \X Nodes -> Nat]
  BY DEF Counted
<1>2. CASE w \notin Targeting
  <2>1. \A x \in Targeting : (x \in xs <=> x \in ws) /\ vn[x] = un[x]
    BY <1>1, <1>2, TargetingTyped
  <2> QED
    BY <1>1, <2>1, SameCounted
<1>3. CASE w \in Targeting
  <2>1. ASSUME NEW e \in Nodes \X Nodes
        PROVE  IsFiniteSet(Mentions(xs, vn, e)) /\ ts[e] = Cardinality(Mentions(xs, vn, e))
    <3> DEFINE S == Mentions(ws, un, e)
               T == Mentions(xs, vn, e)
               R == S \ {<<w, 0>>}
               new == <<w, un[w] + 1>>
    <3>1. IsFiniteSet(S) /\ ts[e] = Cardinality(S) /\ ts[e] \in Nat
      BY DEF Counted
    <3>2. CASE e = Pair(w)
      <4>1. <<w, 0>> \in S
        BY <1>3, <3>2 DEF Mentions
      <4>2. new \notin R
        BY <1>1 DEF Mentions
      <4>3. T = R \cup {new}
        <5>1. new \in T
          BY <1>1, <1>3, <3>2 DEF Mentions
        <5>2. \A x \in Targeting : vn[x] = IF x = w THEN un[x] + 1 ELSE un[x]
          BY <1>1, TargetingTyped
        <5>3. \A x \in Targeting : un[x] \in Nat
          BY <1>1, TargetingTyped
        <5>4. ASSUME NEW x \in Targeting, NEW k \in Nat
              PROVE  <<x, k>> \in T <=> (<<x, k>> \in R \/ <<x, k>> = new)
          BY <1>3, <3>2, <5>2, <5>3 DEF Mentions
        <5>5. T \subseteq Targeting \X Nat /\ R \cup {new} \subseteq Targeting \X Nat
          BY <1>1, <1>3 DEF Mentions
        <5> HIDE DEF T, R, new
        <5> QED
          BY <5>4, <5>5
      <4> HIDE DEF S, T, new
      <4>4. IsFiniteSet(R) /\ Cardinality(R) = Cardinality(S) - 1
        BY <3>1, <4>1, FS_RemoveElement
      <4> HIDE DEF R
      <4>5. IsFiniteSet(T) /\ Cardinality(T) = Cardinality(R) + 1
        BY <4>2, <4>3, <4>4, FS_AddElement
      <4>6. IsFiniteSet(T) /\ ts[e] = Cardinality(T)
        BY <3>1, <4>4, <4>5
      <4> QED
        BY <4>6 DEF T
    <3>3. CASE e # Pair(w)
      <4>1. \A x \in Targeting : x # w => vn[x] = un[x]
        BY <1>1, TargetingTyped
      <4>2. T = S
        BY <3>3, <4>1 DEF Mentions
      <4> QED
        BY <3>1, <4>2
    <3> QED
      BY <3>2, <3>3
  <2> QED
    BY <1>1, <2>1 DEF Counted
<1> QED
  BY <1>2, <1>3

Less(ts, w) == [ts EXCEPT ![Pair(w)] = IF @ = 0 THEN 0 ELSE @ - 1]

\* Removing a target where there never is one changes nothing.
LEMMA NoneLess ==
  ASSUME TargetsApart, NEW ws, NEW un, NEW ts, Counted(ws, un, ts),
         NEW w \in Wires, w \notin Targeting
  PROVE  Less(ts, w) = ts
<1>1. Mentions(ws, un, Pair(w)) = {}
  BY DEF TargetsApart, Mentions
<1>2. Pair(w) \in Nodes \X Nodes
  BY PairTyped
<1>3. ts[Pair(w)] = 0 /\ ts \in [Nodes \X Nodes -> Nat]
  BY <1>1, <1>2, FS_EmptySet DEF Counted
<1> QED
  BY <1>2, <1>3 DEF Less

LEMMA MentionRemoved ==
  ASSUME TargetsApart, NEW ws, NEW un, NEW ts, Counted(ws, un, ts), NEW w \in Wires, un[w] > 0
  PROVE  Counted(ws, [un EXCEPT ![w] = @ - 1], Less(ts, w))
<1> DEFINE vn == [un EXCEPT ![w] = @ - 1]
           us == Less(ts, w)
<1>1. /\ vn \in [Wires -> Nat] /\ un \in [Wires -> Nat] /\ ts \in [Nodes \X Nodes -> Nat]
      /\ un[w] \in Nat /\ Pair(w) \in Nodes \X Nodes
  BY PairTyped DEF Counted
<1>2. CASE w \notin Targeting
  <2>1. \A x \in Targeting : (x \in ws <=> x \in ws) /\ vn[x] = un[x]
    BY <1>1, <1>2, TargetingTyped
  <2>2. us = ts
    BY <1>2, NoneLess
  <2> HIDE DEF vn, us
  <2>3. Counted(ws, vn, ts)
    BY <1>1, <2>1, SameCounted
  <2> QED
    BY <2>2, <2>3 DEF vn, us
<1>3. CASE w \in Targeting
  <2>1. us \in [Nodes \X Nodes -> Nat]
    BY <1>1 DEF Less
  <2>2. ASSUME NEW e \in Nodes \X Nodes
        PROVE  IsFiniteSet(Mentions(ws, vn, e)) /\ us[e] = Cardinality(Mentions(ws, vn, e))
    <3> DEFINE S == Mentions(ws, un, e)
               T == Mentions(ws, vn, e)
               old == <<w, un[w]>>
    <3>1. IsFiniteSet(S) /\ ts[e] = Cardinality(S) /\ ts[e] \in Nat
      BY DEF Counted
    <3>2. CASE e = Pair(w)
      <4>1. old \in S
        BY <1>1, <1>3, <3>2 DEF Mentions
      <4>2. T = S \ {old}
        <5>1. \A x \in Targeting : vn[x] = IF x = w THEN un[x] - 1 ELSE un[x]
          BY <1>1, TargetingTyped
        <5>2. \A x \in Targeting : un[x] \in Nat
          BY <1>1, TargetingTyped
        <5>3. ASSUME NEW x \in Targeting, NEW k \in Nat
              PROVE  <<x, k>> \in T <=> (<<x, k>> \in S /\ <<x, k>> # old)
          BY <1>1, <1>3, <3>2, <5>1, <5>2 DEF Mentions
        <5>4. T \subseteq Targeting \X Nat /\ S \subseteq Targeting \X Nat
          BY DEF Mentions
        <5> HIDE DEF T, S, old
        <5> QED
          BY <5>3, <5>4
      <4> HIDE DEF S, T, old
      <4>3. IsFiniteSet(T) /\ Cardinality(T) = Cardinality(S) - 1
        BY <3>1, <4>1, <4>2, FS_RemoveElement
      <4>4. Cardinality(S) # 0
        BY <3>1, <4>1, FS_EmptySet
      <4>5. us[e] = ts[e] - 1
        BY <1>1, <3>1, <3>2, <4>4 DEF Less
      <4> QED
        BY <3>1, <4>3, <4>5 DEF T
    <3>3. CASE e # Pair(w)
      <4>1. \A x \in Targeting : x # w => vn[x] = un[x]
        BY <1>1, TargetingTyped
      <4>2. T = S
        BY <3>3, <4>1 DEF Mentions
      <4>3. us[e] = ts[e]
        BY <1>1, <3>3 DEF Less
      <4> QED
        BY <3>1, <4>2, <4>3
    <3> QED
      BY <3>2, <3>3
  <2> QED
    BY <1>1, <2>1, <2>2 DEF Counted
<1> QED
  BY <1>2, <1>3

\* With nothing to be removed, the mentions are the wires.
LEMMA MentionsAreWires ==
  ASSUME NEW ws, NEW un, NEW e, ws \subseteq Valid,
         \A w \in Targeting : Pair(w) = e => un[w] = 0
  PROVE  /\ IsFiniteSet(Mentions(ws, un, e))
         /\ Cardinality(Mentions(ws, un, e)) =
              Cardinality({w \in ws : w.kind = "control" /\ Pair(w) = e})
<1> DEFINE S == {w \in ws : w.kind = "control" /\ Pair(w) = e}
           T == Mentions(ws, un, e)
           f == [w \in S |-> <<w, 0>>]
<1>1. T = {<<w, 0>> : w \in S}
  BY DEF Mentions, Targeting
<1>2. IsFiniteSet(S)
  BY WiringAssumption, FS_Subset DEF WiringAssumption
<1> HIDE DEF S, T
<1>0. f \in [S -> T] /\ (\A x, y \in S : f[x] = f[y] => x = y) /\ \A m \in T : \E x \in S : f[x] = m
  BY <1>1
<1>3. f \in Bijection(S, T)
  BY <1>0 DEF Bijection, Injection, Surjection, IsInjective
<1>4. ExistsBijection(S, T)
  BY <1>3 DEF ExistsBijection
<1> QED
  BY <1>2, <1>4, FS_Bijection DEF S, T

\* What Discard(ns, nt) does, and that nt is the right number for new nodes.
Discarded(un, vn, ts, us, ns, nt) ==
  /\ vn = [w \in Wires |-> IF w.source \in ns THEN 0 ELSE un[w]]
  /\ us = [e \in Nodes \X Nodes |-> IF e[1] \in ns THEN nt[e] ELSE ts[e]]

CountedAnew(ws, vn, ns, nt) ==
  \A e \in Nodes \X Nodes : e[1] \in ns =>
    /\ IsFiniteSet(Mentions(ws, vn, e))
    /\ nt[e] = Cardinality(Mentions(ws, vn, e))

LEMMA DiscardCounted ==
  ASSUME NEW ws, NEW un, NEW ts, Counted(ws, un, ts), NEW ns, NEW nt, NEW vn, NEW us,
         Discarded(un, vn, ts, us, ns, nt), CountedAnew(ws, vn, ns, nt)
  PROVE  Counted(ws, vn, us)
<1> USE DEF Discarded, CountedAnew
<1>1. vn \in [Wires -> Nat]
  BY DEF Counted
<1>2. ASSUME NEW e \in Nodes \X Nodes
      PROVE  /\ IsFiniteSet(Mentions(ws, vn, e))
             /\ us[e] = Cardinality(Mentions(ws, vn, e))
  <2>1. CASE e[1] \in ns
    BY <2>1
  <2>2. CASE e[1] \notin ns
    <3>1. \A x \in Targeting : Pair(x) = e => vn[x] = un[x]
      BY <2>2, TargetingTyped DEF Pair
    <3>2. Mentions(ws, vn, e) = Mentions(ws, un, e)
      BY <3>1 DEF Mentions
    <3> QED
      BY <2>2, <3>2 DEF Counted
  <2> QED
    BY <2>1, <2>2
<1>3. us \in [Nodes \X Nodes -> Nat]
  <2>1. \A e \in Nodes \X Nodes : us[e] \in Nat
    BY <1>2, FS_CardinalityType
  <2> QED
    BY <2>1
<1> QED
  BY <1>1, <1>2, <1>3 DEF Counted

\* The list of targets agrees with the canvas that the backend has seen.
TargetsSeen(c) == Counted(c.wires, unwiring, targets)

LEMMA TargetsStep ==
  ASSUME TargetsApart, NEW c, NEW d, TargetsSeen(c), Moves(c, d), Neat(d), d.nodes = live'
  PROVE  TargetsSeen(d)'
<1> DEFINE ws == c.wires
<1>0. Counted(ws, unwiring, targets) /\ unwiring \in [Wires -> Nat]
  BY DEF TargetsSeen, Counted
<1>1. CASE c = d /\ UNCHANGED <<wiring, unwiring>>
  BY <1>1 DEF TargetsSeen, wiring
<1>2. CASE \E n \in Nodes : CreateNode(n) /\ Edit(Create(n), c, d)
  <2>1. d.wires = ws /\ UNCHANGED <<targets, unwiring>>
    BY <1>2 DEF Edit, Create, CreateNode, wiring, suspended
  <2> QED
    BY <1>0, <2>1 DEF TargetsSeen
<1>3. CASE \E n \in Nodes : DeleteNode(n) /\ Edit(Delete(n), c, d)
  <2>1. PICK n \in Nodes : DeleteNode(n) /\ Edit(Delete(n), c, d)
    BY <1>3
  <2>2. d.wires = ws
    BY <2>1 DEF Edit, Delete
  <2>3. CASE n \in live
    <3> DEFINE zero == [e \in Nodes \X Nodes |-> 0]
               un == unwiring
               vn == unwiring'
               ts == targets
               us == targets'
               ns == {n}
    <3>1. /\ vn = [w \in Wires |-> IF w.source \in ns THEN 0 ELSE un[w]]
          /\ us = [e \in Nodes \X Nodes |-> IF e[1] \in ns THEN zero[e] ELSE ts[e]]
      BY <2>1, <2>3 DEF DeleteNode, Discard
    <3>2. \A w \in ws : w.source # n
      BY <2>1, <2>2, <2>3 DEF Neat, DeleteNode
    <3>3. ASSUME NEW e \in Nodes \X Nodes, e[1] \in ns
          PROVE  /\ IsFiniteSet(Mentions(ws, vn, e))
                 /\ zero[e] = Cardinality(Mentions(ws, vn, e))
      <4>1. \A x \in Targeting : Pair(x) = e => x \notin ws /\ vn[x] = 0
        BY <3>1, <3>2, <3>3, TargetingTyped DEF Pair
      <4>2. Mentions(ws, vn, e) = {}
        BY <4>1 DEF Mentions
      <4> QED
        BY <4>2, FS_EmptySet
    <3> HIDE DEF zero, un, vn, ts, us, ns
    <3>4. Discarded(un, vn, ts, us, ns, zero) /\ CountedAnew(ws, vn, ns, zero)
      BY <3>1, <3>3 DEF Discarded, CountedAnew
    <3>5. Counted(ws, un, ts)
      BY <1>0 DEF un, ts
    <3> HIDE DEF ws
    <3>6. Counted(ws, vn, us)
      BY <3>4, <3>5, DiscardCounted
    <3> QED
      BY <2>2, <3>6 DEF TargetsSeen, vn, us
  <2>4. CASE n \notin live
    BY <1>0, <2>1, <2>2, <2>4 DEF DeleteNode, TargetsSeen, suspended
  <2> QED
    BY <2>3, <2>4
<1>4. CASE \E n \in Nodes : (DeleteReturns(n) \/ NodeInit(n)) /\ c = d
  BY <1>4 DEF TargetsSeen, DeleteReturns, NodeInit, suspended
<1>5. CASE \E w \in Wires : ConnectNodes(w) /\ Edit(Connect(w), c, d)
  <2>1. PICK w \in Wires : ConnectNodes(w) /\ Edit(Connect(w), c, d)
    BY <1>5
  <2>2. d.wires = ws \cup {w} /\ w \notin ws
    BY <2>1 DEF Edit, Connect
  <2>3. /\ unwiring' = unwiring /\ w \in Valid
        /\ targets' = IF w.kind # "control" THEN targets
                      ELSE [targets EXCEPT ![Pair(w)] = @ + 1]
    BY <2>1 DEF ConnectNodes, suspended, Pair
  <2>4. CASE w.kind = "control"
    <3>1. Counted(ws \cup {w}, unwiring, [targets EXCEPT ![Pair(w)] = @ + 1])
      BY <1>0, <2>2, <2>3, <2>4, OneMention DEF Targeting
    <3> QED
      BY <2>2, <2>3, <2>4, <3>1 DEF TargetsSeen
  <2>5. CASE w.kind # "control"
    <3> DEFINE xs == ws \cup {w}
    <3>1. \A x \in Targeting : (x \in xs <=> x \in ws) /\ unwiring[x] = unwiring[x]
      BY <2>5 DEF Targeting
    <3> HIDE DEF xs
    <3>2. Counted(xs, unwiring, targets)
      BY <1>0, <3>1, SameCounted
    <3> QED
      BY <2>2, <2>3, <2>5, <3>2 DEF TargetsSeen, xs
  <2> QED
    BY <2>4, <2>5
<1>6. CASE \E w \in Wires : RejectConnect(w) /\ w \notin Valid /\ Edit(Connect(w), c, d)
  <2>1. PICK w \in Wires : RejectConnect(w) /\ w \notin Valid /\ Edit(Connect(w), c, d)
    BY <1>6
  <2> DEFINE xs == d.wires
  <2>2. xs = ws \cup {w} /\ UNCHANGED <<targets, unwiring>>
    BY <2>1 DEF Edit, Connect, RejectConnect, wiring, suspended
  <2>3. \A x \in Targeting : (x \in xs <=> x \in ws) /\ unwiring[x] = unwiring[x]
    BY <2>1, <2>2 DEF Targeting
  <2> HIDE DEF xs
  <2>4. Counted(xs, unwiring, targets)
    BY <1>0, <2>3, SameCounted
  <2> QED
    BY <2>2, <2>4 DEF TargetsSeen, xs
<1>7. CASE \E w \in Wires : DisconnectNodes(w) /\ Edit(Disconnect(w), c, d)
  <2>1. PICK w \in Wires : DisconnectNodes(w) /\ Edit(Disconnect(w), c, d)
    BY <1>7
  <2> DEFINE xs == ws \ {w}
  <2>2. d.wires = xs /\ w \in ws
    BY <2>1 DEF Edit, Disconnect
  <2>3. CASE w.kind = "control"
    <3>1. unwiring' = [unwiring EXCEPT ![w] = @ + 1] /\ targets' = targets
      BY <2>1, <2>3 DEF DisconnectNodes
    <3>2. Counted(ws \ {w}, [unwiring EXCEPT ![w] = @ + 1], targets)
      BY <1>0, <2>2, MentionLeft
    <3> QED
      BY <2>2, <3>1, <3>2 DEF TargetsSeen
  <2>4. CASE w.kind # "control"
    <3>1. unwiring' = unwiring /\ targets' = Less(targets, w)
      BY <2>1, <2>4 DEF DisconnectNodes, Untarget, Less, Pair
    <3>2. w \notin Targeting
      BY <2>4 DEF Targeting
    <3>3. targets' = targets
      BY <1>0, <3>1, <3>2, NoneLess
    <3>4. \A x \in Targeting : (x \in xs <=> x \in ws) /\ unwiring[x] = unwiring[x]
      BY <3>2
    <3> HIDE DEF xs
    <3>5. Counted(xs, unwiring, targets)
      BY <1>0, <3>4, SameCounted
    <3> QED
      BY <2>2, <3>1, <3>3, <3>5 DEF TargetsSeen
  <2> QED
    BY <2>3, <2>4
<1>8. CASE \E w \in Wires : DisconnectReturns(w) /\ c = d
  <2>1. PICK w \in Wires : DisconnectReturns(w) /\ c = d
    BY <1>8
  <2>2. /\ unwiring[w] > 0 /\ unwiring' = [unwiring EXCEPT ![w] = @ - 1]
        /\ targets' = Less(targets, w)
    BY <2>1 DEF DisconnectReturns, Untarget, Less, Pair
  <2>3. Counted(ws, [unwiring EXCEPT ![w] = @ - 1], Less(targets, w))
    BY <1>0, <2>2, MentionRemoved
  <2> QED
    BY <2>1, <2>2, <2>3 DEF TargetsSeen
<1>9. CASE \E r \in SoundRequests : RunSession(r) /\ Edit(r, c, d)
  <2>1. PICK r \in SoundRequests : RunSession(r) /\ Edit(r, c, d)
    BY <1>9
  <2>2. d.wires = ws /\ r.of.wires = ws /\ ws \subseteq Valid
    BY <2>1 DEF Edit, RunSession
  <2> DEFINE ns == r.of.nodes
             built(e) == {w \in ws : w.kind = "control" /\ Pair(w) = e}
             nt == [e \in Nodes \X Nodes |-> Cardinality(built(e))]
             un == unwiring
             vn == unwiring'
             ts == targets
             us == targets'
  <2>3. /\ vn = [w \in Wires |-> IF w.source \in ns THEN 0 ELSE un[w]]
        /\ us = [e \in Nodes \X Nodes |-> IF e[1] \in ns THEN nt[e] ELSE ts[e]]
    BY <2>1, <2>2 DEF RunSession, Discard, Pair
  <2>4. ASSUME NEW e \in Nodes \X Nodes, e[1] \in ns
        PROVE  /\ IsFiniteSet(Mentions(ws, vn, e))
               /\ nt[e] = Cardinality(Mentions(ws, vn, e))
    <3>1. \A x \in Targeting : Pair(x) = e => vn[x] = 0
      BY <2>3, <2>4, TargetingTyped DEF Pair
    <3>2. nt[e] = Cardinality(built(e))
      OBVIOUS
    <3> HIDE DEF vn, nt
    <3> QED
      BY <2>2, <3>1, <3>2, MentionsAreWires
  <2> HIDE DEF nt, un, vn, ts, us, ns
  <2>5. Discarded(un, vn, ts, us, ns, nt) /\ CountedAnew(ws, vn, ns, nt)
    BY <2>3, <2>4 DEF Discarded, CountedAnew
  <2>6. Counted(ws, un, ts)
    BY <1>0 DEF un, ts
  <2> HIDE DEF ws
  <2>7. Counted(ws, vn, us)
    BY <2>5, <2>6, DiscardCounted
  <2> QED
    BY <2>2, <2>7 DEF TargetsSeen, vn, us
<1>10. CASE StopSession /\ c = d
  BY <1>10 DEF TargetsSeen, StopSession, suspended
<1> QED
  BY <1>1, <1>2, <1>3, <1>4, <1>5, <1>6, <1>7, <1>8, <1>9, <1>10 DEF Moves

-----------------------------------------------------------------------------
(* Wires that cannot be *)

\* A wire that is not valid is refused, and taken off the canvas then.
Answered == \A w \in drawn \ Valid : w \in rejected \/ Connect(w) \in Range(requests)

LEMMA ConcatRange ==
  ASSUME NEW S, NEW s \in Seq(S), NEW t \in Seq(S)
  PROVE  Range(s \o t) = Range(s) \cup Range(t)
<1>1. /\ s \o t \in Seq(S) /\ Len(s \o t) = Len(s) + Len(t)
      /\ \A i \in 1 .. Len(s) : (s \o t)[i] = s[i]
      /\ \A i \in 1 .. Len(t) : (s \o t)[Len(s) + i] = t[i]
  BY ConcatTyped
<1>2. Range(s \o t) \subseteq Range(s) \cup Range(t)
  <2> SUFFICES ASSUME NEW i \in 1 .. Len(s) + Len(t)
               PROVE  (s \o t)[i] \in Range(s) \cup Range(t)
    BY <1>1 DEF Range
  <2>1. CASE i <= Len(s)
    BY <1>1, <2>1 DEF Range
  <2>2. CASE ~ i <= Len(s)
    <3>1. i - Len(s) \in 1 .. Len(t) /\ Len(s) + (i - Len(s)) = i
      BY <2>2
    <3> QED
      BY <1>1, <3>1 DEF Range
  <2> QED
    BY <2>1, <2>2
<1>3. Range(s) \subseteq Range(s \o t)
  BY <1>1 DEF Range
<1>4. Range(t) \subseteq Range(s \o t)
  <2> SUFFICES ASSUME NEW i \in 1 .. Len(t)
               PROVE  t[i] \in Range(s \o t)
    BY DEF Range
  <2>1. Len(s) + i \in DOMAIN (s \o t) /\ (s \o t)[Len(s) + i] = t[i]
    BY <1>1
  <2> QED
    BY <2>1 DEF Range
<1> QED
  BY <1>2, <1>3, <1>4

LEMMA RemoveAtRange ==
  ASSUME NEW S, NEW s \in Seq(S), NEW i \in DOMAIN s, NEW x \in Range(s), x # s[i]
  PROVE  x \in Range(RemoveAt(s, i))
<1>1. PICK j \in DOMAIN s : s[j] = x
  BY DEF Range
<1>2. i \in 1 .. Len(s) /\ j \in 1 .. Len(s) /\ i # j
  BY <1>1
<1> DEFINE front == SubSeq(s, 1, i - 1)
           back == SubSeq(s, i + 1, Len(s))
<1>3. /\ front \in Seq(S) /\ Len(front) = i - 1
      /\ \A k \in 1 .. i - 1 : front[k] = s[k]
  BY <1>2
<1>4. /\ back \in Seq(S) /\ Len(back) = Len(s) - i
      /\ \A k \in 1 .. Len(s) - i : back[k] = s[i + k]
  BY <1>2
<1>5. CASE j < i
  <2>1. x \in Range(front)
    BY <1>1, <1>2, <1>3, <1>5 DEF Range
  <2> HIDE DEF front, back
  <2>2. x \in Range(front \o back)
    BY <1>3, <1>4, <2>1, ConcatRange
  <2> QED
    BY <2>2 DEF RemoveAt, front, back
<1>6. CASE ~ j < i
  <2>0. j - i \in 1 .. Len(s) - i /\ i + (j - i) = j
    BY <1>2, <1>6
  <2>1. x \in Range(back)
    BY <1>1, <1>4, <2>0 DEF Range
  <2> HIDE DEF front, back
  <2>2. x \in Range(front \o back)
    BY <1>3, <1>4, <2>1, ConcatRange
  <2> QED
    BY <2>2 DEF RemoveAt, front, back
<1> QED
  BY <1>5, <1>6

\* What else is asked for stays so.
LEMMA SendKeeps ==
  ASSUME CanvasInv, NEW more \in Seq(SoundRequests), Send(more)
  PROVE  Range(requests') = Range(requests) \cup Range(more)
BY ConcatRange DEF CanvasInv, Send

LEMMA ServingKeeps ==
  ASSUME CanvasInv, NEW r, Serving(r)
  PROVE  /\ \A x \in Range(requests) : x # r => x \in Range(requests')
         /\ r \in Range(requests)
<1>1. PICK i \in DOMAIN requests : r = requests[i] /\ requests' = RemoveAt(requests, i)
  BY DEF Serving
<1>2. requests \in Seq(SoundRequests)
  BY DEF CanvasInv
<1>3. \A x \in Range(requests) : x # requests[i] => x \in Range(RemoveAt(requests, i))
  BY <1>1, <1>2, RemoveAtRange
<1>4. requests[i] \in Range(requests)
  BY <1>1 DEF Range
<1> QED
  BY <1>1, <1>3, <1>4

LEMMA EraseAnswered ==
  ASSUME CanvasInv, Answered, NEW ws, ws \subseteq Wires, EraseAll(ws),
         rejected \subseteq rejected' \cup ws
  PROVE  Answered'
<1>1. Range(requests) \subseteq Range(requests')
  BY DisconnectsTyped, SendKeeps DEF EraseAll
<1>2. drawn' = drawn \ ws
  BY DEF EraseAll
<1> QED
  BY <1>1, <1>2 DEF Answered, Connect

\* Serving anything but the connect of an invalid wire.
LEMMA ServeAnswered ==
  ASSUME CanvasInv, Answered, NEW r, Serving(r), UNCHANGED canvas, rejected \subseteq rejected',
         r.op = "connect" => r.of \in Valid \cup rejected'
  PROVE  Answered'
<1>1. \A w \in drawn \ Valid : w \in rejected' \/ Connect(w) # r
  BY DEF Connect
<1>2. drawn' = drawn
  BY DEF canvas
<1>3. \A w \in drawn \ Valid : w \in rejected' \/ Connect(w) \in Range(requests')
  BY <1>1, ServingKeeps DEF Answered
<1> QED
  BY <1>2, <1>3 DEF Answered, Connect

LEMMA AnsweredStep ==
  ASSUME CanvasInv, Answered, [Next]_vars
  PROVE  Answered'
<1>1. CASE \E n \in Nodes : AddNode(n)
  <2>1. PICK n \in Nodes : AddNode(n)
    BY <1>1
  <2>2. <<Create(n)>> \in Seq(SoundRequests)
    BY SoundRequest
  <2>3. Range(requests) \subseteq Range(requests')
    BY <2>1, <2>2, SendKeeps DEF AddNode
  <2> QED
    BY <2>1, <2>3 DEF AddNode, Answered, Connect
<1>2. CASE \E n \in Nodes : RemoveNode(n)
  <2>1. PICK n \in Nodes : RemoveNode(n)
    BY <1>2
  <2>2. Append(Disconnects(Touching(n)), Delete(n)) \in Seq(SoundRequests)
    <3>1. Touching(n) \subseteq Wires
      BY DEF CanvasInv, Touching
    <3> QED
      BY <3>1, DisconnectsTyped, AppendTyped, SoundRequest
  <2>3. Range(requests) \subseteq Range(requests')
    BY <2>1, <2>2, SendKeeps DEF RemoveNode
  <2> QED
    BY <2>1, <2>3 DEF RemoveNode, Answered, Connect
<1>3. CASE \E w \in Wires : Draw(w)
  <2>1. PICK w \in Wires : Draw(w)
    BY <1>3
  <2> DEFINE D == Disconnects(SameSlot(w))
             more == Append(D, Connect(w))
  <2>2. D \in Seq(SoundRequests) /\ more \in Seq(SoundRequests)
    <3>1. SameSlot(w) \subseteq Wires
      BY DEF CanvasInv, SameSlot
    <3> QED
      BY <3>1, DisconnectsTyped, AppendTyped, SoundRequest
  <2>3. Send(more) /\ drawn' \subseteq drawn \cup {w} /\ rejected' = rejected
    BY <2>1 DEF Draw
  <2> HIDE DEF D
  <2>4. Connect(w) \in Range(more)
    <3>1. Len(D) + 1 \in DOMAIN more /\ more[Len(D) + 1] = Connect(w)
      BY <2>2
    <3> QED
      BY <3>1 DEF Range
  <2> HIDE DEF more
  <2>5. Range(requests') = Range(requests) \cup Range(more)
    BY <2>2, <2>3, SendKeeps
  <2> QED
    BY <2>3, <2>4, <2>5 DEF Answered, Connect
<1>4. CASE \E w \in Wires : Erase(w)
  <2>1. PICK w \in Wires : Erase(w)
    BY <1>4
  <2>2. EraseAll({w}) /\ rejected' = rejected
    BY <2>1 DEF Erase
  <2> QED
    BY <2>2, EraseAnswered
<1>5. CASE \E w \in Wires : Rejected(w)
  <2>1. PICK w \in Wires : Rejected(w)
    BY <1>5
  <2>2. EraseAll(SameSlot(w)) /\ rejected' = rejected \ {w}
    BY <2>1 DEF Rejected
  <2>3. CASE w \in drawn
    <3>1. w \in SameSlot(w) /\ SameSlot(w) \subseteq Wires
      BY <2>3 DEF SameSlot, CanvasInv
    <3> QED
      BY <2>2, <3>1, EraseAnswered
  <2>4. CASE w \notin drawn
    <3>1. Range(requests) \subseteq Range(requests') /\ drawn' \subseteq drawn
      <4>1. SameSlot(w) \subseteq Wires
        BY DEF SameSlot, CanvasInv
      <4> QED
        BY <2>2, <4>1, DisconnectsTyped, SendKeeps DEF EraseAll
    <3> QED
      BY <2>2, <2>4, <3>1 DEF Answered, Connect
  <2> QED
    BY <2>3, <2>4
<1>6. CASE Run \/ AskStart
  <2>1. Range(requests) \subseteq Range(requests') /\ UNCHANGED <<drawn, rejected>>
    <3>1. CASE Run
      BY <3>1 DEF Run
    <3>2. CASE AskStart
      <4>1. PICK p \in preparing : /\ requests' = Append(requests, Start(p))
                                   /\ UNCHANGED <<drawn, rejected>>
        BY <3>2 DEF AskStart
      <4>2. requests \in Seq(SoundRequests)
        BY DEF CanvasInv
      <4> QED
        BY <4>1, <4>2 DEF Range
    <3> QED
      BY <1>6, <3>1, <3>2
  <2> QED
    BY <2>1 DEF Answered, Connect
<1>7. CASE \E n \in Nodes : CreateNode(n) \/ DeleteNode(n)
  <2>1. PICK n \in Nodes : CreateNode(n) \/ DeleteNode(n)
    BY <1>7
  <2>2. PICK r \in {Create(n), Delete(n)} : /\ Serving(r)
                                            /\ UNCHANGED canvas /\ rejected' = rejected
    BY <2>1 DEF CreateNode, DeleteNode
  <2>3. r.op # "connect"
    BY DEF Create, Delete
  <2> QED
    BY <2>2, <2>3, ServeAnswered
<1>8. CASE \E n \in Nodes : DeleteReturns(n) \/ NodeInit(n)
  BY <1>8 DEF DeleteReturns, NodeInit, canvas, Answered, Connect
<1>9. CASE \E w \in Wires : ConnectNodes(w)
  <2>1. PICK w \in Wires : ConnectNodes(w)
    BY <1>9
  <2>2. Serving(Connect(w)) /\ w \in Valid /\ UNCHANGED canvas /\ rejected' = rejected
    BY <2>1 DEF ConnectNodes
  <2>3. Connect(w).of = w
    BY DEF Connect
  <2> QED
    BY <2>2, <2>3, ServeAnswered
<1>10. CASE \E w \in Wires : RejectConnect(w)
  <2>1. PICK w \in Wires : RejectConnect(w)
    BY <1>10
  <2>2. Serving(Connect(w)) /\ UNCHANGED canvas /\ rejected' = rejected \cup {w}
    BY <2>1 DEF RejectConnect
  <2>3. Connect(w).of = w
    BY DEF Connect
  <2> QED
    BY <2>2, <2>3, ServeAnswered
<1>11. CASE \E w \in Wires : DisconnectNodes(w) \/ DisconnectFails(w)
  <2>1. PICK w \in Wires : DisconnectNodes(w) \/ DisconnectFails(w)
    BY <1>11
  <2>2. Serving(Disconnect(w)) /\ UNCHANGED canvas /\ rejected' = rejected
    BY <2>1 DEF DisconnectNodes, DisconnectFails
  <2>3. Disconnect(w).op # "connect"
    BY DEF Disconnect
  <2> QED
    BY <2>2, <2>3, ServeAnswered
<1>12. CASE \E w \in Wires : DisconnectReturns(w)
  BY <1>12 DEF DisconnectReturns, canvas, Answered, Connect
<1>13. CASE \E r \in Range(requests) : RunSession(r)
  <2>1. PICK r \in Range(requests) : RunSession(r)
    BY <1>13
  <2>2. Serving(r) /\ UNCHANGED canvas /\ rejected' = rejected /\ r.op # "connect"
    BY <2>1 DEF RunSession
  <2> QED
    BY <2>2, ServeAnswered
<1>14. CASE UNCHANGED vars \/ StopSession
  BY <1>14 DEF vars, StopSession, canvas, Answered, Connect
<1> QED
  BY <1>1, <1>2, <1>3, <1>4, <1>5, <1>6, <1>7, <1>8, <1>9, <1>10, <1>11, <1>12, <1>13,
     <1>14 DEF Next, Canvas, Backend

\* Nothing is under way: the backend has seen the canvas, and no wire on it
\* is invalid.
LEMMA SeenQuiet ==
  ASSUME CanvasInv, Answered, NEW g, CanvasSeen(g), Quiet
  PROVE  g[0] = TheCanvas /\ drawn \subseteq Valid /\ live = nodes
<1>1. requests = <<>> /\ rejected = {}
  BY DEF Quiet
<1>2. Len(requests) = 0 /\ Range(requests) = {}
  BY <1>1 DEF Range
<1>3. g[0] = TheCanvas /\ g[0].nodes = live
  BY <1>2 DEF CanvasSeen, Hist
<1> QED
  BY <1>1, <1>2, <1>3 DEF Answered, TheCanvas

\* At the start there is nothing to be seen.
LEMMA SeenInit ==
  ASSUME Init
  PROVE  /\ CanvasInv /\ Answered
         /\ \E g : CanvasSeen(g) /\ g[0] = [nodes |-> {}, wires |-> {}, ran |-> {}]
<1> DEFINE e == [nodes |-> {}, wires |-> {}, ran |-> {}]
           g == [i \in {0} |-> e]
<1>1. CanvasInv /\ Answered
  BY CanvasInit DEF Init, Answered
<1>2. e \in CanvasStates /\ Neat(e) /\ e = TheCanvas
  BY DEF Init, CanvasStates, Neat, TheCanvas
<1>3. Len(requests) = 0 /\ 0 .. Len(requests) = {0} /\ 1 .. Len(requests) = {}
  BY DEF Init
<1>4. g \in [0 .. Len(requests) -> CanvasStates] /\ g[0] = e
  BY <1>2, <1>3
<1> HIDE DEF g
<1>5. Hist(requests, g, TheCanvas, deleting)
  BY <1>2, <1>3, <1>4 DEF Hist, Init
<1>6. CanvasSeen(g)
  BY <1>4, <1>5 DEF CanvasSeen, Init
<1> QED
  BY <1>1, <1>4, <1>6

LEMMA HistFirst ==
  ASSUME NEW s \in Seq(SoundRequests), NEW g, NEW c, NEW gone, Hist(s, g, c, gone)
  PROVE  g[0] \in CanvasStates /\ Neat(g[0]) /\ gone \cap g[0].nodes = {}
BY DEF Hist

LEMMA SeenNext ==
  ASSUME CanvasInv', NEW h, CanvasSeen(h)'
  PROVE  /\ h[0] \in CanvasStates /\ Neat(h[0]) /\ h[0].nodes = live'
         /\ deleting' \cap h[0].nodes = {}
<1>1. /\ requests' \in Seq(SoundRequests) /\ Hist(requests', h, TheCanvas', deleting')
      /\ h[0].nodes = live'
  BY DEF CanvasInv, CanvasSeen
<1> QED
  BY <1>1, HistFirst

\* A start of what is not drawn is remembered.
LEMMA OrderStays ==
  ASSUME [Next]_vars
  PROVE  /\ inOrder' = inOrder
         /\ outdated' = outdated \/ AskStart
         /\ Orderly' => Orderly /\ inOrder /\ ~ outdated'
<1>1. inOrder' = inOrder /\ (outdated' = outdated \/ AskStart)
  BY DEF Next, Canvas, Backend, vars, canvas, runs, AddNode, RemoveNode, Draw, Erase, EraseAll,
         Rejected, Run, AskStart, CreateNode, DeleteNode, DeleteReturns, NodeInit,
         ConnectNodes, RejectConnect, DisconnectNodes, DisconnectReturns, DisconnectFails,
         StopSession, RunSession
<1>2. AskStart /\ ~ outdated' => ~ outdated
  BY DEF AskStart
<1> QED
  BY <1>1, <1>2 DEF Orderly

TargetsInv ==
  CanvasInv /\ Answered /\ (Orderly => \E g : CanvasSeen(g) /\ TargetsSeen(g[0]))

LEMMA TargetsInvInit ==
  ASSUME Init
  PROVE  TargetsInv
<1> DEFINE e == [nodes |-> {}, wires |-> {}, ran |-> {}]
<1>1. \A p \in Nodes \X Nodes : Mentions({}, unwiring, p) = {}
  <2> SUFFICES ASSUME NEW w \in Targeting, NEW k \in Nat, k # 0, k <= unwiring[w]
               PROVE  FALSE
    BY DEF Mentions
  <2>1. unwiring[w] = 0
    BY TargetingTyped DEF Init
  <2> QED
    BY <2>1
<1>2. TargetsSeen(e)
  BY <1>1, FS_EmptySet DEF TargetsSeen, Counted, Init
<1> QED
  BY <1>2, SeenInit DEF TargetsInv

LEMMA TargetsInvStep ==
  ASSUME TargetsApart, TargetsInv, [Next]_vars
  PROVE  TargetsInv'
<1>1. CanvasInv' /\ Answered'
  BY CanvasStep, AnsweredStep DEF TargetsInv
<1>2. ASSUME Orderly'
      PROVE  \E h : CanvasSeen(h)' /\ TargetsSeen(h[0])'
  <2>0. Orderly /\ inOrder /\ ~ outdated'
    BY <1>2, OrderStays
  <2>1. PICK g : CanvasSeen(g) /\ TargetsSeen(g[0])
    BY <2>0 DEF TargetsInv
  <2>2. PICK h : CanvasSeen(h)' /\ Moves(g[0], h[0])
    BY <2>0, <2>1, SeenStep DEF TargetsInv
  <2>3. Neat(h[0]) /\ h[0].nodes = live'
    BY <1>1, <2>2, SeenNext
  <2> QED
    BY <2>1, <2>2, <2>3, TargetsStep
<1> QED
  BY <1>1, <1>2 DEF TargetsInv

\* A trigger fires exactly the nodes it has control wires to, in whatever order
\* its wires come and go, and whenever the awaits of their removal end, as long
\* as requests are served in the order they were sent, every start is of what
\* is drawn when it is asked for, and no wire of another kind joins two nodes
\* that a control wire can join (connect_nodes(), disconnect_nodes(),
\* _graph_control_targets).
THEOREM TargetsAsDrawn ==
  ASSUME TargetsApart
  PROVE  Spec => []TargetsDrawn
<1>1. Init => TargetsInv
  BY TargetsInvInit
<1>2. TargetsInv /\ [Next]_vars => TargetsInv'
  BY TargetsInvStep
<1>3. TargetsInv => TargetsDrawn
  <2> SUFFICES ASSUME TargetsInv, Orderly, Quiet, NEW e \in Nodes \X Nodes
               PROVE  targets[e] = Cardinality({w \in drawn : w.kind = "control"
                                                  /\ <<w.source, w.target>> = e})
    BY DEF TargetsDrawn
  <2>1. PICK g : CanvasSeen(g) /\ TargetsSeen(g[0])
    BY DEF TargetsInv
  <2>2. g[0].wires = drawn /\ drawn \subseteq Valid
    BY <2>1, SeenQuiet DEF TargetsInv, TheCanvas
  <2>3. targets[e] = Cardinality(Mentions(drawn, unwiring, e))
    BY <2>1, <2>2 DEF TargetsSeen, Counted
  <2>4. \A w \in Targeting : Pair(w) = e => unwiring[w] = 0
    BY TargetingTyped DEF Quiet
  <2>5. Cardinality(Mentions(drawn, unwiring, e))
          = Cardinality({w \in drawn : w.kind = "control" /\ Pair(w) = e})
    BY <2>2, <2>4, MentionsAreWires
  <2> QED
    BY <2>3, <2>5 DEF Pair
<1> QED
  BY <1>1, <1>2, <1>3, PTL DEF Spec

-----------------------------------------------------------------------------
(* Plugs and pumps *)

RealWires(c) == c.wires \cap Valid
Plugging(c) == {w \in RealWires(c) : w.kind # "attribute"}
PipeOf(w, c) == IF w \in c.ran THEN RunPipe(w) ELSE edgePipe[w]
Made(plugs) == {x \in plugs : x[3] \notin OwnPipes}

\* The pipe of a wire that no run has built is known.
EdgesKnown(c) ==
  /\ DOMAIN edgePipe \subseteq Valid
  /\ \A w \in RealWires(c) \ c.ran : w \in DOMAIN edgePipe /\ edgePipe[w] \in EdgePipes(w)

\* Nothing is plugged in but the wires, and what init() made.
OutsSeen(c) == Made(outs) = {OutPlug(w, PipeOf(w, c)) : w \in RealWires(c)}
InsSeen(c) == Made(ins) = {InPlug(w, PipeOf(w, c)) : w \in Plugging(c)}

\* Each attribute wire has its pump, of the session unless it is stopped, or of
\* its own.
PumpsSeen(c) ==
  /\ \A w \in RealWires(c) : w.kind = "attribute" =>
       IF w \in c.ran THEN stopped \/ InPlug(w, RunPipe(w)) \in sessionPumps
       ELSE PumpKey(w) \in DOMAIN pumps /\ pumps[PumpKey(w)] = edgePipe[w]
  /\ \A x \in sessionPumps : \E w \in c.ran : w.kind = "attribute" /\ x = InPlug(w, RunPipe(w))
  /\ \A k \in DOMAIN pumps : \E w \in Wires :
       w.kind = "attribute" /\ PumpKey(w) = k /\ pumps[k] \in EdgePipes(w)

PlugsSeen(c) == EdgesKnown(c) /\ OutsSeen(c) /\ InsSeen(c) /\ PumpsSeen(c)

LEMMA EdgePipesMade ==
  ASSUME NEW w, NEW p \in EdgePipes(w)
  PROVE  p[1] = "edge" /\ p[2] = w /\ p \notin OwnPipes
BY OwnPipesTagged DEF EdgePipes

LEMMA RunPipesMade ==
  ASSUME NEW w
  PROVE  /\ RunPipe(w)[1] = "run" /\ RunPipe(w)[2] = w.source /\ RunPipe(w)[3] = w.target
         /\ RunPipe(w) \notin OwnPipes
BY OwnPipesTagged DEF RunPipe

\* The pipe of a wire says whose it is.
LEMMA PipesTold ==
  ASSUME NEW c, EdgesKnown(c), NEW w \in RealWires(c)
  PROVE  /\ PipeOf(w, c) \notin OwnPipes /\ PipeOf(w, c)[1] \in {"edge", "run"}
         /\ w \in c.ran => PipeOf(w, c) = RunPipe(w)
         /\ w \notin c.ran => /\ PipeOf(w, c) = edgePipe[w]
                              /\ PipeOf(w, c)[1] = "edge" /\ PipeOf(w, c)[2] = w
<1>1. CASE w \in c.ran
  BY <1>1, RunPipesMade DEF PipeOf
<1>2. CASE w \notin c.ran
  <2>1. edgePipe[w] \in EdgePipes(w)
    BY <1>2 DEF EdgesKnown
  <2> QED
    BY <1>2, <2>1, EdgePipesMade DEF PipeOf
<1> QED
  BY <1>1, <1>2

\* Plugging a wire in, and taking plugs away.
LEMMA PlugMade ==
  ASSUME NEW plugs, NEW side \in {"output", "input"}, NEW n, NEW port, NEW pipe,
         pipe \notin OwnPipes, \A x \in Made(plugs) : x[3][1] \in {"edge", "run"}
  PROVE  Made(Plug(plugs, side, n, port, pipe)) = Made(plugs) \cup {<<n, port, pipe>>}
<1> DEFINE own == <<n, port, OwnPipe(side, n, port)>>
<1>1. own \notin Made(plugs)
  <2>1. own[3][1] = side /\ side \notin {"edge", "run"}
    BY DEF OwnPipe
  <2> QED
    BY <2>1
<1> QED
  BY <1>1 DEF Made, Plug

LEMMA FewerMade ==
  ASSUME NEW plugs, NEW gone
  PROVE  Made(plugs \ gone) = Made(plugs) \ gone
BY DEF Made

LEMMA MadeTagged ==
  ASSUME NEW c, PlugsSeen(c)
  PROVE  /\ \A x \in Made(outs) : x[3][1] \in {"edge", "run"}
         /\ \A x \in Made(ins) : x[3][1] \in {"edge", "run"}
<1>1. \A w \in RealWires(c) : PipeOf(w, c)[1] \in {"edge", "run"}
  BY PipesTold DEF PlugsSeen
<1>2. \A x \in Made(outs) : x[3][1] \in {"edge", "run"}
  BY <1>1 DEF PlugsSeen, OutsSeen, OutPlug
<1>3. \A x \in Made(ins) : x[3][1] \in {"edge", "run"}
  BY <1>1 DEF PlugsSeen, InsSeen, Plugging, InPlug
<1> QED
  BY <1>2, <1>3

\* The wires are the same, and so are their plugs.
LEMMA PlugsStay ==
  ASSUME NEW c, PlugsSeen(c), NEW d, RealWires(d) = RealWires(c), d.ran = c.ran,
         edgePipe' = edgePipe, sessionPumps' = sessionPumps,
         Made(outs') = Made(outs), Made(ins') = Made(ins), PumpsSeen(d)'
  PROVE  PlugsSeen(d)'
<1>1. \A w : PipeOf(w, d)' = PipeOf(w, c)
  BY DEF PipeOf
<1>2. Plugging(d) = Plugging(c)
  BY DEF Plugging
<1>3. EdgesKnown(d)'
  BY DEF PlugsSeen, EdgesKnown
<1>4. OutsSeen(d)'
  BY <1>1 DEF PlugsSeen, OutsSeen
<1>5. InsSeen(d)'
  BY <1>1, <1>2 DEF PlugsSeen, InsSeen
<1> QED
  BY <1>3, <1>4, <1>5 DEF PlugsSeen

LEMMA PumpsStay ==
  ASSUME NEW c, PumpsSeen(c), NEW d, RealWires(d) = RealWires(c), d.ran = c.ran,
         UNCHANGED <<edgePipe, pumps, session>>
  PROVE  PumpsSeen(d)'
BY DEF PumpsSeen, session

LEMMA PlugsDeleteNode ==
  ASSUME NEW c, PlugsSeen(c), NEW d, Neat(d), NEW n \in Nodes, DeleteNode(n),
         Edit(Delete(n), c, d), SeenState(c)
  PROVE  PlugsSeen(d)'
<1>1. d.wires = c.wires /\ d.ran = c.ran /\ d.nodes = c.nodes \ {n}
  BY DEF Edit, Delete
<1>2. \A w \in RealWires(c) : w.source # n /\ w.target # n
  BY <1>1 DEF Neat, RealWires
<1>3. UNCHANGED <<edgePipe, pumps, session>> /\ sessionPumps' = sessionPumps
  BY DEF DeleteNode, session
<1>4. /\ outs' \in {outs, outs \ PlugsOf(outs, {n})}
      /\ ins' \in {ins, ins \ PlugsOf(ins, {n})}
  BY DEF DeleteNode
<1>5. Made(outs') = Made(outs)
  <2>1. \A x \in Made(outs) : x[1] # n
    BY <1>2 DEF PlugsSeen, OutsSeen, OutPlug
  <2> QED
    BY <1>4, <2>1 DEF PlugsOf, Made
<1>6. Made(ins') = Made(ins)
  <2>1. \A x \in Made(ins) : x[1] # n
    BY <1>2 DEF PlugsSeen, InsSeen, InPlug, Plugging
  <2> QED
    BY <1>4, <2>1 DEF PlugsOf, Made
<1>7. RealWires(d) = RealWires(c)
  BY <1>1 DEF RealWires
<1>8. PumpsSeen(d)'
  BY <1>1, <1>3, <1>7, PumpsStay DEF PlugsSeen
<1> QED
  BY <1>1, <1>3, <1>5, <1>6, <1>7, <1>8, PlugsStay

\* The sweep of a deleted node takes pumps that no wire of the canvas needs.
LEMMA PlugsDeleteReturns ==
  ASSUME NEW c, PlugsSeen(c), SeenState(c), NEW n \in Nodes, DeleteReturns(n)
  PROVE  PlugsSeen(c)'
<1>1. UNCHANGED <<outs, ins, edgePipe, sessionPumps, stopped>>
  BY DEF DeleteReturns, session
<1>2. pumps' = [k \in DOMAIN pumps \ Swept(n) |-> pumps[k]] /\ n \in deleting
  BY DEF DeleteReturns
<1>3. \A w \in RealWires(c) : w.source # n /\ w.target # n
  BY <1>2 DEF SeenState, Neat, RealWires
<1>4. \A w \in RealWires(c) : PumpKey(w) \notin Swept(n)
  BY <1>3 DEF Swept, PumpKey
<1>5. PumpsSeen(c)'
  BY <1>1, <1>2, <1>4 DEF PlugsSeen, PumpsSeen
<1> QED
  BY <1>1, <1>5, PlugsStay

LEMMA PlugsNodeInit ==
  ASSUME NEW c, PlugsSeen(c), NEW n \in Nodes, NodeInit(n)
  PROVE  PlugsSeen(c)'
<1> DEFINE unwired(plugs, side, own) ==
      {<<n, o[2], OwnPipe(side, n, o[2])>> :
         o \in {o \in own : o[1] = n /\ Plugged(plugs, n, o[2]) = {}}}
           moreOuts == unwired(outs, "output", OwnOutputs)
           moreIns == unwired(ins, "input", OwnInputs)
<1>1. outs' = outs \cup moreOuts /\ ins' = ins \cup moreIns
  BY DEF NodeInit
<1>2. \A x \in moreOuts \cup moreIns : x[3] \in OwnPipes
  BY DEF OwnPipes
<1> HIDE DEF moreOuts, moreIns
<1>3. Made(outs') = Made(outs) /\ Made(ins') = Made(ins)
  BY <1>1, <1>2 DEF Made
<1>4. UNCHANGED <<edgePipe, pumps, session>> /\ sessionPumps' = sessionPumps
  BY DEF NodeInit, session
<1>5. PumpsSeen(c)'
  BY <1>4, PumpsStay DEF PlugsSeen
<1> QED
  BY <1>3, <1>4, <1>5, PlugsStay

LEMMA PlugsConnect ==
  ASSUME NEW c, PlugsSeen(c), SeenState(c), NEW d, Neat(d), NEW w \in Wires, ConnectNodes(w),
         Edit(Connect(w), c, d)
  PROVE  PlugsSeen(d)'
<1> DEFINE pipe == CHOOSE p \in FreshPipes(w) : TRUE
<1>1. pipe \in EdgePipes(w)
  BY DEF ConnectNodes, FreshPipes
<1>2. /\ w \in Valid
      /\ outs' = Plug(outs, "output", w.source, w.sourcePort, pipe)
      /\ edgePipe' = [x \in DOMAIN edgePipe \cup {w} |-> IF x = w THEN pipe ELSE edgePipe[x]]
      /\ ins' = IF w.kind = "attribute" THEN ins
                ELSE Plug(ins, "input", w.target, InPort(w), pipe)
      /\ pumps' = IF w.kind # "attribute" THEN pumps
                  ELSE [k \in DOMAIN pumps \cup {PumpKey(w)} |->
                          IF k = PumpKey(w) THEN pipe ELSE pumps[k]]
      /\ sessionPumps' = sessionPumps /\ stopped' = stopped
  BY DEF ConnectNodes, session
<1> HIDE DEF pipe
<1>3. pipe \notin OwnPipes
  BY <1>1, EdgePipesMade
<1>4. w \notin c.wires /\ d.wires = c.wires \cup {w} /\ d.ran = c.ran /\ w \notin c.ran
  BY DEF Edit, Connect, SeenState, Neat
<1>5. RealWires(d) = RealWires(c) \cup {w} /\ w \notin RealWires(c)
  BY <1>2, <1>4 DEF RealWires
<1>6. PipeOf(w, d)' = pipe
  BY <1>2, <1>4 DEF PipeOf
<1>7. \A x \in RealWires(c) : PipeOf(x, d)' = PipeOf(x, c)
  <2> SUFFICES ASSUME NEW x \in RealWires(c)
               PROVE  PipeOf(x, d)' = PipeOf(x, c)
    OBVIOUS
  <2>1. CASE x \in c.ran
    BY <1>4, <2>1 DEF PipeOf
  <2>2. CASE x \notin c.ran
    <3>1. x \in DOMAIN edgePipe /\ x # w
      BY <1>5, <2>2 DEF PlugsSeen, EdgesKnown
    <3> QED
      BY <1>2, <1>4, <2>2, <3>1 DEF PipeOf
  <2> QED
    BY <2>1, <2>2
<1>8. EdgesKnown(d)'
  BY <1>1, <1>2, <1>4, <1>5 DEF PlugsSeen, EdgesKnown
<1>9. OutsSeen(d)'
  <2>1. Made(outs') = Made(outs) \cup {OutPlug(w, pipe)}
    BY <1>2, <1>3, MadeTagged, PlugMade DEF OutPlug
  <2>2. Made(outs) = {OutPlug(x, PipeOf(x, d)') : x \in RealWires(c)}
    BY <1>7 DEF PlugsSeen, OutsSeen
  <2> QED
    BY <1>5, <1>6, <2>1, <2>2 DEF OutsSeen
<1>10. InsSeen(d)'
  <2>1. Made(ins) = {InPlug(x, PipeOf(x, d)') : x \in Plugging(c)}
    BY <1>7 DEF PlugsSeen, InsSeen, Plugging
  <2>2. CASE w.kind = "attribute"
    <3>1. Plugging(d) = Plugging(c) /\ ins' = ins
      BY <1>2, <1>5, <2>2 DEF Plugging
    <3> QED
      BY <2>1, <3>1 DEF InsSeen
  <2>3. CASE w.kind # "attribute"
    <3>1. Plugging(d) = Plugging(c) \cup {w}
      BY <1>5, <2>3 DEF Plugging
    <3>2. Made(ins') = Made(ins) \cup {InPlug(w, pipe)}
      BY <1>2, <1>3, <2>3, MadeTagged, PlugMade DEF InPlug
    <3> QED
      BY <1>6, <2>1, <3>1, <3>2 DEF InsSeen
  <2> QED
    BY <2>2, <2>3
<1>11. PumpsSeen(d)'
  <2>0. PumpsSeen(c) /\ EdgesKnown(c)
    BY DEF PlugsSeen
  <2>1. \A x \in RealWires(c) : x.kind = "attribute" /\ w.kind = "attribute"
                                   => PumpKey(x) # PumpKey(w)
    BY <1>4, <1>5 DEF Neat, RealWires, PumpKey
  <2>2. \A x \in RealWires(c) \ c.ran : edgePipe'[x] = edgePipe[x]
    BY <1>2, <1>5, <2>0 DEF EdgesKnown
  <2>3. edgePipe'[w] = pipe
    BY <1>2
  <2>4. ASSUME NEW x \in RealWires(d), x.kind = "attribute"
        PROVE  IF x \in d.ran THEN stopped' \/ InPlug(x, RunPipe(x)) \in sessionPumps'
               ELSE PumpKey(x) \in DOMAIN pumps' /\ pumps'[PumpKey(x)] = edgePipe'[x]
    <3>1. CASE x = w
      BY <1>2, <1>4, <2>3, <2>4, <3>1
    <3>2. CASE x \in RealWires(c)
      BY <1>2, <1>4, <2>0, <2>1, <2>2, <2>4, <3>2 DEF PumpsSeen
    <3> QED
      BY <1>5, <3>1, <3>2
  <2>5. ASSUME NEW k \in DOMAIN pumps'
        PROVE  \E x \in Wires :
                 x.kind = "attribute" /\ PumpKey(x) = k /\ pumps'[k] \in EdgePipes(x)
    BY <1>1, <1>2, <2>0 DEF PumpsSeen
  <2> QED
    BY <1>2, <1>4, <2>0, <2>4, <2>5 DEF PumpsSeen
<1> QED
  BY <1>8, <1>9, <1>10, <1>11 DEF PlugsSeen

\* Two wires have no plug in common.
LEMMA PlugsDiffer ==
  ASSUME NEW c, EdgesKnown(c), NEW w \in RealWires(c), w \notin c.ran, NEW x \in RealWires(c), x # w
  PROVE  /\ OutPlug(x, PipeOf(x, c)) # OutPlug(w, PipeOf(w, c))
         /\ InPlug(x, PipeOf(x, c)) # InPlug(w, PipeOf(w, c))
<1>1. PipeOf(w, c)[1] = "edge" /\ PipeOf(w, c)[2] = w
  BY PipesTold
<1>2. PipeOf(x, c) # PipeOf(w, c)
  <2>1. CASE x \in c.ran
    <3>1. PipeOf(x, c)[1] = "run"
      BY <2>1, PipesTold, RunPipesMade
    <3> QED
      BY <1>1, <3>1
  <2>2. CASE x \notin c.ran
    <3>1. PipeOf(x, c)[2] = x
      BY <2>2, PipesTold
    <3> QED
      BY <1>1, <3>1
  <2> QED
    BY <2>1, <2>2
<1> QED
  BY <1>2 DEF OutPlug, InPlug

\* A wire that is taken off takes its own plugs, and no other wire's.
LEMMA PlugsDisconnect ==
  ASSUME Steady, NEW c, PlugsSeen(c), SeenState(c), NEW d, NEW w \in Wires, DisconnectNodes(w),
         Edit(Disconnect(w), c, d)
  PROVE  PlugsSeen(d)'
<1>0. EdgesKnown(c) /\ OutsSeen(c) /\ InsSeen(c) /\ PumpsSeen(c)
  BY DEF PlugsSeen
<1>1. /\ w \in c.wires /\ w \notin c.ran /\ d.wires = c.wires \ {w}
      /\ d.ran = c.ran \ {w} /\ d.ran = c.ran
  BY DEF Edit, Disconnect
<1>2. RealWires(d) = RealWires(c) \ {w} /\ Plugging(d) = Plugging(c) \ {w}
  BY <1>1 DEF RealWires, Plugging
<1>3. /\ outs' = UnplugOutput(w)
      /\ ins' = UnplugInput(w)
      /\ edgePipe' = [x \in DOMAIN edgePipe \ {w} |-> edgePipe[x]]
      /\ pumps' = IF w.kind # "attribute" THEN pumps
                  ELSE [k \in DOMAIN pumps \ {PumpKey(w)} |-> pumps[k]]
      /\ sessionPumps' = sessionPumps /\ stopped' = stopped
  BY DEF DisconnectNodes, session
<1>4. \A x \in RealWires(d) : PipeOf(x, d)' = PipeOf(x, c)
  <2> SUFFICES ASSUME NEW x \in RealWires(d)
               PROVE  PipeOf(x, d)' = PipeOf(x, c)
    OBVIOUS
  <2>1. CASE x \in c.ran
    BY <1>1, <2>1 DEF PipeOf
  <2>2. CASE x \notin c.ran
    <3>1. x \in DOMAIN edgePipe /\ x # w
      BY <1>0, <1>2, <2>2 DEF EdgesKnown
    <3> QED
      BY <1>1, <1>3, <2>2, <3>1 DEF PipeOf
  <2> QED
    BY <2>1, <2>2
<1>5. EdgesKnown(d)'
  BY <1>0, <1>1, <1>2, <1>3 DEF EdgesKnown
<1>6. \A x \in RealWires(d) : x.source = w.source /\ x.sourcePort = w.sourcePort => w \in Valid
  BY <1>1, <1>2 DEF Steady, ShareAPort, RealWires
<1>7. \A x \in RealWires(d) : x.target = w.target /\ InPort(x) = InPort(w) => w \in Valid
  BY <1>1, <1>2 DEF Steady, ShareAPort, RealWires
<1>8. PumpsSeen(d)'
  <2>1. \A x \in RealWires(d) : x.kind = "attribute" /\ w.kind = "attribute"
                                   => PumpKey(x) # PumpKey(w)
    BY <1>1, <1>2 DEF SeenState, Neat, RealWires, PumpKey
  <2>2. \A x \in RealWires(d) \ c.ran : edgePipe'[x] = edgePipe[x]
    BY <1>0, <1>2, <1>3 DEF EdgesKnown
  <2> QED
    BY <1>0, <1>1, <1>2, <1>3, <2>1, <2>2 DEF PumpsSeen
<1>9. CASE w \in Valid
  <2>1. w \in RealWires(c) /\ w \in DOMAIN edgePipe /\ PipeOf(w, c) = edgePipe[w]
    BY <1>0, <1>1, <1>9 DEF RealWires, EdgesKnown, PipeOf
  <2>2. \A x \in RealWires(d) : /\ OutPlug(x, PipeOf(x, c)) # OutPlug(w, edgePipe[w])
                                /\ InPlug(x, PipeOf(x, c)) # InPlug(w, edgePipe[w])
    BY <1>0, <1>1, <1>2, <2>1, PlugsDiffer
  <2>3. OutsSeen(d)'
    <3>1. Made(outs') = Made(outs) \ {OutPlug(w, edgePipe[w])}
      BY <1>3, <2>1, FewerMade DEF UnplugOutput
    <3>2. Made(outs) = {OutPlug(x, PipeOf(x, c)) : x \in RealWires(d)}
                         \cup {OutPlug(w, edgePipe[w])}
      BY <1>0, <1>2, <2>1 DEF OutsSeen
    <3>3. Made(outs') = {OutPlug(x, PipeOf(x, c)) : x \in RealWires(d)}
      BY <2>2, <3>1, <3>2
    <3> QED
      BY <1>4, <3>3 DEF OutsSeen
  <2>4. InsSeen(d)'
    <3>1. CASE w.kind = "attribute"
      <4>1. ins' = ins /\ Plugging(d) = Plugging(c)
        BY <1>2, <1>3, <3>1 DEF UnplugInput, Plugging
      <4> QED
        BY <1>0, <1>4, <4>1 DEF InsSeen, Plugging
    <3>2. CASE w.kind # "attribute"
      <4>1. Made(ins') = Made(ins) \ {InPlug(w, edgePipe[w])}
        BY <1>3, <2>1, <3>2, FewerMade DEF UnplugInput
      <4>2. Made(ins) = {InPlug(x, PipeOf(x, c)) : x \in Plugging(d)}
                          \cup {InPlug(w, edgePipe[w])}
        BY <1>0, <1>2, <2>1, <3>2 DEF InsSeen, Plugging
      <4>3. Made(ins') = {InPlug(x, PipeOf(x, c)) : x \in Plugging(d)}
        BY <2>2, <4>1, <4>2 DEF Plugging
      <4> QED
        BY <1>4, <4>3 DEF InsSeen, Plugging
    <3> QED
      BY <3>1, <3>2
  <2> QED
    BY <1>5, <1>8, <2>3, <2>4 DEF PlugsSeen
<1>10. CASE w \notin Valid
  <2>1. w \notin DOMAIN edgePipe /\ RealWires(d) = RealWires(c)
    BY <1>0, <1>2, <1>10 DEF EdgesKnown, RealWires
  <2>2. Made(outs') = Made(outs)
    <3>1. \A x \in Made(outs) : ~ (x[1] = w.source /\ x[2] = w.sourcePort)
      BY <1>0, <1>6, <1>10, <2>1 DEF OutsSeen, OutPlug
    <3>2. outs' = outs \ OnlyOne(outs, w.source, w.sourcePort)
      BY <1>3, <2>1 DEF UnplugOutput
    <3>3. \A x \in OnlyOne(outs, w.source, w.sourcePort) : x[1] = w.source /\ x[2] = w.sourcePort
      BY DEF OnlyOne, Plugged
    <3> QED
      BY <3>1, <3>2, <3>3 DEF Made
  <2>3. Made(ins') = Made(ins)
    <3>1. \A x \in Made(ins) : ~ (x[1] = w.target /\ x[2] = InPort(w))
      BY <1>0, <1>7, <1>10, <2>1 DEF InsSeen, InPlug, Plugging
    <3>2. ins' \in {ins, ins \ OnlyOne(ins, w.target, InPort(w))}
      BY <1>3, <2>1 DEF UnplugInput
    <3>3. \A x \in OnlyOne(ins, w.target, InPort(w)) : x[1] = w.target /\ x[2] = InPort(w)
      BY DEF OnlyOne, Plugged
    <3> QED
      BY <3>1, <3>2, <3>3 DEF Made
  <2>4. OutsSeen(d)' /\ InsSeen(d)'
    BY <1>0, <1>4, <2>1, <2>2, <2>3 DEF OutsSeen, InsSeen, Plugging
  <2> QED
    BY <1>5, <1>8, <2>4 DEF PlugsSeen
<1> QED
  BY <1>9, <1>10

\* A run builds all the wires again.
LEMMA PlugsRun ==
  ASSUME NEW c, PlugsSeen(c), SeenState(c), NEW d, NEW r, RunSession(r), Edit(r, c, d)
  PROVE  PlugsSeen(d)'
<1> DEFINE ns == c.nodes
           ws == c.wires
           pumped == {w \in ws : w.kind = "attribute"}
<1>0. EdgesKnown(c) /\ OutsSeen(c) /\ InsSeen(c) /\ PumpsSeen(c)
  BY DEF PlugsSeen
<1>1. r.of.nodes = ns /\ r.of.wires = ws /\ ws \subseteq Valid /\ d.wires = ws /\ d.ran = ws
  BY DEF Edit, RunSession
<1>2. /\ outs' = (outs \ PlugsOf(outs, ns)) \cup {OutPlug(w, RunPipe(w)) : w \in ws}
      /\ ins' = (ins \ PlugsOf(ins, ns)) \cup {InPlug(w, RunPipe(w)) : w \in ws \ pumped}
      /\ sessionPumps' = {InPlug(w, RunPipe(w)) : w \in pumped}
      /\ UNCHANGED <<edgePipe, pumps>>
  BY <1>1 DEF RunSession
<1>3. /\ RealWires(c) = ws /\ RealWires(d) = ws
      /\ Plugging(c) = ws \ pumped /\ Plugging(d) = ws \ pumped
  BY <1>1 DEF RealWires, Plugging
<1>4. \A w \in ws : /\ PipeOf(w, d)' = RunPipe(w) /\ RunPipe(w) \notin OwnPipes
                    /\ w.source \in ns /\ w.target \in ns
  BY <1>1, RunPipesMade DEF PipeOf, SeenState, Neat
<1>5. EdgesKnown(d)'
  BY <1>0, <1>1, <1>2, <1>3 DEF EdgesKnown
<1>6. OutsSeen(d)'
  <2>1. \A x \in Made(outs) : x[1] \in ns
    BY <1>0, <1>3, <1>4 DEF OutsSeen, OutPlug
  <2>2. Made(outs') = {OutPlug(w, RunPipe(w)) : w \in ws}
    BY <1>2, <1>4, <2>1 DEF Made, PlugsOf, OutPlug
  <2> QED
    BY <1>3, <1>4, <2>2 DEF OutsSeen
<1>7. InsSeen(d)'
  <2>1. \A x \in Made(ins) : x[1] \in ns
    BY <1>0, <1>3, <1>4 DEF InsSeen, InPlug
  <2>2. Made(ins') = {InPlug(w, RunPipe(w)) : w \in ws \ pumped}
    BY <1>2, <1>4, <2>1 DEF Made, PlugsOf, InPlug
  <2> QED
    BY <1>3, <1>4, <2>2 DEF InsSeen
<1>8. PumpsSeen(d)'
  BY <1>0, <1>1, <1>2, <1>3 DEF PumpsSeen
<1> QED
  BY <1>5, <1>6, <1>7, <1>8 DEF PlugsSeen

\* A session that is stopped loses its pumps, and nothing else.
LEMMA PlugsStop ==
  ASSUME NEW c, PlugsSeen(c), StopSession
  PROVE  PlugsSeen(c)'
<1>1. /\ stopped' = TRUE /\ sessionPumps' \subseteq sessionPumps
      /\ UNCHANGED <<outs, ins, edgePipe, pumps>>
  BY DEF StopSession
<1>2. \A w : PipeOf(w, c)' = PipeOf(w, c)
  BY <1>1 DEF PipeOf
<1>3. EdgesKnown(c)'
  BY <1>1 DEF PlugsSeen, EdgesKnown
<1>4. OutsSeen(c)' /\ InsSeen(c)'
  BY <1>1, <1>2 DEF PlugsSeen, OutsSeen, InsSeen
<1>5. PumpsSeen(c)'
  BY <1>1 DEF PlugsSeen, PumpsSeen
<1> QED
  BY <1>3, <1>4, <1>5 DEF PlugsSeen

LEMMA PlugsStep ==
  ASSUME Steady, NEW c, PlugsSeen(c), SeenState(c), NEW d, Neat(d), Moves(c, d)
  PROVE  PlugsSeen(d)'
<1>1. CASE c = d /\ UNCHANGED <<wiring, unwiring>>
  <2>1. UNCHANGED <<outs, ins, edgePipe, pumps, session>> /\ sessionPumps' = sessionPumps
    BY <1>1 DEF wiring, session
  <2>2. PumpsSeen(d)'
    BY <1>1, <2>1, PumpsStay DEF PlugsSeen
  <2> QED
    BY <1>1, <2>1, <2>2, PlugsStay
<1>2. CASE \E n \in Nodes : CreateNode(n) /\ Edit(Create(n), c, d)
  <2>1. UNCHANGED <<outs, ins, edgePipe, pumps, session>> /\ sessionPumps' = sessionPumps
    BY <1>2 DEF CreateNode, wiring, session
  <2>2. RealWires(d) = RealWires(c) /\ d.ran = c.ran
    BY <1>2 DEF Edit, Create, RealWires
  <2>3. PumpsSeen(d)'
    BY <2>1, <2>2, PumpsStay DEF PlugsSeen
  <2> QED
    BY <2>1, <2>2, <2>3, PlugsStay
<1>3. CASE \E n \in Nodes : DeleteNode(n) /\ Edit(Delete(n), c, d)
  BY <1>3, PlugsDeleteNode
<1>4. CASE \E n \in Nodes : (DeleteReturns(n) \/ NodeInit(n)) /\ c = d
  BY <1>4, PlugsDeleteReturns, PlugsNodeInit
<1>5. CASE \E w \in Wires : ConnectNodes(w) /\ Edit(Connect(w), c, d)
  BY <1>5, PlugsConnect
<1>6. CASE \E w \in Wires : RejectConnect(w) /\ w \notin Valid /\ Edit(Connect(w), c, d)
  <2>1. UNCHANGED <<outs, ins, edgePipe, pumps, session>> /\ sessionPumps' = sessionPumps
    BY <1>6 DEF RejectConnect, wiring, session
  <2>2. RealWires(d) = RealWires(c) /\ d.ran = c.ran
    BY <1>6 DEF Edit, Connect, RealWires
  <2>3. PumpsSeen(d)'
    BY <2>1, <2>2, PumpsStay DEF PlugsSeen
  <2> QED
    BY <2>1, <2>2, <2>3, PlugsStay
<1>7. CASE \E w \in Wires : DisconnectNodes(w) /\ Edit(Disconnect(w), c, d)
  BY <1>7, PlugsDisconnect
<1>8. CASE \E w \in Wires : DisconnectReturns(w) /\ c = d
  <2>1. UNCHANGED <<outs, ins, edgePipe, pumps, session>> /\ sessionPumps' = sessionPumps
    BY <1>8 DEF DisconnectReturns, session
  <2>2. PumpsSeen(d)'
    BY <1>8, <2>1, PumpsStay DEF PlugsSeen
  <2> QED
    BY <1>8, <2>1, <2>2, PlugsStay
<1>9. CASE \E r \in SoundRequests : RunSession(r) /\ Edit(r, c, d)
  BY <1>9, PlugsRun
<1>10. CASE StopSession /\ c = d
  BY <1>10, PlugsStop
<1> QED
  BY <1>1, <1>2, <1>3, <1>4, <1>5, <1>6, <1>7, <1>8, <1>9, <1>10 DEF Moves

-----------------------------------------------------------------------------
(* What works *)

PlugsInv ==
  /\ CanvasInv /\ Answered /\ PlugsAlone
  /\ Orderly => \E g : CanvasSeen(g) /\ PlugsSeen(g[0])

\* The pump that an attribute wire has of the session, if it is one of the
\* session's, is there.
PumpRuns(w, c) ==
  w \in c.ran /\ w.kind = "attribute" => InPlug(w, RunPipe(w)) \in sessionPumps

\* The wires of c that are valid work, if their pumps do, and no others.
WorksIn(c) == \A w \in Wires : Works(w) <=> (w \in RealWires(c) /\ PumpRuns(w, c))

\* The wires are records: nothing else tells them apart.
LEMMA SameWire ==
  ASSUME PlugsApart, NEW w \in Wires, NEW x \in Wires,
         Pair(w) = Pair(x), w.sourcePort = x.sourcePort
  PROVE  w = x
<1>1. w.source = x.source /\ w.target = x.target
  BY DEF Pair
<1>2. w.targetPort = x.targetPort /\ w.kind = x.kind
  BY DEF PlugsApart
<1>3. /\ w \in [source: Nodes, sourcePort: STRING, target: Nodes,
                targetPort: STRING, kind: {"data", "control", "attribute"}]
      /\ x \in [source: Nodes, sourcePort: STRING, target: Nodes,
                targetPort: STRING, kind: {"data", "control", "attribute"}]
  BY WiringAssumption DEF WiringAssumption
<1> QED
  BY <1>1, <1>2, <1>3

\* Wires with one pipe join the same nodes.
LEMMA OnePipe ==
  ASSUME NEW c, EdgesKnown(c), NEW w \in RealWires(c), NEW x \in RealWires(c),
         PipeOf(w, c) = PipeOf(x, c)
  PROVE  Pair(w) = Pair(x)
<1>1. CASE w \in c.ran
  <2>1. PipeOf(w, c) = RunPipe(w) /\ PipeOf(w, c)[1] = "run"
    BY <1>1, PipesTold, RunPipesMade
  <2>2. x \in c.ran
    BY <2>1, PipesTold
  <2>3. RunPipe(w) = RunPipe(x)
    BY <2>1, <2>2, PipesTold
  <2> QED
    BY <2>3 DEF RunPipe, Pair
<1>2. CASE w \notin c.ran
  <2>1. PipeOf(w, c)[1] = "edge" /\ PipeOf(w, c)[2] = w
    BY <1>2, PipesTold
  <2>2. x \notin c.ran
    BY <2>1, PipesTold, RunPipesMade
  <2> QED
    BY <2>1, <2>2, PipesTold
<1> QED
  BY <1>1, <1>2

LEMMA SeenWork ==
  ASSUME NEW c, SeenState(c), PlugsSeen(c), NEW w \in RealWires(c), PumpRuns(w, c)
  PROVE  Works(w)
<1>0. EdgesKnown(c) /\ OutsSeen(c) /\ InsSeen(c) /\ PumpsSeen(c)
  BY DEF PlugsSeen
<1>1. Found(w)
  BY DEF Found, SeenState, Neat, RealWires
<1> DEFINE x == OutPlug(w, PipeOf(w, c))
<1>2. x \in Plugged(outs, w.source, w.sourcePort) /\ x[3] = PipeOf(w, c)
  BY <1>0 DEF OutsSeen, Made, Plugged, OutPlug
<1>3. Reads(w, PipeOf(w, c))
  <2>1. CASE w.kind # "attribute"
    BY <1>0, <2>1 DEF Reads, InsSeen, Plugging, Made
  <2>2. CASE w.kind = "attribute"
    BY <1>0, <2>2 DEF Reads, PumpsSeen, PumpRuns, PipeOf
  <2> QED
    BY <2>1, <2>2
<1> QED
  BY <1>1, <1>2, <1>3 DEF Works

LEMMA WorkSeen ==
  ASSUME PlugsApart, PlugsAlone, NEW c, SeenState(c), PlugsSeen(c), NEW w \in Wires, Works(w)
  PROVE  w \in RealWires(c) /\ PumpRuns(w, c)
<1>0. EdgesKnown(c) /\ OutsSeen(c) /\ InsSeen(c) /\ PumpsSeen(c) /\ RealWires(c) \subseteq Wires
      /\ c.ran \subseteq RealWires(c)
  BY DEF PlugsSeen, SeenState, CanvasStates, Neat, RealWires
<1>1. PICK x \in outs : x[1] = w.source /\ x[2] = w.sourcePort /\ Reads(w, x[3])
  BY DEF Works, Plugged
<1> DEFINE pipe == x[3]
\* What reads the pipe is no other end of the node that made it.
<1>2. x \in Made(outs)
  <2> SUFFICES ASSUME pipe \in OwnPipes
               PROVE  FALSE
    BY DEF Made
  <2>1. pipe[1] = "output"
    BY <1>1 DEF PlugsAlone, OwnAlone, OwnPipe
  <2>2. InPlug(w, pipe) \notin ins
    <3> SUFFICES ASSUME InPlug(w, pipe) \in ins
                 PROVE  FALSE
      OBVIOUS
    <3>1. InPlug(w, pipe)[3] = pipe
      BY DEF InPlug
    <3>2. pipe[1] = "input"
      BY <3>1 DEF PlugsAlone, OwnAlone, OwnPipe
    <3> QED
      BY <2>1, <3>2
  <2>3. InPlug(w, pipe) \notin sessionPumps
    <3>1. \A y \in sessionPumps : y[3][1] = "run"
      BY <1>0, RunPipesMade DEF PumpsSeen, InPlug
    <3>2. InPlug(w, pipe)[3] = pipe
      BY DEF InPlug
    <3> QED
      BY <2>1, <3>1, <3>2
  <2>4. \A k \in DOMAIN pumps : pumps[k] # pipe
    BY <1>0, <2>1, EdgePipesMade DEF PumpsSeen
  <2> QED
    BY <1>1, <2>2, <2>3, <2>4 DEF Reads
<1>3. PICK y \in RealWires(c) : x = OutPlug(y, PipeOf(y, c))
  BY <1>0, <1>2 DEF OutsSeen
<1>4. y.source = w.source /\ y.sourcePort = w.sourcePort /\ PipeOf(y, c) = pipe
  BY <1>1, <1>3 DEF OutPlug
<1>5. y.target = w.target
  <2>1. CASE InPlug(w, pipe) \in ins
    <3>1. InPlug(w, pipe) \in Made(ins)
      BY <1>2, <2>1 DEF Made, InPlug
    <3>2. PICK z \in Plugging(c) : InPlug(w, pipe) = InPlug(z, PipeOf(z, c))
      BY <1>0, <3>1 DEF InsSeen
    <3>3. z \in RealWires(c) /\ z.target = w.target /\ PipeOf(z, c) = pipe
      BY <3>2 DEF InPlug, Plugging
    <3>4. Pair(z) = Pair(y)
      BY <1>0, <1>4, <3>3, OnePipe
    <3> QED
      BY <3>3, <3>4 DEF Pair
  <2>2. CASE InPlug(w, pipe) \in sessionPumps
    <3>1. PICK z \in c.ran : InPlug(w, pipe) = InPlug(z, RunPipe(z))
      BY <1>0, <2>2 DEF PumpsSeen
    <3>2. z \in RealWires(c) /\ z.target = w.target /\ PipeOf(z, c) = pipe
      BY <1>0, <3>1 DEF InPlug, PipeOf
    <3>3. Pair(z) = Pair(y)
      BY <1>0, <1>4, <3>2, OnePipe
    <3> QED
      BY <3>2, <3>3 DEF Pair
  <2>3. CASE PumpKey(w) \in DOMAIN pumps /\ pumps[PumpKey(w)] = pipe
    <3>1. PICK z \in Wires : PumpKey(z) = PumpKey(w) /\ pipe \in EdgePipes(z)
      BY <1>0, <2>3 DEF PumpsSeen
    <3>2. pipe[1] = "edge" /\ pipe[2] = z
      BY <3>1, EdgePipesMade
    <3>3. y = z
      BY <1>0, <1>4, <3>2, PipesTold, RunPipesMade
    <3> QED
      BY <3>1, <3>3 DEF PumpKey
  <2> QED
    BY <1>1, <2>1, <2>2, <2>3 DEF Reads
<1>6. w = y
  BY <1>0, <1>4, <1>5, SameWire DEF Pair
<1>7. PumpRuns(w, c)
  <2> SUFFICES ASSUME w \in c.ran, w.kind = "attribute"
               PROVE  InPlug(w, RunPipe(w)) \in sessionPumps
    BY DEF PumpRuns
  <2>1. pipe = RunPipe(w) /\ pipe[1] = "run"
    BY <1>4, <1>6, RunPipesMade DEF PipeOf
  <2>2. \A k \in DOMAIN pumps : pumps[k][1] = "edge"
    BY <1>0, EdgePipesMade DEF PumpsSeen
  <2> QED
    BY <1>1, <2>1, <2>2 DEF Reads
<1> QED
  BY <1>6, <1>7

LEMMA WorksAsSeen ==
  ASSUME PlugsApart
  PROVE  \A c : PlugsAlone /\ SeenState(c) /\ PlugsSeen(c) => WorksIn(c)
BY SeenWork, WorkSeen DEF WorksIn

\* The same, one step later.
LEMMA WorksNext ==
  ASSUME PlugsApart
  PROVE  \A c : PlugsAlone' /\ SeenState(c)' /\ PlugsSeen(c)' => WorksIn(c)'
<1>1. (\A c : PlugsAlone /\ SeenState(c) /\ PlugsSeen(c) => WorksIn(c))'
  BY WorksAsSeen, PTL
<1> QED
  BY <1>1

LEMMA PlugsInvInit ==
  ASSUME Init
  PROVE  PlugsInv
<1> DEFINE e == [nodes |-> {}, wires |-> {}, ran |-> {}]
<1>1. PlugsAlone
  BY DEF Init, PlugsAlone, OwnAlone
<1>2. RealWires(e) = {} /\ Plugging(e) = {}
  BY DEF RealWires, Plugging
<1>3. PlugsSeen(e)
  BY <1>2 DEF PlugsSeen, EdgesKnown, OutsSeen, InsSeen, PumpsSeen, Made, Init
<1> QED
  BY <1>1, <1>3, SeenInit DEF PlugsInv

\* One step of the backend, from the canvas it has seen to the next one.
LEMMA PlugsInvMoves ==
  ASSUME Steady, PlugsInv, [Next]_vars, Orderly'
  PROVE  \E g, h : /\ SeenState(g[0]) /\ PlugsSeen(g[0]) /\ Moves(g[0], h[0])
                   /\ CanvasSeen(h)' /\ SeenState(h[0])' /\ PlugsSeen(h[0])'
<1>0. Orderly /\ inOrder /\ ~ outdated'
  BY OrderStays
<1>1. PICK g : CanvasSeen(g) /\ PlugsSeen(g[0])
  BY <1>0 DEF PlugsInv
<1>2. SeenState(g[0])
  BY <1>1, SeenStateHolds DEF PlugsInv
<1>3. PICK h : CanvasSeen(h)' /\ Moves(g[0], h[0])
  BY <1>0, <1>1, SeenStep DEF PlugsInv
<1>4. CanvasInv'
  BY CanvasStep DEF PlugsInv
<1>5. SeenState(h[0])'
  BY <1>3, <1>4, SeenNext DEF SeenState
<1>6. PlugsSeen(h[0])'
  BY <1>1, <1>2, <1>3, <1>5, PlugsStep DEF SeenState
<1> QED
  BY <1>1, <1>2, <1>3, <1>5, <1>6

LEMMA PlugsInvStep ==
  ASSUME Steady, PlugsInv, [Next]_vars
  PROVE  PlugsInv'
<1>1. CanvasInv' /\ Answered' /\ PlugsAlone'
  BY CanvasStep, AnsweredStep, PlugsAloneStep DEF PlugsInv
<1>2. Orderly' => \E h : CanvasSeen(h)' /\ PlugsSeen(h[0])'
  BY PlugsInvMoves
<1> QED
  BY <1>1, <1>2 DEF PlugsInv

\* What is drawn is what is wired: as long as requests are served in the order
\* they were sent, and every start of a session is of what is drawn when it is
\* asked for, then whenever all are done, deletions and disconnects that were
\* suspended included, the live nodes are those on the canvas, and exactly the
\* wires on the canvas work, from the output to whatever reads them, but for
\* the attribute wires of a session that is stopped. It takes that refused
\* wires are drawn where no valid one can be, that only one wire at a time
\* joins two nodes, and that what Run has built stays (syncWireToBackend(),
\* runWorkflow(), connect_nodes(), disconnect_nodes(), Engine.run()).
THEOREM WiringAsDrawn ==
  ASSUME Steady, PlugsApart
  PROVE  Spec => []WiredAsDrawn
<1>1. Init => PlugsInv
  BY PlugsInvInit
<1>2. PlugsInv /\ [Next]_vars => PlugsInv'
  BY PlugsInvStep
<1>3. PlugsInv => WiredAsDrawn
  <2> SUFFICES ASSUME PlugsInv, Orderly, Quiet
               PROVE  Matching
    BY DEF WiredAsDrawn
  <2>1. PICK g : CanvasSeen(g) /\ PlugsSeen(g[0])
    BY DEF PlugsInv
  <2>2. g[0] = TheCanvas /\ drawn \subseteq Valid /\ live = nodes
    BY <2>1, SeenQuiet DEF PlugsInv
  <2>3. WorksIn(g[0])
    BY <2>1, SeenStateHolds, WorksAsSeen DEF PlugsInv
  <2>4. RealWires(g[0]) = drawn
    BY <2>2 DEF RealWires, TheCanvas
  <2>5. \A w \in drawn : ~ Dead(w) => PumpRuns(w, g[0])
    BY <2>1, <2>2, <2>4 DEF PlugsSeen, PumpsSeen, PumpRuns, Dead, TheCanvas
  <2> QED
    BY <2>2, <2>3, <2>4, <2>5 DEF WorksIn, Matching
<1> QED
  BY <1>1, <1>2, <1>3, PTL DEF Spec

\* No queue fills up behind the wires: when all requests are done, each pipe
\* that is not a self-contained node's own has someone who writes it and
\* someone who reads it (or had, if its session is stopped), also where several
\* wires join two nodes, as long as requests are served in order and starts are
\* of what is drawn (disconnect_nodes(), delete_node(), the pumps).
THEOREM NoEndIsDead ==
  ASSUME Steady
  PROVE  Spec => []NoDeadEnds
<1>1. Init => PlugsInv
  BY PlugsInvInit
<1>2. PlugsInv /\ [Next]_vars => PlugsInv'
  BY PlugsInvStep
<1>3. PlugsInv => NoDeadEnds
  <2> DEFINE made(plugs) == {x[3] : x \in plugs} \ OwnPipes
             read == made(ins \cup sessionPumps) \cup {pumps[k] : k \in DOMAIN pumps}
                       \cup {RunPipe(w) : w \in {x \in Wires : Dead(x)}}
  <2> SUFFICES ASSUME PlugsInv, Orderly, Quiet
               PROVE  made(outs) \subseteq read /\ made(ins) \subseteq made(outs)
    BY DEF NoDeadEnds
  <2>1. PICK g : CanvasSeen(g) /\ PlugsSeen(g[0])
    BY DEF PlugsInv
  <2> DEFINE c == g[0]
  <2>2. /\ EdgesKnown(c) /\ OutsSeen(c) /\ InsSeen(c) /\ PumpsSeen(c)
        /\ c.ran = ran /\ RealWires(c) \subseteq Wires
    BY <2>1, SeenQuiet, WiringAssumption
    DEF PlugsSeen, PlugsInv, TheCanvas, RealWires, WiringAssumption
  <2> HIDE DEF c
  <2>3. ASSUME NEW p \in made(outs)
        PROVE  p \in read
    <3>1. PICK x \in Made(outs) : x[3] = p
      BY DEF Made
    <3>2. PICK w \in RealWires(c) : p = PipeOf(w, c)
      BY <2>2, <3>1 DEF OutsSeen, OutPlug
    <3>3. CASE w.kind # "attribute"
      <4>1. InPlug(w, p) \in ins /\ InPlug(w, p)[3] = p
        BY <2>2, <3>2, <3>3 DEF InsSeen, Plugging, InPlug, Made
      <4> QED
        BY <4>1
    <3>4. CASE w.kind = "attribute" /\ w \in c.ran
      <4>1. p = RunPipe(w) /\ InPlug(w, p)[3] = p
        BY <3>2, <3>4 DEF PipeOf, InPlug
      <4>2. stopped \/ InPlug(w, p) \in sessionPumps
        BY <2>2, <3>4, <4>1 DEF PumpsSeen
      <4>3. stopped => Dead(w) /\ w \in Wires
        BY <2>2, <3>4 DEF Dead
      <4> QED
        BY <4>1, <4>2, <4>3
    <3>5. CASE w.kind = "attribute" /\ w \notin c.ran
      BY <2>2, <3>2, <3>5 DEF PumpsSeen, PipeOf
    <3> QED
      BY <3>3, <3>4, <3>5
  <2>4. ASSUME NEW p \in made(ins)
        PROVE  p \in made(outs)
    <3>1. PICK x \in Made(ins) : x[3] = p
      BY DEF Made
    <3>2. PICK w \in RealWires(c) : p = PipeOf(w, c)
      BY <2>2, <3>1 DEF InsSeen, InPlug, Plugging
    <3>3. OutPlug(w, p) \in outs /\ OutPlug(w, p)[3] = p
      BY <2>2, <3>2 DEF OutsSeen, OutPlug, Made
    <3> QED
      BY <3>3
  <2> QED
    BY <2>3, <2>4
<1> QED
  BY <1>1, <1>2, <1>3, PTL DEF Spec

\* No removal cuts another wire: as long as requests are served in order and
\* starts are of what is drawn, a wire that stops working does so in the step
\* that serves its own disconnect, or, an attribute wire, in the one that stops
\* its session (disconnect_nodes(), its `len(pipes) == 1` fallback,
\* delete_node(), run(), Session.stop()).
THEOREM RemovalsAsked ==
  ASSUME Steady, PlugsApart
  PROVE  Spec => OnlyAskedRemovals
<1>1. Init => PlugsInv
  BY PlugsInvInit
<1>2. PlugsInv /\ [Next]_vars => PlugsInv'
  BY PlugsInvStep
<1>3. PlugsInv /\ [Next]_vars =>
        [\A w \in Wires :
           Orderly /\ Works(w) /\ ~ Works(w)' =>
             Serving(Disconnect(w)) \/ (w.kind = "attribute" /\ StopSession)]_vars
  <2> SUFFICES ASSUME PlugsInv, [Next]_vars, NEW w \in Wires, Orderly, Works(w), ~ Works(w)'
               PROVE  Serving(Disconnect(w)) \/ (w.kind = "attribute" /\ StopSession)
    OBVIOUS
  <2>0. Orderly'
    <3> SUFFICES ASSUME ~ Orderly'
                 PROVE  FALSE
      OBVIOUS
    <3>1. AskStart
      BY OrderStays DEF Orderly
    <3>2. UNCHANGED <<live, outs, ins, sessionPumps, pumps>>
      BY <3>1 DEF AskStart, wiring, session
    <3> QED
      BY <3>2 DEF Works, Found, Plugged, Reads
  <2>1. PICK g, h : /\ SeenState(g[0]) /\ PlugsSeen(g[0]) /\ Moves(g[0], h[0])
                    /\ SeenState(h[0])' /\ PlugsSeen(h[0])'
    BY <2>0, PlugsInvMoves
  <2> DEFINE c == g[0]
             d == h[0]
  <2> HIDE DEF c, d
  <2>2. PlugsAlone /\ CanvasInv /\ PlugsAlone'
    BY PlugsAloneStep DEF PlugsInv
  <2>3. w \in RealWires(c) /\ PumpRuns(w, c)
    BY <2>1, <2>2, WorksAsSeen DEF WorksIn, c
  <2>4. w \notin RealWires(d) \/ ~ PumpRuns(w, d)'
    BY <2>1, <2>2, WorksNext DEF WorksIn, d
  <2>5. CASE w \notin RealWires(d)
    <3>1. w \in c.wires /\ w \notin d.wires
      BY <2>3, <2>5 DEF RealWires
    <3>2. /\ \A n : Edit(Create(n), c, d) \/ Edit(Delete(n), c, d) => d.wires = c.wires
          /\ \A x : Edit(Connect(x), c, d) => c.wires \subseteq d.wires
      BY DEF Edit, Create, Delete, Connect
    <3>3. \A r : RunSession(r) /\ Edit(r, c, d) => d.wires = c.wires
      BY DEF Edit, RunSession
    <3>4. PICK x \in Wires : DisconnectNodes(x) /\ Edit(Disconnect(x), c, d)
      BY <2>1, <3>1, <3>2, <3>3 DEF Moves, c, d
    <3>5. x = w
      BY <3>1, <3>4 DEF Edit, Disconnect
    <3> QED
      BY <3>4, <3>5 DEF DisconnectNodes
  <2>6. CASE ~ PumpRuns(w, d)'
    <3>1. /\ w \in d.ran /\ w.kind = "attribute"
          /\ InPlug(w, RunPipe(w)) \notin sessionPumps'
      BY <2>6 DEF PumpRuns
    <3>2. ~ (d.ran \subseteq c.ran /\ sessionPumps' = sessionPumps)
      BY <2>3, <3>1 DEF PumpRuns
    <3>3. \A r : ~ (RunSession(r) /\ Edit(r, c, d))
      <4> SUFFICES ASSUME NEW r, RunSession(r), Edit(r, c, d)
                   PROVE  FALSE
        OBVIOUS
      <4>1. d.ran = r.of.wires
        BY DEF Edit, RunSession
      <4> QED
        BY <3>1, <4>1 DEF RunSession
    <3>4. /\ \A n : Edit(Create(n), c, d) \/ Edit(Delete(n), c, d) => d.ran \subseteq c.ran
          /\ \A x : Edit(Connect(x), c, d) \/ Edit(Disconnect(x), c, d) => d.ran \subseteq c.ran
      BY DEF Edit, Create, Delete, Connect, Disconnect
    <3>5. /\ UNCHANGED wiring => sessionPumps' = sessionPumps
          /\ \A n : CreateNode(n) \/ DeleteNode(n) \/ DeleteReturns(n) \/ NodeInit(n) =>
                 sessionPumps' = sessionPumps
          /\ \A x : ConnectNodes(x) \/ RejectConnect(x) \/ DisconnectNodes(x)
                      \/ DisconnectReturns(x) => sessionPumps' = sessionPumps
      BY DEF CreateNode, DeleteNode, DeleteReturns, NodeInit, ConnectNodes, RejectConnect,
             DisconnectNodes, DisconnectReturns, wiring, session
    <3>6. Moves(c, d) => StopSession
      BY <3>2, <3>3, <3>4, <3>5 DEF Moves
    <3> QED
      BY <2>1, <3>1, <3>6 DEF c, d
  <2> QED
    BY <2>4, <2>5, <2>6
<1> QED
  BY <1>1, <1>2, <1>3, PTL DEF Spec, OnlyAskedRemovals

-----------------------------------------------------------------------------
(* Who reads a pipe *)

Pumped == {<<k[2], k[3], pumps[k]>> : k \in DOMAIN pumps}
Reading == ins \cup sessionPumps \cup Pumped

\* The plug x reads for the wire w.
ReadsFor(w, c, x) ==
  /\ x = InPlug(w, x[3])
  /\ (w \in RealWires(c) /\ x[3] = PipeOf(w, c)) \/ x[3] \in EdgePipes(w)

LEMMA ReadByWire ==
  ASSUME NEW c, SeenState(c), PlugsSeen(c), NEW x \in Reading
  PROVE  \/ x \in ins /\ x[3] \in OwnPipes
         \/ x[3] \notin OwnPipes /\ \E w \in Wires : ReadsFor(w, c, x)
<1>0. EdgesKnown(c) /\ InsSeen(c) /\ PumpsSeen(c) /\ RealWires(c) \subseteq Wires
      /\ c.ran \subseteq RealWires(c)
  BY DEF PlugsSeen, SeenState, CanvasStates, Neat, RealWires
<1>1. CASE x \in ins
  <2>1. CASE x[3] \notin OwnPipes
    <3>1. PICK w \in Plugging(c) : x = InPlug(w, PipeOf(w, c))
      BY <1>0, <1>1, <2>1 DEF InsSeen, Made
    <3>2. w \in RealWires(c) /\ x[3] = PipeOf(w, c)
      BY <3>1 DEF Plugging, InPlug
    <3> QED
      BY <1>0, <2>1, <3>1, <3>2 DEF ReadsFor
  <2> QED
    BY <1>1, <2>1
<1>2. CASE x \in sessionPumps
  <2>1. PICK w \in c.ran : x = InPlug(w, RunPipe(w))
    BY <1>0, <1>2 DEF PumpsSeen
  <2>2. w \in RealWires(c) /\ x[3] = RunPipe(w) /\ x[3] = PipeOf(w, c)
    BY <1>0, <2>1 DEF InPlug, PipeOf
  <2>3. x[3] \notin OwnPipes
    BY <2>2, RunPipesMade
  <2> QED
    BY <1>0, <2>1, <2>2, <2>3 DEF ReadsFor
<1>3. CASE x \in Pumped
  <2>1. PICK k \in DOMAIN pumps : x = <<k[2], k[3], pumps[k]>>
    BY <1>3 DEF Pumped
  <2>2. PICK w \in Wires : w.kind = "attribute" /\ PumpKey(w) = k /\ pumps[k] \in EdgePipes(w)
    BY <1>0, <2>1 DEF PumpsSeen
  <2>3. x = InPlug(w, x[3]) /\ x[3] \in EdgePipes(w)
    BY <2>1, <2>2 DEF PumpKey, InPlug, InPort
  <2>4. x[3] \notin OwnPipes
    BY <2>3, EdgePipesMade
  <2> QED
    BY <2>2, <2>3, <2>4 DEF ReadsFor
<1> QED
  BY <1>1, <1>2, <1>3 DEF Reading

LEMMA OneReadFor ==
  ASSUME PlugsApart, NEW c, EdgesKnown(c), NEW w \in Wires, NEW v \in Wires, NEW x, NEW y,
         ReadsFor(w, c, x), ReadsFor(v, c, y), x[3] = y[3]
  PROVE  x = y
<1>1. Pair(w) = Pair(v)
  <2>1. CASE x[3] \in EdgePipes(w) /\ x[3] \in EdgePipes(v)
    BY <2>1, EdgePipesMade
  <2>2. CASE w \in RealWires(c) /\ x[3] = PipeOf(w, c) /\ x[3] \in EdgePipes(v)
    BY <2>2, EdgePipesMade, PipesTold, RunPipesMade
  <2>3. CASE v \in RealWires(c) /\ x[3] = PipeOf(v, c) /\ x[3] \in EdgePipes(w)
    BY <2>3, EdgePipesMade, PipesTold, RunPipesMade
  <2>4. CASE /\ w \in RealWires(c) /\ x[3] = PipeOf(w, c)
             /\ v \in RealWires(c) /\ x[3] = PipeOf(v, c)
    BY <2>4, OnePipe
  <2> QED
    BY <2>1, <2>2, <2>3, <2>4 DEF ReadsFor
<1>2. w.target = v.target /\ w.targetPort = v.targetPort /\ w.kind = v.kind
  BY <1>1 DEF PlugsApart, Pair
<1>3. x = InPlug(w, x[3]) /\ y = InPlug(v, x[3])
  BY DEF ReadsFor
<1> QED
  BY <1>2, <1>3 DEF InPlug, InPort

\* No two inputs or attributes take turns at one pipe, so that each item emitted
\* reaches every wire of the output, before and after any Run, as long as
\* requests are served in order and starts are of what is drawn (Engine.pipes,
\* _edge_pipes, _attribute_pump_tasks).
THEOREM ReadersApart ==
  ASSUME Steady, PlugsApart
  PROVE  Spec => []OneReader
<1>1. Init => PlugsInv
  BY PlugsInvInit
<1>2. PlugsInv /\ [Next]_vars => PlugsInv'
  BY PlugsInvStep
<1>3. PlugsInv => OneReader
  <2> SUFFICES ASSUME PlugsInv, Orderly, NEW x \in Reading, NEW y \in Reading, x[3] = y[3]
               PROVE  x = y
    BY DEF OneReader, Reading, Pumped
  <2>1. PICK g : CanvasSeen(g) /\ PlugsSeen(g[0])
    BY DEF PlugsInv
  <2> DEFINE c == g[0]
  <2>2. SeenState(c) /\ PlugsSeen(c) /\ EdgesKnown(c)
    BY <2>1, SeenStateHolds DEF PlugsInv, PlugsSeen
  <2> HIDE DEF c
  <2>3. CASE x[3] \in OwnPipes
    <3>1. x \in ins /\ y \in ins
      BY <2>2, <2>3, ReadByWire
    <3>2. /\ x = <<x[1], x[2], x[3]>> /\ x[3] = OwnPipe("input", x[1], x[2])
          /\ y = <<y[1], y[2], y[3]>> /\ y[3] = OwnPipe("input", y[1], y[2])
      BY <2>3, <3>1 DEF PlugsInv, PlugsAlone, OwnAlone
    <3>3. x[1] = y[1] /\ x[2] = y[2]
      BY <3>2 DEF OwnPipe
    <3> QED
      BY <3>2, <3>3
  <2>4. CASE x[3] \notin OwnPipes
    <3>1. \E w, v \in Wires : ReadsFor(w, c, x) /\ ReadsFor(v, c, y)
      BY <2>2, <2>4, ReadByWire
    <3> QED
      BY <2>2, <3>1, OneReadFor
  <2> QED
    BY <2>3, <2>4
<1> QED
  BY <1>1, <1>2, <1>3, PTL DEF Spec
=============================================================================
