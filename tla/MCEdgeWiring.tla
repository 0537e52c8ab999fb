---------------------------- MODULE MCEdgeWiring ----------------------------
(* EdgeWiring on three nodes.  In Sound, no two wires that can be drawn     *)
(* together join the same nodes: those from a to b share an input slot.     *)
EXTENDS EdgeWiring, TLC

CONSTANTS a, b, c

Wire(s, sp, t, tp, k) ==
  [source |-> s, sourcePort |-> sp, target |-> t, targetPort |-> tp, kind |-> k]

DataWire == Wire(a, "out", b, "in", "data")
OtherPort == Wire(a, "aux", b, "in", "data")
Attribute == Wire(c, "out", b, "path", "attribute")
Control == Wire(a, "out", c, "control", "control")
NoSuchPort == Wire(b, "nowhere", a, "nowhere", "data")

Sound == {DataWire, OtherPort, Attribute, Control}
All == Sound \cup {NoSuchPort}
SelfFed == {<<b, "in">>}
SelfRead == {<<a, "out">>}

\* What the theorems assume of wires holds of these.
ASSUME WiresApart ==
  Wires = All => PlugsApart /\ TargetsApart /\ \A w \in Sound : ~ ShareAPort(w, NoSuchPort)

\* Wires that PlugsApart keeps out: from one output to two inputs of one node.
SecondInput == Wire(a, "out", b, "retain", "data")
Parallel == {DataWire, SecondInput}

\* One wire, to be drawn while a Run is being prepared.
Drawable == {DataWire}
Ordered == (TRUE :> 4 @@ FALSE :> 0)

\* Out of order, what is lost stays lost, and there is no end to it: two nodes
\* and the wire between them are enough then, while it can be drawn again.
Few == (TRUE :> 4 @@ FALSE :> 3)
InPlace == inOrder \/ (nodes \cup live \subseteq {b, c} /\ FreshPipes(Attribute) # {})

\* After an outdated start nothing more is promised of what is drawn.
Current == ~ outdated
=============================================================================
