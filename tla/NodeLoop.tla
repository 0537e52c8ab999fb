------------------------------ MODULE NodeLoop ------------------------------
(***************************************************************************)
(* The process loop that nearly every node type is built around: one task  *)
(* that looks at the node's input ports, reads each with a timeout, and    *)
(* handles what it reads before it waits again.  The modules of the node   *)
(* types say what a type reads, keeps and emits; this one says when.       *)
(*                                                                         *)
(* A step is the code between two suspension points.  The task may be      *)
(* cancelled at any of them (pause, stop): its local variables are gone    *)
(* then, the attributes of the node are not.  Pipes lose nothing when a    *)
(* read is cancelled.  The calls that start and cancel the task are        *)
(* modelled one by one in NodeLifecycle; here each is one step.            *)
(*                                                                         *)
(* A definition marked "Defect" is a wrong version of the one after it, to *)
(* check that the properties would notice; no specification uses it.       *)
(***************************************************************************)
EXTENDS Naturals, Sequences, FiniteSets, SequencesExt

CONSTANTS
  MaxItems,  \* how many items the other nodes send
  MaxCalls,  \* how many times the node is paused, stopped, retried or changed
  MaxOut     \* how much a node emits by itself: a bound for types that never end

ASSUME NodeLoopAssumption == MaxItems \in Nat /\ MaxCalls \in Nat /\ MaxOut \in Nat

VARIABLES
  node,    \* the node's type, its ports, how it polls them, and its options
  wired,   \* the ports with a wire (in the order they were wired, if it matters)
  pipe,    \* what waits on each port
  sent,    \* how many items were sent to the node
  life,    \* "stopped", "running" or "paused"
  pc,      \* where the task is suspended; "none": there is no task
  turn,    \* the ports this turn of the loop polls
  pass,    \* those of them still to be polled
  local,   \* the other local variables of process()
  mem,     \* what the node keeps on self
  out,     \* what it emitted: all of it, or the last of it (see the types)
  got,     \* history: the items it read
  base,    \* history: how many of them before the last init() or reset()
  starts,  \* history: how often init() has run
  cuts,    \* history: how often its process was cut: cancelled, or tried again
  calls    \* how many of MaxCalls were made

envVars  == <<wired, sent>>
lifeVars == <<life, starts, cuts, calls>>
loopVars == <<pc, turn, pass, local>>
dataVars == <<pipe, mem, out, got, base>>
vars     == <<lifeVars, loopVars, node, envVars, dataVars>>

\* What a node emits for an item that was read, one record for each read.
Emission(i, ports, form) == [item |-> i, to |-> ports, form |-> form]

\* What was read since the last init() or reset().
Fresh == SubSeq(got, base + 1, Len(got))

LastN(s, n) == SubSeq(s, IF Len(s) > n THEN Len(s) - n + 1 ELSE 1, Len(s))

-----------------------------------------------------------------------------
(* What the loop looks at.                                                 *)

\* The ports of a turn: one port that the code names (or several, in its
\* order), the first that was wired, or a snapshot of all of them.
Polled ==
  IF node.polls = "first" /\ wired # <<>> THEN <<Head(wired)>> ELSE wired

\* Defect: every type keeps the pipes it found.
NextTurnStale == turn

\* Two kinds of types read on from the pipe that they found: one that polls
\* "once" looks for it when its task begins, one that polls "kept" waits for it.
NextTurn == IF node.polls \in {"once", "kept"} THEN turn ELSE Polled

\* process() is entered with the locals l, by a new task.
Enter(l) == pc' = "loop" /\ turn' = Polled /\ pass' = Polled /\ local' = l
Leave == pc' = "none" /\ turn' = <<>> /\ pass' = <<>> /\ local' = <<>>

Give(s, i, ports, form) == [s EXCEPT !.out = Append(@, Emission(i, ports, form))]

Self == [mem |-> mem, local |-> local, out |-> out, pc |-> pc]
Becomes(s) == mem' = s.mem /\ local' = s.local /\ out' = s.out /\ pc' = s.pc

\* One wait_for(pipe.get()): it returns an item, or times out because there
\* is none.  Take handles the item; End is the rest of the turn, after the
\* last port.  A task that is over ("ended"), or has raised ("failed"), polls no
\* more.
Poll(Take(_, _, _), End(_)) ==
  /\ pc = "loop"
  /\ pass # <<>>
  /\ LET p == Head(pass)
         Rest(s) == IF Len(pass) = 1 /\ s.pc = "loop" THEN End(s) ELSE s
     IN \/ /\ pipe[p] # <<>>
           /\ Becomes(Rest(Take(Self, p, Head(pipe[p]))))
           /\ pipe' = [pipe EXCEPT ![p] = Tail(@)]
           /\ got' = Append(got, Head(pipe[p]))
        \/ /\ pipe[p] = <<>>
           /\ Becomes(Rest(Self))
           /\ UNCHANGED <<pipe, got>>
  /\ IF pc' = "loop" /\ Len(pass) > 1
     THEN pass' = Tail(pass) /\ UNCHANGED turn
     ELSE turn' = (IF pc' = "loop" THEN NextTurn ELSE <<>>) /\ pass' = turn'
  /\ UNCHANGED <<node, envVars, lifeVars, base>>

\* A type whose turn is one read, and what it does with the item.
Each(type, Take(_, _, _)) ==
  /\ node.type = type
  /\ Poll(Take, LAMBDA s : s)

\* One turn of a loop that reads no port: it ends with a sleep, or for good.
Turn(type, s) ==
  /\ node.type = type
  /\ pc = "loop"
  /\ Len(s.out) <= MaxOut
  /\ Becomes(s)
  /\ UNCHANGED <<node, envVars, lifeVars, turn, pass, pipe, got, base>>

\* Back to the top of the loop, with the locals l, from another await.
Again(o, m, l) ==
  /\ Enter(l)
  /\ out' = o
  /\ mem' = m
  /\ UNCHANGED <<node, envVars, lifeVars, pipe, got, base>>

\* With nothing to poll the loop sleeps, and looks again.
Wake ==
  /\ pc = "loop"
  /\ turn = <<>>
  /\ node.polls # "once"
  /\ Polled # <<>>
  /\ turn' = Polled
  /\ pass' = Polled
  /\ UNCHANGED <<node, envVars, lifeVars, pc, local, dataVars>>

-----------------------------------------------------------------------------
(* What others do to the node, and what its own start-up does again.       *)

Init(types) ==
  /\ node \in types
  /\ wired = <<>>
  /\ pipe = [p \in ToSet(node.ports) |-> <<>>]
  /\ sent = 0
  /\ life = "stopped"
  /\ pc = "none"
  /\ turn = <<>>
  /\ pass = <<>>
  /\ local = <<>>
  /\ mem = <<>>
  /\ out = <<>>
  /\ got = <<>>
  /\ base = 0
  /\ starts = 0
  /\ cuts = 0
  /\ calls = 0

InPortOrder(s) ==
  \A j, k \in DOMAIN s : j < k =>
    \E m, n \in DOMAIN node.ports : m < n /\ node.ports[m] = s[j] /\ node.ports[n] = s[k]

\* The order of the wires matters to a node that looks for the first, or all;
\* any other polls the ports it names in its own order.
Wire(p) ==
  /\ ~Contains(wired, p)
  /\ \E k \in 1..(Len(wired) + 1) : wired' = InsertAt(wired, k, p)
  /\ IF node.polls \in {"first", "all"} THEN wired' = Append(wired, p) ELSE InPortOrder(wired')
  /\ UNCHANGED <<node, sent, lifeVars, loopVars, dataVars>>

\* An item is a number, and whether it is ok: what that means depends on the
\* type and the port, and for most it means nothing (node.varies).
Send(p, ok) ==
  /\ sent < MaxItems
  /\ ok \/ p \in node.varies
  /\ Contains(wired, p)
  /\ sent' = sent + 1
  /\ pipe' = [pipe EXCEPT ![p] = Append(@, [port |-> p, n |-> sent + 1, ok |-> ok])]
  /\ UNCHANGED <<node, wired, lifeVars, loopVars, mem, out, got, base>>

\* start(): init() sets the attributes m, the task begins with the locals l.
Start(m, l) ==
  /\ life = "stopped"
  /\ life' = "running"
  /\ Enter(l)
  /\ mem' = m
  /\ base' = Len(got)
  /\ starts' = starts + 1
  /\ UNCHANGED <<node, envVars, cuts, calls, pipe, out, got>>

Cancel ==
  /\ calls < MaxCalls
  /\ calls' = calls + 1
  /\ cuts' = cuts + 1
  /\ Leave

Pause ==
  /\ life = "running"
  /\ life' = "paused"
  /\ Cancel
  /\ UNCHANGED <<node, envVars, starts, dataVars>>

\* resume() starts another task, without init().
Resume(l) ==
  /\ life = "paused"
  /\ life' = "running"
  /\ Enter(l)
  /\ UNCHANGED <<node, envVars, starts, cuts, calls, dataVars>>

Stop ==
  /\ life # "stopped"
  /\ life' = "stopped"
  /\ Cancel
  /\ UNCHANGED <<node, envVars, starts, dataVars>>

\* _run_loop(): a process that raised is begun again, with another init(), if
\* the node's config has retries left for it.
Retry(m, l) ==
  /\ pc = "failed"
  /\ calls < MaxCalls
  /\ calls' = calls + 1
  /\ cuts' = cuts + 1
  /\ starts' = starts + 1
  /\ Enter(l)
  /\ mem' = m
  /\ base' = Len(got)
  /\ UNCHANGED <<node, envVars, life, pipe, out, got>>

\* reset(): its attributes become m, with its task left where it is.
Reset(m) ==
  /\ life # "stopped"
  /\ calls < MaxCalls
  /\ calls' = calls + 1
  /\ mem' = m
  /\ base' = Len(got)
  /\ UNCHANGED <<node, envVars, life, starts, cuts, loopVars, pipe, out, got>>

\* set_attribute(): an attribute wire changes one attribute of the node.
SetAttribute(m) ==
  /\ life # "stopped"
  /\ calls < MaxCalls
  /\ calls' = calls + 1
  /\ mem' = m
  /\ UNCHANGED <<node, envVars, life, starts, cuts, loopVars, pipe, out, got, base>>
=============================================================================
