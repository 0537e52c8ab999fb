----------------------------- MODULE NodeTypes -----------------------------
(***************************************************************************)
(* One node of any of the modelled types among the others: they wire its   *)
(* ports and send items, and it is started, paused, resumed, stopped,      *)
(* reset and changed at any moment.                                        *)
(***************************************************************************)
EXTENDS StreamNodes, BufferNodes, SourceNodes, DeviceNodes, WebNodes

CONSTANT Types  \* which of them

AllTypes == StreamTypes \cup BufferTypes \cup SourceTypes \cup DeviceTypes \cup WebTypes
ASSUME TypesAssumption == Types \subseteq AllTypes

\* What init() of the type sets, and the locals its process() begins with.
FreshMem ==
  CASE node \in StreamTypes -> StreamMem
    [] node \in BufferTypes -> BufferMem
    [] node \in SourceTypes -> SourceMem
    [] node \in DeviceTypes -> DeviceMem
    [] node \in WebTypes    -> WebMem
FreshLocal ==
  CASE node \in StreamTypes -> <<>>
    [] node \in BufferTypes -> BufferLocal
    [] node \in SourceTypes -> SourceLocal
    [] node \in DeviceTypes -> DeviceLocal
    [] node \in WebTypes    -> <<>>

\* pause() and stop(): the task is cancelled where it waits.  Reading a file
\* does not wait.
Cut(next) ==
  CASE node.type = "gate"    -> GateCut(next)
    [] node \in DeviceTypes  -> DeviceCut(next)
    [] node \in WebTypes     -> WebCut(next)
    [] OTHER -> pc # "read" /\ IF next = "paused" THEN Pause ELSE Stop

\* The types with a process() that lets an exception through: json.dumps() of
\* an item, handle_control() of a target.
Raising ==
  {"mqtt_output", "trigger_on", "trigger_if", "trigger_toggle", "threshold",
   "timer_trigger", "pulse"}

Others ==
  \/ \E p \in ToSet(node.ports) : Wire(p) \/ \E ok \in BOOLEAN : Send(p, ok)
  \/ node \in DeviceTypes /\ OutsideStep
  \/ node \in WebTypes /\ RouteStep

Control ==
  \/ Start(FreshMem, FreshLocal)
  \/ Resume(FreshLocal)
  \/ node.type \in Raising /\ Retry(FreshMem, FreshLocal)
  \/ Cut("stopped")
  \/ life = "running" /\ Cut("paused")
  \/ node.type = "round_robin" /\ Reset(StreamMem)
  \/ node \in BufferTypes /\ BufferCall
  \/ node \in DeviceTypes /\ mem # <<>> /\ \E k \in {1, 2} : Rekey(k)

Process == Wake \/ StreamStep \/ BufferStep \/ SourceStep \/ DeviceStep \/ WebStep

NodeInit == Init(Types)
Next == Others \/ Control \/ Process

\* The event loop runs the node's task again and again: each of its waits has
\* a timeout.
Spec     == NodeInit /\ [][Next]_vars
FairSpec == Spec /\ WF_vars(Process)

-----------------------------------------------------------------------------
(* Properties: those of the types, grouped by the question they answer.    *)

Relays == node \in StreamTypes \cup WebOutputs

\* Item by item, in order, once: whatever pauses, stops, restarts and late
\* wires do to the loop, each item is handled exactly once or, by a filter
\* that it does not match, passed over.
RelayPorts == {"in", "in2"}
Handled ==
  INSTANCE Relay WITH
    Ports   <- RelayPorts,
    Items   <- [port : RelayPorts, n : 1..MaxItems, ok : BOOLEAN],
    pending <- [p \in RelayPorts |-> IF Relays /\ Contains(node.ports, p) THEN pipe[p] ELSE <<>>],
    handled <- IF Relays THEN [k \in DOMAIN out |-> out[k].item] ELSE <<>>,
    filters <- node.type \in {"grep", "tokenizer"}
ImplementsRelay == Handled!Spec

\* Every item on a port the type reads is read while the node runs, on ports
\* that are wired to a running node too: every loop but that of grep looks for
\* its ports until it finds them.  (A wire is not replaced here: a script reads
\* on from the pipe it found, the others look again at every turn.)
Reads(p) ==
  CASE node.polls = "once"  -> FALSE
    [] node.polls = "first" -> wired # <<>> /\ Head(wired) = p
    [] OTHER                -> Contains(wired, p)
Waiting(p) ==
  Relays /\ p \in DOMAIN pipe /\ life = "running" /\ Reads(p) /\ pipe[p] # <<>>
ItemsAreRead == \A p \in RelayPorts : Waiting(p) ~> ~Waiting(p)

\* What waits for a node that runs gets on: its items are read, its content
\* is shown, its logger is made verbose again.
Progress == ItemsAreRead /\ ContentIsShown /\ LoggerHealed

\* A pause goes on where it cut: nothing that is counted, listed, scheduled or
\* dealt out is skipped or begun anew, except by init(); of a file nothing is
\* skipped either, and each process() reads it from its beginning once.
GoesOn ==
  /\ CountsOn /\ PlayedInFull /\ FiresOncePerMinute /\ PulsesBounded
  /\ TakesTurns /\ NothingSkipped

\* A trigger tells its targets once for each cause, in order, and its state
\* (the toggle, the count, the timer) follows what it told.
TriggersOnce ==
  ToldOnceInOrder /\ TogglesAlternate /\ ThresholdIsReset /\ OneTimerPerInit

\* What a node has taken and handed to something outside (a service, a person,
\* its clients, a thread, inner nodes) comes back once and in order, but for
\* what the cuts of its task account for.
NoneLostOutside ==
  /\ AnsweredOnce /\ QuestionsAnswered /\ ClientsAreServed
  /\ LogRecordsKept /\ SubgraphConserves
  /\ StreamsShare /\ PostsAreShown

\* What a node leaves running outside (processes, clients, inner graphs,
\* connections) is bounded by how often it was started and cut, and a server
\* that lost its port says so.
LeftoversBounded ==
  KilledWhole /\ MqttClientsBounded /\ OneInnerPerInit /\ OneLastWord /\ DeafIsReported
  /\ OnlyStragglers

\* Lines, flushes and queued items are passed on once and in order, but for
\* what the cuts account for.
PassedOn == NoLineLost /\ FlushPerTrigger /\ GateLosesOnlyByCuts

\* Values are joined as they came: a barrier releases whole sets, no item
\* twice, and a logic gate combines values of one turn only.
SetsAreWhole == ReleasedOnce /\ FullSetIsReleased /\ OneTurnPerResult
=============================================================================
