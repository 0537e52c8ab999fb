------------------------- MODULE NodeTypes_proofs -------------------------
(***************************************************************************)
(* Proofs about the node types, for any number of items and calls.         *)
(*                                                                         *)
(* A node that handles its input item by item implements Relay: whatever   *)
(* order its wires come in and wherever its task is cut, each item that    *)
(* reached a port is handled once, in the order of the port.  A barrier or *)
(* a logic gate gives whole sets of what came in.  What a node leaves      *)
(* running outside is bounded by how often it was started and cut, and a   *)
(* source, a trigger or a round robin goes on where it was cut.            *)
(* BufferNodes_proofs goes on from here.                                   *)
(***************************************************************************)
EXTENDS NodeTypes, FiniteSetTheorems, TLAPS

-----------------------------------------------------------------------------
(* The families of types, by the names of their types.                     *)

StreamNames ==
  {"transform", "template", "json_extract", "math", "not", "json_modify", "tokenizer",
   "encoding_convert", "trim_string", "json_output", "file_output", "log_output", "grep",
   "script", "scripted_output", "compare", "fork", "split_by_value", "round_robin",
   "base64_encode", "base64_decode", "html_scraper", "display", "merge", "led_activity"}
LogicNames  == {"and", "or", "nand", "nor", "xor", "xnor"}
BufferNames ==
  {"fifo", "lifo", "table", "stack", "line_splitter", "line_buffer", "rolling", "gate",
   "barrier"} \cup LogicNames
SourceNames ==
  {"timer", "url_input", "clock", "cron", "generator", "constant", "list_strings",
   "file_input", "json_input", "directory", "trigger_on", "trigger_if", "trigger_toggle",
   "trigger", "debounce", "threshold", "timer_trigger", "pulse"}
DeviceNames ==
  {"process_input", "shell_input", "script_input", "python_input", "process_output",
   "http_post", "llm", "mcp_client", "socket_client", "socket_server", "mqtt_output",
   "subgraph", "user_prompt", "socket_input", "mqtt_input", "log_input"}
OutputNames == {"web_output", "web_output_json", "output_api"}
InputNames  == {"user_input", "input_web", "input_api"}

\* Types that only poll their ports, and keep no task but the one that does.
Plain == node.type \in StreamNames \cup OutputNames \cup LogicNames \cup {"barrier"}

NodePorts == ToSet(node.ports)

LEMMA StreamNode ==
  ASSUME NEW t \in StreamTypes
  PROVE  t.type \in StreamNames /\ t.ports \in {<<"in">>, <<"in", "in2">>}
BY DEF StreamTypes, StreamType, StreamNames

LEMMA BufferNode ==
  ASSUME NEW t \in BufferTypes
  PROVE  /\ t.type \in BufferNames
         /\ t.type \in LogicNames \cup {"barrier"} =>
              t.ports = <<"in", "in2">> /\ t.polls = "all"
BY DEF BufferTypes, BufferType, BufferNames, LogicNames, TwoIn

LEMMA SourceNode == ASSUME NEW t \in SourceTypes PROVE t.type \in SourceNames
BY DEF SourceTypes, SourceType, SourceNames

LEMMA DeviceNode == ASSUME NEW t \in DeviceTypes PROVE t.type \in DeviceNames
BY DEF DeviceTypes, DeviceType, DeviceNames

LEMMA WebNode ==
  ASSUME NEW t \in WebTypes
  PROVE  /\ t \in WebOutputs => t.type \in OutputNames /\ t.ports = <<"in">>
         /\ t \in WebInputs => t.type \in InputNames
BY DEF WebTypes, WebOutputs, WebInputs, WebType, OutputNames, InputNames

\* No name is in two families.
LEMMA Families ==
  ASSUME node \in AllTypes
  PROVE  /\ node \in StreamTypes <=> node.type \in StreamNames
         /\ node \in BufferTypes <=> node.type \in BufferNames
         /\ node \in SourceTypes <=> node.type \in SourceNames
         /\ node \in DeviceTypes <=> node.type \in DeviceNames
         /\ node \in WebOutputs <=> node.type \in OutputNames
         /\ node \in WebInputs <=> node.type \in InputNames
         /\ node \in WebTypes <=> node.type \in OutputNames \cup InputNames
<1>1. /\ node \in StreamTypes => node.type \in StreamNames
      /\ node \in BufferTypes => node.type \in BufferNames
      /\ node \in SourceTypes => node.type \in SourceNames
      /\ node \in DeviceTypes => node.type \in DeviceNames
      /\ node \in WebOutputs => node.type \in OutputNames
      /\ node \in WebInputs => node.type \in InputNames
  BY StreamNode, BufferNode, SourceNode, DeviceNode, WebNode DEF WebTypes
<1>2. \/ node \in StreamTypes \/ node \in BufferTypes \/ node \in SourceTypes
      \/ node \in DeviceTypes \/ node \in WebOutputs \/ node \in WebInputs
  BY DEF AllTypes, WebTypes
<1> QED
  BY <1>1, <1>2
     DEF StreamNames, BufferNames, LogicNames, SourceNames, DeviceNames, OutputNames,
         InputNames, WebTypes

-----------------------------------------------------------------------------
(* The loop of a plain node.                                               *)

IsSeq(s) == s \in Seq(ToSet(s))

LEMMA EmptyTyped == ASSUME NEW S PROVE <<>> \in Seq(S)
OBVIOUS

LEMMA NoneIsSeq == IsSeq(<<>>)
BY EmptyTyped, Zenon DEF IsSeq

LEMMA AppendSeq ==
  ASSUME NEW s, IsSeq(s), NEW e
  PROVE  /\ IsSeq(Append(s, e))
         /\ DOMAIN s = 1..Len(s) /\ Len(s) \in Nat
         /\ DOMAIN Append(s, e) = 1..(Len(s) + 1) /\ Len(Append(s, e)) = Len(s) + 1
         /\ \A k \in 1..Len(s) : Append(s, e)[k] = s[k]
         /\ Append(s, e)[Len(s) + 1] = e
<1> DEFINE S == ToSet(s) \cup {e}
           t == Append(s, e)
<1>1. s \in Seq(S)
  BY DEF IsSeq
<1>2. /\ t \in Seq(S) /\ Len(t) = Len(s) + 1 /\ Len(s) \in Nat
      /\ DOMAIN s = 1..Len(s) /\ DOMAIN t = 1..(Len(s) + 1)
      /\ \A k \in 1..Len(s) : t[k] = s[k]
      /\ t[Len(s) + 1] = e
  BY <1>1
<1> HIDE DEF t, S
<1>3. t \in Seq(ToSet(t))
  <2>1. \A k \in 1..Len(t) : t[k] \in ToSet(t)
    BY <1>2 DEF ToSet
  <2> QED
    BY <1>2, <2>1
<1> QED
  BY <1>2, <1>3 DEF IsSeq, t

Item == [port : NodePorts, n : 1..MaxItems, ok : BOOLEAN]

\* What is on its way to a plain node, and where its loop is.
LoopTyped ==
  /\ node \in AllTypes
  /\ Plain =>
       /\ wired \in Seq(NodePorts) /\ turn \in Seq(NodePorts) /\ pass \in Seq(NodePorts)
       /\ sent \in 0..MaxItems
       /\ pipe \in [NodePorts -> Seq(Item)]
       /\ got \in Seq(Item)
       /\ IsSeq(out)
       /\ pc \in {"none", "loop"}

\* The task of the node is made, wakes up, or is cancelled.
Moves ==
  /\ UNCHANGED <<node, envVars, pipe, got, out>>
  /\ \/ UNCHANGED <<pc, turn, pass>>
     \/ pc' = "loop" /\ turn' = Polled /\ pass' = Polled
     \/ pc' = "none" /\ turn' = <<>> /\ pass' = <<>>

\* It polls a port.
Polls ==
  /\ pc = "loop" /\ pc' = "loop"
  /\ pass # <<>>
  /\ LET p == Head(pass) IN
       \/ /\ pipe[p] # <<>>
          /\ pipe' = [pipe EXCEPT ![p] = Tail(@)]
          /\ got' = Append(got, Head(pipe[p]))
       \/ pipe[p] = <<>> /\ UNCHANGED <<pipe, got>>
  /\ \/ Len(pass) > 1 /\ pass' = Tail(pass) /\ UNCHANGED turn
     \/ Len(pass) <= 1 /\ turn' = NextTurn /\ pass' = turn'
  /\ UNCHANGED <<node, envVars, lifeVars, base>>

\* A node that relays emits what it reads, unless it filters it out.
Relays1 ==
  LET p == Head(pass) IN
  \/ /\ pipe[p] # <<>>
     /\ \/ \E to, form : out' = Append(out, Emission(Head(pipe[p]), to, form))
        \/ /\ node.type \in {"grep", "tokenizer"}
           /\ ~Head(pipe[p]).ok
           /\ out' = out
  \/ pipe[p] = <<>> /\ out' = out

LEMMA OnOutPolls ==
  ASSUME NEW type, NEW otherwise, OnOut(type, otherwise), Len(pass) \in Nat
  PROVE  Polls /\ Relays1 /\ node.type = type
BY DEF OnOut, Each, Poll, Polls, Relays1, Becomes, Give, Self

LEMMA StreamPolls ==
  ASSUME StreamStep, Len(pass) \in Nat
  PROVE  Polls /\ Relays1 /\ node.type \in StreamNames
<1>1. ASSUME NEW type \in StreamNames, NEW otherwise, OnOut(type, otherwise)
      PROVE  Polls /\ Relays1 /\ node.type \in StreamNames
  BY <1>1, OnOutPolls
<1>2. ASSUME \/ Transform \/ JSONExtract \/ Math \/ EncodingConvert
             \/ Template \/ Not \/ TrimString \/ HTMLScraper \/ Display \/ LogOutput
             \/ JSONModify \/ JSONOutput \/ Base64Encode \/ Base64Decode
      PROVE  Polls /\ Relays1 /\ node.type \in StreamNames
  BY <1>1, <1>2
     DEF Transform, JSONExtract, Math, EncodingConvert, Template, Not, TrimString,
         HTMLScraper, Display, LogOutput, JSONModify, JSONOutput, Base64Encode, Base64Decode,
         StreamNames
<1> USE DEF Each, Poll, Polls, Relays1, Becomes, Give, Self, StreamNames
<1>3. ASSUME Script PROVE Polls /\ Relays1 /\ node.type \in StreamNames
  BY <1>3 DEF Script, RunScript
<1>4. ASSUME ScriptedOutput PROVE Polls /\ Relays1 /\ node.type \in StreamNames
  BY <1>4 DEF ScriptedOutput, RunScript
<1>5. ASSUME Grep PROVE Polls /\ Relays1 /\ node.type \in StreamNames
  BY <1>5 DEF Grep
<1>6. ASSUME Tokenizer PROVE Polls /\ Relays1 /\ node.type \in StreamNames
  BY <1>6 DEF Tokenizer
<1>7. ASSUME Compare PROVE Polls /\ Relays1 /\ node.type \in StreamNames
  BY <1>7 DEF Compare
<1>8. ASSUME Fork PROVE Polls /\ Relays1 /\ node.type \in StreamNames
  BY <1>8 DEF Fork
<1>9. ASSUME Merge PROVE Polls /\ Relays1 /\ node.type \in StreamNames
  BY <1>9 DEF Merge
<1>10. ASSUME LedActivity PROVE Polls /\ Relays1 /\ node.type \in StreamNames
  BY <1>10 DEF LedActivity
<1>11. ASSUME SplitByValue PROVE Polls /\ Relays1 /\ node.type \in StreamNames
  BY <1>11 DEF SplitByValue
<1>12. ASSUME RoundRobin PROVE Polls /\ Relays1 /\ node.type \in StreamNames
  BY <1>12 DEF RoundRobin
<1>13. ASSUME FileOutput PROVE Polls /\ Relays1 /\ node.type \in StreamNames
  BY <1>13 DEF FileOutput
<1> QED
  BY <1>2, <1>3, <1>4, <1>5, <1>6, <1>7, <1>8, <1>9, <1>10, <1>11, <1>12, <1>13 DEF StreamStep

LEMMA WebPolls ==
  ASSUME WebStep, Len(pass) \in Nat
  PROVE  Polls /\ Relays1 /\ node.type \in OutputNames
<1>1. ASSUME NEW type \in OutputNames, NEW ports, Streams(type, ports)
      PROVE  Polls /\ Relays1 /\ node.type \in OutputNames
  BY <1>1 DEF Streams, Each, Poll, Polls, Relays1, Becomes, Give, Self
<1> QED
  BY <1>1 DEF WebStep, WebOutput, WebOutputJSON, ApiOutput, OutputNames

\* What a barrier or a logic gate emits is a set or a result, at the end of a
\* turn.
Collects == out' = out \/ \E e : out' = Append(out, e)

State(s, o, c) == DOMAIN s = {"mem", "local", "out", "pc"} /\ s.out = o /\ s.pc = c

LEMMA BarrierPolls ==
  ASSUME SyncBarrier, Len(pass) \in Nat PROVE Polls /\ Collects
<1>1. ASSUME NEW p, NEW i PROVE State(BarrierTake(Self, p, i), out, pc)
  BY DEF BarrierTake, Self, State
<1>2. State(Self, out, pc)
  BY DEF Self, State
<1>3. ASSUME NEW s, State(s, out, pc)
      PROVE  /\ BarrierEnd(s).pc = pc
             /\ BarrierEnd(s).out = out \/ \E e : BarrierEnd(s).out = Append(out, e)
  BY <1>3 DEF BarrierEnd, Give, State
<1>4. ASSUME NEW s, State(s, out, pc) PROVE s.pc = pc /\ s.out = out
  BY <1>4 DEF State
<1> QED
  BY <1>1, <1>2, <1>3, <1>4 DEF SyncBarrier, Poll, Polls, Collects, Becomes

LEMMA LogicPolls ==
  ASSUME And \/ Or \/ Nand \/ Nor \/ Xor \/ Xnor, Len(pass) \in Nat
  PROVE  Polls /\ Collects
<1> USE DEF LogicGate, Poll, Polls, Collects, Becomes, Give, Self, GateTake, GateEnd
<1>1. ASSUME And PROVE Polls /\ Collects
  BY <1>1 DEF And
<1>2. ASSUME Or PROVE Polls /\ Collects
  BY <1>2 DEF Or
<1>3. ASSUME Nand PROVE Polls /\ Collects
  BY <1>3 DEF Nand
<1>4. ASSUME Nor PROVE Polls /\ Collects
  BY <1>4 DEF Nor
<1>5. ASSUME Xor PROVE Polls /\ Collects
  BY <1>5 DEF Xor
<1>6. ASSUME Xnor PROVE Polls /\ Collects
  BY <1>6 DEF Xnor
<1> QED
  BY <1>1, <1>2, <1>3, <1>4, <1>5, <1>6

\* The task of a plain node waits nowhere but in its loop, and the node takes
\* no step of another family.
\* Nodes of other families take none of their steps.
LEMMA OnlySources ==
  ASSUME node.type \notin SourceNames, pc \notin {"read", "delay", "trigger"} PROVE ~SourceStep
<1>1. ~(Timer \/ Clock \/ Generator \/ Constant \/ ListStrings \/ UrlInput \/ Cron)
  BY DEF Timer, Clock, Generator, Constant, ListStrings, UrlInput, Cron, Turn, SourceNames
<1>2. ~(FileStat \/ FileRead \/ Directory)
  BY DEF FileStat, FileRead, Reading, Directory, SourceNames
<1>3. ~(Trigger \/ TriggerOn \/ TriggerIf \/ TriggerToggle \/ Threshold \/ Debounce)
  BY DEF Trigger, TriggerOn, TriggerIf, TriggerToggle, Threshold, Debounce, SourceNames
<1>4. ~(TimerTrigger \/ Pulse)
  BY DEF TimerTrigger, Pulse, Turn, SourceNames
<1>5. ~(Delay \/ TellTarget \/ TargetFails \/ TriggerDone \/ PulseDone)
  BY DEF Delay, TellTarget, TargetFails, TriggerDone, PulseDone
<1>6. ~\E t \in Timers : DelayedTrigger(t)
  BY DEF Timers, SourceNames
<1> QED
  BY <1>1, <1>2, <1>3, <1>4, <1>5, <1>6 DEF SourceStep

LEMMA OnlyDevices ==
  ASSUME node.type \notin DeviceNames, pc \notin {"run", "await"} PROVE ~DeviceStep
<1>1. ~(ProcessInput \/ ShellInput \/ ScriptInput \/ PythonInput \/ ProcessOutput)
  BY DEF ProcessInput, ShellInput, ScriptInput, PythonInput, ProcessOutput, RunOnce, Turn, Each,
         DeviceNames
<1>2. ~(CommandDone \/ CommandTimesOut \/ Answer)
  BY DEF CommandDone, CommandTimesOut, Answer
<1>3. ~(HttpPost \/ LMStudio \/ SocketOut \/ McpConnects \/ McpClient)
  BY DEF HttpPost, LMStudio, SocketOut, McpConnects, McpClient, Asks, Each, DeviceNames
<1>4. ~(UserPrompt \/ SocketBind \/ SocketServe \/ SocketSent)
  BY DEF UserPrompt, Turn, SocketBind, SocketServe, SocketSent, DeviceNames
<1>5. ~\E c \in Connections : SocketWrites(c)
  BY DEF SocketWrites, GoOn, DeviceNames
<1>6. ~(Listens \/ LogApplies)
  BY DEF Listens, LogApplies, GoOn, DeviceNames
<1>7. ~(MqttConnects \/ MqttRekeys \/ MqttConnected \/ MqttPublish)
  BY DEF MqttConnects, MqttRekeys, MqttConnected, MqttPublish, Mqtt, DeviceNames
<1>8. ~(LogGets \/ SubgraphBegins \/ SubgraphPumps \/ SubgraphEmits)
  BY DEF LogGets, SubgraphBegins, SubgraphPumps, SubgraphEmits, DeviceNames
<1> QED
  BY <1>1, <1>2, <1>3, <1>4, <1>5, <1>6, <1>7, <1>8 DEF DeviceStep

LEMMA OnlyBuffers ==
  ASSUME node.type \notin BufferNames PROVE ~BufferStep
<1>1. ~(Fifo \/ Lifo \/ Stack \/ Table \/ LineBuffer \/ LineSplitter \/ Rolling \/ SyncBarrier)
  BY DEF BufferNames, Fifo, Lifo, Stack, Table, LineBuffer, LineSplitter, Rolling, SyncBarrier
<1>2. ~(And \/ Or \/ Nand \/ Nor \/ Xor \/ Xnor)
  BY DEF BufferNames, LogicNames, And, Or, Nand, Nor, Xor, Xnor, LogicGate
<1>3. ~QueueGate
  BY DEF BufferNames, QueueGate, GateWait, GateCancelled, GateGet, ParkedGet
<1> QED
  BY <1>1, <1>2, <1>3 DEF BufferStep

LEMMA OnlyPlain ==
  ASSUME StreamStep \/ WebStep PROVE node.type \in StreamNames \cup OutputNames
BY DEF StreamStep, WebStep, Plain, StreamNames, OutputNames, OnOut, Each, RunScript, Streams,
   Transform, JSONExtract, Math, EncodingConvert, Template, Not, TrimString, HTMLScraper,
   Display, LogOutput, JSONModify, JSONOutput, Base64Encode, Base64Decode, Script,
   ScriptedOutput, Grep, Tokenizer, Compare, Fork, Merge, LedActivity, SplitByValue,
   RoundRobin, FileOutput, WebOutput, WebOutputJSON, ApiOutput

LEMMA NoSourceStep ==
  ASSUME Plain, pc \in {"none", "loop"} PROVE ~SourceStep
<1>1. node.type \notin SourceNames
  BY DEF Plain, StreamNames, OutputNames, LogicNames, SourceNames
<1> QED
  BY <1>1, OnlySources

LEMMA NoDeviceStep ==
  ASSUME Plain, pc \in {"none", "loop"} PROVE ~DeviceStep
<1>1. node.type \notin DeviceNames
  BY DEF Plain, StreamNames, OutputNames, LogicNames, DeviceNames
<1> QED
  BY <1>1, OnlyDevices

LEMMA PlainBufferStep ==
  ASSUME Plain, BufferStep
  PROVE  SyncBarrier \/ And \/ Or \/ Nand \/ Nor \/ Xor \/ Xnor
<1>1. ~(Fifo \/ Lifo \/ Stack \/ Table \/ LineBuffer \/ LineSplitter \/ Rolling)
  BY DEF Plain, StreamNames, OutputNames, LogicNames, Fifo, Lifo, Stack, Table, LineBuffer,
         LineSplitter, Rolling
<1>2. ~QueueGate
  BY DEF Plain, StreamNames, OutputNames, LogicNames, QueueGate, GateWait, GateCancelled,
         GateGet, ParkedGet
<1> QED
  BY <1>1, <1>2 DEF BufferStep

\* The task of the node is made, wakes up, or is cancelled, or a route of the
\* node is called.
LEMMA PlainMoves ==
  ASSUME Plain, node \in AllTypes,
         Control \/ Wake \/ (node \in WebTypes /\ RouteStep)
  PROVE  Moves
<1> USE DEF Moves
<1>1. ASSUME NEW m, NEW l, Start(m, l) PROVE Moves
  BY <1>1 DEF Start, Enter, envVars
<1>2. ASSUME NEW l, Resume(l) PROVE Moves
  BY <1>2 DEF Resume, Enter, envVars, dataVars
<1>3. ASSUME Pause \/ Stop PROVE Moves
  BY <1>3 DEF Pause, Stop, Cancel, Leave, envVars, dataVars
<1>4. ASSUME NEW next, WebCut(next) PROVE Moves
  BY <1>4 DEF WebCut, Cancel, Leave, envVars
<1>5. ASSUME NEW next, Cut(next) PROVE Moves
  <2>1. node.type # "gate" /\ node \notin DeviceTypes
    BY Families DEF Plain, StreamNames, OutputNames, LogicNames, DeviceNames
  <2> QED
    BY <2>1, <1>3, <1>4, <1>5, Zenon DEF Cut
<1>6. ASSUME NEW m, Reset(m) PROVE Moves
  BY <1>6 DEF Reset, envVars, loopVars
<1>7. ASSUME BufferCall PROVE Moves
  BY <1>6, <1>7 DEF BufferCall, Resize, SetAttribute, envVars, loopVars
<1>8. ~(node \in DeviceTypes /\ mem # <<>> /\ \E k \in {1, 2} : Rekey(k))
  BY Families DEF Plain, StreamNames, OutputNames, LogicNames, DeviceNames
<1>9. ASSUME Wake PROVE Moves
  BY <1>9 DEF Wake, envVars, dataVars
<1>10. ASSUME NEW types, NEW m, Serve(types, m, out) PROVE Moves
  BY <1>10 DEF Serve, envVars, loopVars
<1>12. ASSUME NEW m, NEW l, Retry(m, l) PROVE Moves
  BY <1>12 DEF Retry, Enter, envVars
<1>11. ASSUME node \in WebTypes, RouteStep PROVE Moves
  <2>1. node.type \notin InputNames
    BY DEF Plain, StreamNames, OutputNames, LogicNames, InputNames
  <2>2. StreamOpens \/ StreamCloses \/ StreamTakes
    BY <2>1, <1>11 DEF RouteStep, PostJSON, InputNames
  <2> QED
    BY <2>2, <1>10 DEF StreamOpens, StreamCloses, StreamTakes
<1> QED
  <2>1. CASE Control
    BY <2>1, <1>1, <1>2, <1>5, <1>6, <1>7, <1>8, <1>12 DEF Control
  <2> QED
    BY <2>1, <1>9, <1>11

-----------------------------------------------------------------------------
(* A node never changes its type.                                          *)

Stays == node' = node

LEMMA LoopStays ==
  /\ \A t, s : Turn(t, s) => Stays
  /\ \A o, m, l : Again(o, m, l) => Stays
  /\ \A t, s : GoOn(t, s) => Stays
  /\ \A t, m, o : Outside(t, m, o) => Stays
  /\ \A t, m, o : Serve(t, m, o) => Stays
  /\ \A m, o : TimerStep(m, o) => Stays
  /\ \A m : SetAttribute(m) \/ Reset(m) => Stays
BY DEF Turn, Again, GoOn, Outside, Serve, TimerStep, SetAttribute, Reset, Stays

LEMMA StreamStays == ASSUME StreamStep, Len(pass) \in Nat PROVE Stays
BY StreamPolls DEF Polls, Stays

LEMMA BufferStays == ASSUME BufferStep PROVE Stays
<1> USE DEF Stays
<1>1. ASSUME Fifo \/ Lifo \/ Stack \/ Table \/ LineBuffer PROVE Stays
  BY <1>1 DEF Fifo, Lifo, Stack, Table, LineBuffer, Poll
<1>2. ASSUME LineSplitter \/ Rolling \/ SyncBarrier PROVE Stays
  BY <1>2 DEF LineSplitter, Rolling, SyncBarrier, Poll
<1>3. ASSUME And \/ Or \/ Nand \/ Nor \/ Xor \/ Xnor PROVE Stays
  BY <1>3 DEF And, Or, Nand, Nor, Xor, Xnor, LogicGate, Poll
<1>4. ASSUME QueueGate PROVE Stays
  BY <1>4 DEF QueueGate, GateWait, GateCancelled, GateGet, ParkedGet
<1> QED
  BY <1>1, <1>2, <1>3, <1>4 DEF BufferStep

LEMMA SourceStays == ASSUME SourceStep PROVE Stays
<1>1. ASSUME Timer \/ Clock \/ Generator \/ Constant \/ ListStrings PROVE Stays
  BY <1>1, LoopStays DEF Timer, Clock, Generator, Constant, ListStrings, Poll, Stays
<1>2. ASSUME UrlInput \/ Cron PROVE Stays
  BY <1>2, LoopStays DEF UrlInput, Cron, Stays
<1>3. ASSUME FileStat \/ FileRead \/ Directory PROVE Stays
  BY <1>3, LoopStays DEF FileStat, FileRead, Directory, Stays
<1>4. ASSUME Trigger \/ TriggerOn \/ TriggerIf \/ TriggerToggle \/ Threshold \/ Debounce
      PROVE  Stays
  BY <1>4 DEF Trigger, TriggerOn, TriggerIf, TriggerToggle, Threshold, Debounce, Poll, Stays
<1>5. ASSUME TimerTrigger \/ Pulse PROVE Stays
  BY <1>5, LoopStays DEF TimerTrigger, Pulse
<1>6. ASSUME Delay \/ TellTarget \/ TargetFails PROVE Stays
  BY <1>6, LoopStays DEF Delay, TellTarget, TargetFails, Stays
<1>7. ASSUME TriggerDone \/ PulseDone PROVE Stays
  BY <1>7, LoopStays DEF TriggerDone, PulseDone, Stays
<1>8. ASSUME NEW t, DelayedTrigger(t) PROVE Stays
  BY <1>8, LoopStays DEF DelayedTrigger, TimerWakes, TimerTells, TimerFails
<1> QED
  BY <1>1, <1>2, <1>3, <1>4, <1>5, <1>6, <1>7, <1>8 DEF SourceStep

LEMMA DeviceStays == ASSUME DeviceStep \/ OutsideStep PROVE Stays
<1>1. ASSUME ProcessInput \/ ShellInput \/ ScriptInput \/ PythonInput \/ ProcessOutput
      PROVE  Stays
  BY <1>1, LoopStays
     DEF ProcessInput, ShellInput, ScriptInput, PythonInput, ProcessOutput, RunOnce, Each, Poll,
         Stays
<1>2. ASSUME CommandDone \/ CommandTimesOut PROVE Stays
  BY <1>2, LoopStays DEF CommandDone, CommandTimesOut, Reports
<1>3. ASSUME HttpPost \/ LMStudio \/ SocketOut \/ McpConnects \/ McpClient PROVE Stays
  BY <1>3, LoopStays
     DEF HttpPost, LMStudio, SocketOut, McpConnects, McpClient, Asks, Each, Poll, Stays
<1>4. ASSUME Answer \/ UserPrompt PROVE Stays
  BY <1>4, LoopStays DEF Answer, UserPrompt, Stays
<1>5. ASSUME SocketBind \/ SocketServe \/ SocketSent \/ Listens PROVE Stays
  BY <1>5, LoopStays DEF SocketBind, SocketServe, SocketSent, Listens, Each, Poll, Stays
<1>6. ASSUME NEW c, SocketWrites(c) PROVE Stays
  BY <1>6, LoopStays DEF SocketWrites
<1>7. ASSUME MqttConnects \/ MqttRekeys \/ MqttConnected \/ MqttPublish PROVE Stays
  BY <1>7, LoopStays
     DEF MqttConnects, MqttRekeys, MqttConnected, MqttPublish, Each, Poll, Stays
<1>8. ASSUME LogApplies \/ LogGets PROVE Stays
  BY <1>8, LoopStays DEF LogApplies, LogGets
<1>9. ASSUME SubgraphBegins \/ SubgraphPumps \/ SubgraphEmits PROVE Stays
  BY <1>9, LoopStays DEF SubgraphBegins, SubgraphPumps, SubgraphEmits, Each, Poll, Stays
<1>10. ASSUME CommandForks \/ CommandExits \/ McpDrops PROVE Stays
  BY <1>10, LoopStays DEF CommandForks, CommandExits, McpDrops
<1>11. ASSUME NEW c, ClientJoins(c) \/ ClientLeaves(c) PROVE Stays
  BY <1>11, LoopStays DEF ClientJoins, ClientLeaves, Stays
<1>12. ASSUME NEW c, PeerSends(c) \/ PeerLeaves(c) \/ MqttMessage(c) PROVE Stays
  BY <1>12, LoopStays DEF PeerSends, PeerLeaves, MqttMessage
<1>13. ASSUME PeerJoins \/ LogRecord \/ ParkedThread \/ OtherLogInput PROVE Stays
  BY <1>13, LoopStays DEF PeerJoins, LogRecord, ParkedThread, OtherLogInput
<1>14. ASSUME InnerStarts \/ InnerTakes \/ InnerGives PROVE Stays
  BY <1>14, LoopStays DEF InnerStarts, InnerTakes, InnerGives
<1>15. ASSUME DeviceStep PROVE Stays
  BY <1>15, <1>1, <1>2, <1>3, <1>4, <1>5, <1>6, <1>7, <1>8, <1>9 DEF DeviceStep
<1>16. ASSUME OutsideStep PROVE Stays
  BY <1>16, <1>10, <1>11, <1>12, <1>13, <1>14 DEF OutsideStep
<1> QED
  BY <1>15, <1>16

LEMMA RouteStays == ASSUME RouteStep PROVE Stays
<1>1. ASSUME StreamOpens \/ StreamCloses \/ StreamTakes PROVE Stays
  BY <1>1, LoopStays DEF StreamOpens, StreamCloses, StreamTakes
<1>2. ASSUME NEW m, NEW n, Emits(m, n) PROVE Stays
  BY <1>2, LoopStays DEF Emits
<1>3. ASSUME PostJSON \/ PostArrives PROVE Stays
  BY <1>3, <1>2, LoopStays DEF PostJSON, PostArrives
<1>4. ASSUME NEW p, PostIsRead(p) \/ PostFits(p) PROVE Stays
  BY <1>4, <1>2, LoopStays DEF PostIsRead, PostFits
<1> QED
  BY <1>1, <1>3, <1>4 DEF RouteStep

LEMMA ControlStays == ASSUME Control PROVE Stays
<1>1. ASSUME NEW next, Cut(next) PROVE Stays
  BY <1>1 DEF Cut, GateCut, DeviceCut, WebCut, Pause, Stop, Stays
<1>2. ASSUME BufferCall \/ \E k \in {1, 2} : Rekey(k) PROVE Stays
  BY <1>2, LoopStays DEF BufferCall, Resize, Rekey
<1>3. ASSUME NEW m, NEW l, Start(m, l) \/ Resume(l) \/ Retry(m, l) PROVE Stays
  BY <1>3 DEF Start, Resume, Retry, Stays
<1> QED
  BY <1>1, <1>2, <1>3, LoopStays DEF Control

-----------------------------------------------------------------------------
(* What a plain node has in its hands is what was sent to its ports.       *)

LEMMA StreamIsPlain == ASSUME StreamStep \/ WebStep PROVE Plain
BY DEF StreamStep, WebStep, Plain, StreamNames, OutputNames, OnOut, Each, RunScript, Streams,
   Transform, JSONExtract, Math, EncodingConvert, Template, Not, TrimString, HTMLScraper,
   Display, LogOutput, JSONModify, JSONOutput, Base64Encode, Base64Decode, Script,
   ScriptedOutput, Grep, Tokenizer, Compare, Fork, Merge, LedActivity, SplitByValue,
   RoundRobin, FileOutput, WebOutput, WebOutputJSON, ApiOutput

\* What a step of a plain node is.
PlainStep ==
  \/ \E p \in NodePorts : Wire(p) \/ \E ok \in BOOLEAN : Send(p, ok)
  \/ Moves
  \/ Polls /\ Collects

LEMMA RelaysCollect == ASSUME Relays1 PROVE Collects
BY DEF Relays1, Collects

LEMMA NextPlain ==
  ASSUME LoopTyped, Next, Plain PROVE PlainStep
<1>1. /\ pc \in {"none", "loop"}
      /\ Len(pass) \in Nat
      /\ node \in AllTypes
  BY DEF LoopTyped
<1>2. node \notin DeviceTypes
  BY <1>1, Families DEF Plain, StreamNames, OutputNames, LogicNames, DeviceNames
<1>3. CASE Others
  <2>1. (\E p \in NodePorts : Wire(p) \/ \E ok \in BOOLEAN : Send(p, ok)) \/ (node \in WebTypes /\ RouteStep)
    BY <1>2, <1>3, Zenon DEF Others, NodePorts
  <2> QED
    BY <2>1, <1>1, PlainMoves, Zenon DEF PlainStep
<1>4. CASE Control \/ Wake
  BY <1>1, <1>4, PlainMoves, Zenon DEF PlainStep
<1>5. CASE StreamStep
  BY <1>1, <1>5, StreamPolls, RelaysCollect DEF PlainStep
<1>6. CASE WebStep
  BY <1>1, <1>6, WebPolls, RelaysCollect DEF PlainStep
<1>7. CASE BufferStep
  BY <1>1, <1>7, PlainBufferStep, BarrierPolls, LogicPolls DEF PlainStep
<1> QED
  BY <1>1, <1>3, <1>4, <1>5, <1>6, <1>7, NoSourceStep, NoDeviceStep DEF Next, Process

LEMMA NextStays == ASSUME LoopTyped, Next PROVE Stays
<1>1. CASE Plain
  BY <1>1, NextPlain DEF PlainStep, Wire, Send, Moves, Polls, Stays
<1>2. CASE ~Plain
  <2>1. ASSUME NEW p, NEW ok, Wire(p) \/ Send(p, ok) PROVE Stays
    BY <2>1 DEF Wire, Send, Stays
  <2>2. CASE Others
    BY <2>1, <2>2, DeviceStays, RouteStays DEF Others
  <2>3. CASE Process
    BY <1>2, <2>3, StreamIsPlain, BufferStays, SourceStays, DeviceStays DEF Process, Wake, Stays
  <2> QED
    BY <2>2, <2>3, ControlStays DEF Next
<1> QED
  BY <1>1, <1>2

LEMMA PolledTyped ==
  ASSUME LoopTyped, Plain PROVE Polled \in Seq(NodePorts) /\ NextTurn \in Seq(NodePorts)
<1>1. wired # <<>> => <<Head(wired)>> \in Seq(NodePorts)
  BY DEF LoopTyped
<1> QED
  BY <1>1 DEF LoopTyped, Polled, NextTurn

LEMMA InsertTyped ==
  ASSUME NEW S, NEW s \in Seq(S), NEW e \in S, NEW k \in 1..(Len(s) + 1)
  PROVE  InsertAt(s, k, e) \in Seq(S)
<1>1. SubSeq(s, 1, k - 1) \in Seq(S) /\ SubSeq(s, k, Len(s)) \in Seq(S)
  OBVIOUS
<1> QED
  BY <1>1 DEF InsertAt

LEMMA LoopInit == ASSUME NodeInit PROVE LoopTyped
<1> USE DEF NodeInit, Init
<1>1. node \in AllTypes
  BY TypesAssumption
<1>2. \A S : <<>> \in Seq(S)
  BY EmptyTyped
<1>3. pipe \in [NodePorts -> Seq(Item)]
  BY <1>2 DEF NodePorts
<1> QED
  BY <1>1, <1>2, <1>3, NoneIsSeq, NodeLoopAssumption DEF LoopTyped

LEMMA LoopStep == ASSUME LoopTyped, [Next]_vars PROVE LoopTyped'
<1>1. CASE UNCHANGED vars
  BY <1>1
     DEF vars, lifeVars, loopVars, envVars, dataVars, LoopTyped, Plain, NodePorts, Item, IsSeq
<1> SUFFICES ASSUME Next PROVE LoopTyped'
  BY <1>1
<1>2. node' = node /\ NodePorts' = NodePorts /\ Item' = Item /\ Plain' = Plain
  BY NextStays DEF Stays, NodePorts, Item, Plain
<1>3. CASE ~Plain
  BY <1>2, <1>3 DEF LoopTyped
<1> SUFFICES ASSUME Plain PROVE LoopTyped'
  BY <1>3
<1>4. /\ wired \in Seq(NodePorts) /\ turn \in Seq(NodePorts) /\ pass \in Seq(NodePorts)
      /\ sent \in 0..MaxItems
      /\ pipe \in [NodePorts -> Seq(Item)]
      /\ got \in Seq(Item)
      /\ IsSeq(out)
      /\ pc \in {"none", "loop"}
      /\ node \in AllTypes
  BY DEF LoopTyped
<1>5. ASSUME NEW p \in NodePorts, Wire(p) PROVE LoopTyped'
  BY <1>2, <1>4, <1>5, InsertTyped
     DEF Wire, lifeVars, loopVars, dataVars, LoopTyped, IsSeq
<1>6. ASSUME NEW p \in NodePorts, NEW ok \in BOOLEAN, Send(p, ok) PROVE LoopTyped'
  <2>1. [port |-> p, n |-> sent + 1, ok |-> ok] \in Item /\ sent' \in 0..MaxItems
    BY <1>4, <1>6, NodeLoopAssumption DEF Send, Item
  <2>2. Append(pipe[p], [port |-> p, n |-> sent + 1, ok |-> ok]) \in Seq(Item)
    BY <2>1, <1>4
  <2>3. pipe' \in [NodePorts -> Seq(Item)]
    BY <2>2, <1>4, <1>6 DEF Send
  <2> QED
    BY <1>2, <1>4, <1>6, <2>1, <2>3 DEF Send, loopVars, LoopTyped, IsSeq
<1>7. ASSUME Moves PROVE LoopTyped'
  BY <1>2, <1>4, <1>7, PolledTyped, EmptyTyped DEF Moves, envVars, LoopTyped, IsSeq
<1>8. ASSUME Polls, Collects PROVE LoopTyped'
  <2> DEFINE p == Head(pass)
  <2>1. IsSeq(out')
    <3>1. \A e : IsSeq(Append(out, e))
      BY <1>4, AppendSeq
    <3> QED
      BY <1>4, <1>8, <3>1, Zenon DEF Collects
  <2>2. p \in NodePorts /\ Tail(pass) \in Seq(NodePorts)
    BY <1>4, <1>8 DEF Polls
  <2>3. pipe[p] # <<>> => Head(pipe[p]) \in Item /\ Tail(pipe[p]) \in Seq(Item)
    BY <1>4, <2>2
  <2>4. pipe[p] # <<>> => Append(got, Head(pipe[p])) \in Seq(Item)
    BY <1>4, <2>3
  <2> HIDE DEF p
  <2>5. \/ pipe[p] # <<>> /\ pipe' = [pipe EXCEPT ![p] = Tail(@)] /\ got' = Append(got, Head(pipe[p]))
        \/ UNCHANGED <<pipe, got>>
    BY <1>8 DEF Polls, p
  <2>6. pipe' \in [NodePorts -> Seq(Item)] /\ got' \in Seq(Item)
    BY <1>4, <2>2, <2>3, <2>4, <2>5
  <2>7. turn' \in Seq(NodePorts) /\ pass' \in Seq(NodePorts)
    BY <1>4, <1>8, <2>2, PolledTyped DEF Polls
  <2>8. sent' = sent /\ wired' = wired /\ pc' = "loop"
    BY <1>8 DEF Polls, envVars
  <2> QED
    BY <1>2, <1>4, <2>1, <2>6, <2>7, <2>8 DEF LoopTyped
<1> QED
  BY <1>5, <1>6, <1>7, <1>8, NextPlain DEF PlainStep

LEMMA LoopAlways == Spec => []LoopTyped
BY LoopInit, LoopStep, PTL DEF Spec

-----------------------------------------------------------------------------
(* A node that relays implements Relay.                                    *)

\* The state of Relay, seen from here.
PendingAs == [p \in RelayPorts |-> IF Relays /\ Contains(node.ports, p) THEN pipe[p] ELSE <<>>]
ItemsIn(s) == [k \in DOMAIN s |-> s[k].item]
HandledAs == IF Relays THEN ItemsIn(out) ELSE <<>>
FiltersAs == node.type \in {"grep", "tokenizer"}

LEMMA RelayPlain ==
  ASSUME node \in AllTypes, Relays
  PROVE  /\ Plain
         /\ node.type \notin LogicNames \cup {"barrier"}
         /\ NodePorts \subseteq RelayPorts
         /\ \A p \in RelayPorts : Contains(node.ports, p) <=> p \in NodePorts
<1>1. node.type \in StreamNames \cup OutputNames
  BY Families DEF Relays
<1>2. node.ports \in {<<"in">>, <<"in", "in2">>}
  BY StreamNode, WebNode DEF Relays, WebTypes
<1>3. NodePorts \subseteq RelayPorts /\ \A p \in RelayPorts : Contains(node.ports, p) <=> p \in NodePorts
  <2>1. CASE node.ports = <<"in">>
    BY <2>1 DEF NodePorts, RelayPorts, Contains, ToSet
  <2>2. CASE node.ports = <<"in", "in2">>
    BY <2>2 DEF NodePorts, RelayPorts, Contains, ToSet
  <2> QED
    BY <1>2, <2>1, <2>2
<1> QED
  BY <1>1, <1>3 DEF Plain, StreamNames, OutputNames, LogicNames

LEMMA RelayStep ==
  ASSUME LoopTyped, Next, Relays
  PROVE  \/ \E p \in NodePorts : Wire(p) \/ \E ok \in BOOLEAN : Send(p, ok)
         \/ Moves
         \/ Polls /\ Relays1
<1>1. /\ pc \in {"none", "loop"}
      /\ Len(pass) \in Nat
      /\ node \in AllTypes
      /\ Plain
  BY RelayPlain DEF LoopTyped
<1>2. node \notin DeviceTypes
  BY <1>1, Families DEF Plain, StreamNames, OutputNames, LogicNames, DeviceNames
<1>3. CASE Others
  <2>1. \/ \E p \in NodePorts : Wire(p) \/ \E ok \in BOOLEAN : Send(p, ok)
        \/ node \in WebTypes /\ RouteStep
    BY <1>2, <1>3 DEF Others, NodePorts
  <2> QED
    BY <2>1, <1>1, PlainMoves
<1>4. CASE Control \/ Wake
  BY <1>1, <1>4, PlainMoves
<1>5. CASE StreamStep
  BY <1>1, <1>5, StreamPolls
<1>6. CASE WebStep
  BY <1>1, <1>6, WebPolls
<1>7. ~BufferStep
  <2>1. ~(SyncBarrier \/ And \/ Or \/ Nand \/ Nor \/ Xor \/ Xnor)
    BY <1>1, RelayPlain
       DEF SyncBarrier, And, Or, Nand, Nor, Xor, Xnor, LogicGate, LogicNames
  <2> QED
    BY <1>1, <2>1, PlainBufferStep
<1> QED
  BY <1>1, <1>3, <1>4, <1>5, <1>6, <1>7, NoSourceStep, NoDeviceStep DEF Next, Process

LEMMA ItemsAppend ==
  ASSUME NEW s, IsSeq(s), NEW e
  PROVE  ItemsIn(Append(s, e)) = Append(ItemsIn(s), e.item)
<1> DEFINE t == Append(s, e)
           S == {s[k].item : k \in DOMAIN s} \cup {e.item}
           u == ItemsIn(s)
           v == Append(u, e.item)
<1>1. /\ DOMAIN s = 1..Len(s) /\ Len(s) \in Nat
      /\ DOMAIN t = 1..(Len(s) + 1)
      /\ \A k \in 1..Len(s) : t[k] = s[k]
      /\ t[Len(s) + 1] = e
  BY AppendSeq
<1> HIDE DEF t
<1>2. u \in Seq(S) /\ Len(u) = Len(s) /\ \A k \in 1..Len(s) : u[k] = s[k].item
  BY <1>1 DEF ItemsIn
<1>3. e.item \in S
  OBVIOUS
<1> HIDE DEF S, u
<1>4. /\ DOMAIN v = 1..(Len(s) + 1)
      /\ \A k \in 1..Len(s) : v[k] = s[k].item
      /\ v[Len(s) + 1] = e.item
      /\ v \in Seq(S)
  BY <1>1, <1>2, <1>3
<1> HIDE DEF v
<1>5. /\ DOMAIN ItemsIn(t) = 1..(Len(s) + 1)
      /\ \A k \in 1..Len(s) : ItemsIn(t)[k] = s[k].item
      /\ ItemsIn(t)[Len(s) + 1] = e.item
  BY <1>1 DEF ItemsIn
<1>6. \A k \in 1..(Len(s) + 1) : ItemsIn(t)[k] = v[k]
  BY <1>1, <1>4, <1>5
<1>7. ItemsIn(t) = [k \in 1..(Len(s) + 1) |-> ItemsIn(t)[k]]
  BY <1>1 DEF ItemsIn
<1>8. v = [k \in 1..(Len(s) + 1) |-> v[k]]
  BY <1>4
<1> QED
  BY <1>6, <1>7, <1>8 DEF t, u, v

LEMMA RelayRefines ==
  ASSUME LoopTyped, [Next]_vars
  PROVE  \/ Handled!Next
         \/ UNCHANGED <<PendingAs, HandledAs, FiltersAs>>
<1>1. CASE UNCHANGED vars
  BY <1>1
     DEF vars, envVars, dataVars, PendingAs, HandledAs, ItemsIn, FiltersAs, Relays
<1> SUFFICES ASSUME Next PROVE Handled!Next \/ UNCHANGED <<PendingAs, HandledAs, FiltersAs>>
  BY <1>1
<1>2. node' = node /\ Relays' = Relays /\ FiltersAs' = FiltersAs
  BY NextStays DEF Stays, Relays, FiltersAs
<1>3. CASE ~Relays
  BY <1>2, <1>3 DEF PendingAs, HandledAs
<1> SUFFICES ASSUME Relays PROVE Handled!Next \/ UNCHANGED <<PendingAs, HandledAs, FiltersAs>>
  BY <1>3
<1>4. /\ Plain
      /\ NodePorts \subseteq RelayPorts
      /\ pipe \in [NodePorts -> Seq(Item)]
      /\ pass \in Seq(NodePorts)
      /\ sent \in 0..MaxItems
      /\ IsSeq(out)
  BY RelayPlain DEF LoopTyped
<1>5. \A p \in RelayPorts : PendingAs[p] = IF p \in NodePorts THEN pipe[p] ELSE <<>>
  BY RelayPlain DEF PendingAs, LoopTyped
<1>6. PendingAs' = [p \in RelayPorts |-> IF p \in NodePorts THEN pipe'[p] ELSE <<>>]
  BY <1>2, RelayPlain DEF PendingAs, LoopTyped
<1>7. HandledAs = ItemsIn(out) /\ HandledAs' = ItemsIn(out')
  BY <1>2 DEF HandledAs, ItemsIn
<1>8. ASSUME NEW p \in NodePorts, Wire(p)
      PROVE  UNCHANGED <<PendingAs, HandledAs, FiltersAs>>
  BY <1>2, <1>7, <1>8 DEF Wire, dataVars, PendingAs
<1>9. ASSUME NEW p \in NodePorts, NEW ok \in BOOLEAN, Send(p, ok) PROVE Handled!Next
  <2>1. PICK i \in [port : RelayPorts, n : 1..MaxItems, ok : BOOLEAN] :
          i = [port |-> p, n |-> sent + 1, ok |-> ok] /\ i.port = p
    <3> DEFINE j == [port |-> p, n |-> sent + 1, ok |-> ok]
    <3>1. j \in [port : RelayPorts, n : 1..MaxItems, ok : BOOLEAN] /\ j.port = p
      BY <1>4, <1>9, NodeLoopAssumption DEF Send
    <3> HIDE DEF j
    <3> QED
      BY <3>1 DEF j
  <2>2. pipe' = [pipe EXCEPT ![p] = Append(@, i)] /\ out' = out
    BY <1>9, <2>1 DEF Send
  <2>3. PendingAs' = [PendingAs EXCEPT ![i.port] = Append(@, i)]
    BY <1>4, <1>5, <1>6, <2>1, <2>2 DEF PendingAs
  <2>4. Handled!Arrive(i)
    BY <1>2, <1>7, <2>2, <2>3 DEF Handled!Arrive, PendingAs, HandledAs, ItemsIn, FiltersAs
  <2> QED
    BY <2>1, <2>4 DEF Handled!Next
<1>10. ASSUME Moves PROVE UNCHANGED <<PendingAs, HandledAs, FiltersAs>>
  BY <1>2, <1>7, <1>10 DEF Moves, PendingAs
<1>11. ASSUME Polls, Relays1
       PROVE  Handled!Next \/ UNCHANGED <<PendingAs, HandledAs, FiltersAs>>
  <2>1. PICK p \in NodePorts : p = Head(pass)
    BY <1>4, <1>11 DEF Polls
  <2>2. CASE pipe[p] = <<>>
    BY <1>2, <1>7, <1>11, <2>1, <2>2 DEF Polls, Relays1, PendingAs
  <2>3. CASE pipe[p] # <<>>
    <3>1. pipe' = [pipe EXCEPT ![p] = Tail(@)]
      BY <1>11, <2>1, <2>3 DEF Polls
    <3>2. \/ \E to, form : out' = Append(out, Emission(Head(pipe[p]), to, form))
          \/ FiltersAs /\ ~Head(pipe[p]).ok /\ out' = out
      BY <1>11, <2>1, <2>3 DEF Relays1, FiltersAs
    <3>3. PendingAs' = [PendingAs EXCEPT ![p] = Tail(@)]
      BY <1>4, <1>5, <1>6, <2>1, <3>1 DEF PendingAs
    <3>4. PendingAs[p] = pipe[p] /\ p \in RelayPorts
      BY <1>4, <1>5, <2>1
    <3>5. ASSUME NEW to, NEW form, out' = Append(out, Emission(Head(pipe[p]), to, form))
          PROVE  Handled!Handle(p)
      <4>1. HandledAs' = Append(HandledAs, Head(PendingAs[p]))
        BY <1>4, <1>7, <3>4, <3>5, ItemsAppend DEF Emission
      <4> QED
        BY <1>2, <2>3, <3>3, <3>4, <4>1
           DEF Handled!Handle, PendingAs, HandledAs, ItemsIn, FiltersAs
    <3>6. ASSUME FiltersAs, ~Head(pipe[p]).ok, out' = out PROVE Handled!PassOver(p)
      BY <1>2, <1>7, <2>3, <3>3, <3>4, <3>6
         DEF Handled!PassOver, PendingAs, HandledAs, ItemsIn, FiltersAs
    <3> QED
      BY <3>2, <3>4, <3>5, <3>6 DEF Handled!Next
  <2> QED
    BY <2>2, <2>3
<1> QED
  BY <1>8, <1>9, <1>10, <1>11, RelayStep

\* Whatever order its wires come in, and wherever its task is paused, stopped
\* and started again, a node that handles its input item by item handles each
\* item that reached a port once, in the order of that port; only a filter
\* passes over an item, and only one that it does not match.
THEOREM RelayRefinement == Spec => ImplementsRelay
<1>1. NodeInit => Handled!Init
  <2> SUFFICES ASSUME NodeInit PROVE Handled!Init
    OBVIOUS
  <2>1. node \in AllTypes /\ out = <<>> /\ pipe = [p \in NodePorts |-> <<>>]
    BY TypesAssumption DEF NodeInit, Init, NodePorts
  <2>2. Relays => \A p \in RelayPorts : Contains(node.ports, p) => pipe[p] = <<>>
    BY <2>1, RelayPlain
  <2>3. [k \in DOMAIN out |-> out[k].item] = <<>>
    BY <2>1
  <2> QED
    BY <2>2, <2>3 DEF Handled!Init
<1>2. LoopTyped /\ [Next]_vars => Handled!Next \/ UNCHANGED <<PendingAs, HandledAs, FiltersAs>>
  BY RelayRefines
<1> QED
  BY <1>1, <1>2, LoopAlways, PTL
     DEF Spec, ImplementsRelay, Handled!Spec, PendingAs, HandledAs, ItemsIn, FiltersAs

-----------------------------------------------------------------------------
(* The nodes that join: what they hold, and what they have released.       *)

Joins == node.type \in LogicNames \cup {"barrier"}

\* What waits on a port was sent to it, in this order.
Ordered ==
  Plain => \A p \in NodePorts : \A i \in DOMAIN pipe[p] :
    /\ pipe[p][i].port = p
    /\ pipe[p][i].n <= sent
    /\ \A j \in DOMAIN pipe[p] : i < j => pipe[p][i].n < pipe[p][j].n

Distinct(s) == \A i, j \in DOMAIN s : i # j => s[i] # s[j]

\* A turn polls each port once.
Turns ==
  Joins =>
    /\ Distinct(wired) /\ Distinct(turn) /\ Distinct(pass)
    /\ Len(pass) <= Len(turn)
    /\ ToSet(turn) \subseteq ToSet(wired)
    /\ pc = "none" => pass = <<>> /\ turn = <<>>

\* A set of items, one for each of some ports, all of them older than what
\* waits there, and than the n items that were sent.
Older(f, n, waits) ==
  /\ DOMAIN f \subseteq RelayPorts
  /\ \A p \in DOMAIN f :
       /\ f[p].n \in Nat /\ f[p].n <= n
       /\ \A i \in DOMAIN waits[p] : f[p].n < waits[p][i].n

Before(f, g) == \A p \in DOMAIN f \cap DOMAIN g : f[p].n < g[p].n

\* A barrier holds what is newer than all it released.
BarrierInv ==
  node.type = "barrier" =>
    /\ mem = <<>> => life = "stopped" /\ pc = "none" /\ out = <<>>
    /\ mem # <<>> => DOMAIN mem = {"pending"} /\ Older(mem.pending, sent, pipe)
    /\ \A k \in DOMAIN out : Older(out[k].item, sent, pipe)
    /\ node.opt.flush =>
         /\ mem # <<>> => \A k \in DOMAIN out : Before(out[k].item, mem.pending)
         /\ \A j, k \in DOMAIN out : j < k => Before(out[j].item, out[k].item)

\* With no turn cut, it begins each turn without a full set.
SetOut ==
  node.type = "barrier" /\ node.opt.flush =>
    /\ cuts \in Nat
    /\ cuts = 0 =>
         /\ life # "paused" /\ (life = "stopped" => mem = <<>>)
         /\ pc = "loop" =>
              /\ \/ local = Seen
                 \/ local = Unseen /\ turn = <<>> /\ DOMAIN mem.pending = {}
                 \/ local = Unseen /\ ~(ToSet(turn) \subseteq DOMAIN mem.pending)
              /\ Len(pass) = Len(turn) => local = Unseen

\* The values used are of different ports, and were read one after the other.
Result(used, read) ==
  /\ DOMAIN used \subseteq Nat \ {0}
  /\ \A i, j \in DOMAIN used : i # j => used[i].port # used[j].port
  /\ \E b \in 0..Len(read) : \A i \in DOMAIN used :
       b + i <= Len(read) /\ read[b + i] = used[i]

\* The values v were read last, and are of different ports.
Latest(v, read) ==
  /\ Len(v) <= Len(read)
  /\ \A i \in DOMAIN v : read[(Len(read) - Len(v)) + i] = v[i]
  /\ \A i, j \in DOMAIN v : i # j => v[i].port # v[j].port

\* A gate holds the last values it read, of other ports than those to come.
GateInv ==
  node.type \in LogicNames =>
    /\ local \in Seq(Item) /\ Latest(local, got)
    /\ Len(pass) = Len(turn) => local = <<>>
    /\ \A i \in DOMAIN local : \A j \in DOMAIN pass : local[i].port # pass[j]
    /\ \A k \in DOMAIN out : Result(out[k].item, got)

JoinInv == LoopTyped /\ Ordered /\ Turns /\ BarrierInv /\ SetOut /\ GateInv

\* A node that joins has two ports, and looks at all that are wired.
LEMMA JoinNode ==
  ASSUME node \in AllTypes, Joins
  PROVE  /\ Plain /\ node \in BufferTypes
         /\ NodePorts = RelayPorts /\ node.polls = "all"
         /\ Polled = wired /\ NextTurn = wired
         /\ node \notin DeviceTypes /\ node \notin WebTypes
         /\ FreshMem = BufferMem /\ FreshLocal = BufferLocal
<1>1. Plain /\ node.type \in BufferNames
  BY DEF Joins, Plain, BufferNames
<1>2. /\ node \in BufferTypes
      /\ node \notin StreamTypes /\ node \notin SourceTypes
      /\ node \notin DeviceTypes /\ node \notin WebTypes
  BY <1>1, Families
     DEF Joins, StreamNames, LogicNames, BufferNames, SourceNames, DeviceNames, OutputNames,
         InputNames
<1>3. node.ports = <<"in", "in2">> /\ node.polls = "all"
  BY <1>2, BufferNode DEF Joins
<1>4. NodePorts = RelayPorts
  BY <1>3 DEF NodePorts, RelayPorts, ToSet
<1> QED
  BY <1>1, <1>2, <1>3, <1>4 DEF FreshMem, FreshLocal, Polled, NextTurn

LEMMA GateNode ==
  ASSUME NEW t \in BufferTypes, t.type \in LogicNames
  PROVE  t.opt.needed \in {1, 2}
BY DEF BufferTypes, BufferType, LogicNames

\* The calls and steps that such a node sees.
JoinCalls ==
  \/ Start(BufferMem, BufferLocal) \/ Resume(BufferLocal)
  \/ Pause \/ Stop
  \/ Wake

LogicStep == And \/ Or \/ Nand \/ Nor \/ Xor \/ Xnor

LEMMA NextJoin ==
  ASSUME LoopTyped, Next, Joins
  PROVE  \/ \E p \in NodePorts : Wire(p) \/ \E ok \in BOOLEAN : Send(p, ok)
         \/ JoinCalls
         \/ SyncBarrier \/ LogicStep
<1>1. /\ pc \in {"none", "loop"}
      /\ Len(pass) \in Nat
      /\ node \in AllTypes
      /\ Plain
  BY JoinNode DEF LoopTyped
<1>2. CASE Others
  BY <1>1, <1>2, JoinNode DEF Others, NodePorts
<1>3. CASE Control
  <2>1. /\ node.type \notin {"gate", "round_robin"}
        /\ node.type \notin Resettable
        /\ node.type \notin Windows
        /\ node.type \notin Raising
    BY DEF Joins, LogicNames, Resettable, Windows, Raising
  <2>2. ASSUME NEW next, Cut(next) PROVE Pause \/ Stop
    BY <1>1, <2>1, <2>2, JoinNode, Zenon DEF Cut
  <2> QED
    BY <1>1, <1>3, <2>1, <2>2, JoinNode, Zenon DEF Control, BufferCall, Resize, JoinCalls
<1>4. CASE Process
  <2>1. ~StreamStep /\ ~WebStep
    BY <1>1, StreamPolls, WebPolls DEF Joins, LogicNames, StreamNames, OutputNames
  <2> QED
    BY <1>1, <1>4, <2>1, NoSourceStep, NoDeviceStep, PlainBufferStep
       DEF Process, JoinCalls, LogicStep
<1> QED
  BY <1>2, <1>3, <1>4 DEF Next

-----------------------------------------------------------------------------

LEMMA ItemTyped ==
  ASSUME LoopTyped, Plain, NEW p \in NodePorts, NEW k \in DOMAIN pipe[p]
  PROVE  /\ pipe[p][k] \in Item
         /\ pipe[p][k].n \in Nat
         /\ k \in Nat
<1>1. pipe[p] \in Seq(Item)
  BY DEF LoopTyped
<1>2. pipe[p][k] \in Item /\ k \in Nat
  BY <1>1
<1> QED
  BY <1>2, NodeLoopAssumption DEF Item

LEMMA OrderedStep ==
  ASSUME LoopTyped, LoopTyped', Ordered, [Next]_vars PROVE Ordered'
<1>1. CASE UNCHANGED vars
  BY <1>1 DEF vars, envVars, dataVars, Ordered, Plain, NodePorts
<1> SUFFICES ASSUME Next, Plain PROVE Ordered'
  BY <1>1, NextStays DEF Ordered, Plain, Stays
<1>2. node' = node /\ NodePorts' = NodePorts /\ Plain' = Plain
  BY NextStays DEF Stays, NodePorts, Plain
<1>3. /\ pipe \in [NodePorts -> Seq(Item)]
      /\ pass \in Seq(NodePorts)
      /\ sent \in Nat
  BY NodeLoopAssumption DEF LoopTyped
<1>4. \A p \in NodePorts : \A k \in DOMAIN pipe[p] : pipe[p][k].n \in Nat /\ k \in Nat
  BY ItemTyped
<1>5. ASSUME NEW p \in NodePorts, Wire(p) PROVE Ordered'
  BY <1>2, <1>5 DEF Wire, dataVars, Ordered
<1>6. ASSUME NEW p \in NodePorts, NEW ok \in BOOLEAN, Send(p, ok) PROVE Ordered'
  <2> DEFINE i == [port |-> p, n |-> sent + 1, ok |-> ok]
  <2>1. pipe' = [pipe EXCEPT ![p] = Append(@, i)] /\ sent' = sent + 1
    BY <1>6 DEF Send
  <2>2. i.port = p /\ i.n = sent + 1 /\ i \in Item
    BY <1>6, <1>3, NodeLoopAssumption DEF Send, Item, LoopTyped
  <2> HIDE DEF i
  <2>3. /\ Len(Append(pipe[p], i)) = Len(pipe[p]) + 1
        /\ DOMAIN Append(pipe[p], i) = 1..(Len(pipe[p]) + 1)
        /\ DOMAIN pipe[p] = 1..Len(pipe[p]) /\ Len(pipe[p]) \in Nat
        /\ \A k \in 1..Len(pipe[p]) : Append(pipe[p], i)[k] = pipe[p][k]
        /\ Append(pipe[p], i)[Len(pipe[p]) + 1] = i
    BY <1>3, <2>2
  <2>4. \A k \in 1..Len(pipe[p]) : pipe[p][k].n \in Nat /\ pipe[p][k].n <= sent
    BY <1>4, <2>3 DEF Ordered
  <2>5. ASSUME NEW q \in NodePorts, NEW k \in DOMAIN pipe'[q]
        PROVE  /\ pipe'[q][k].port = q
               /\ pipe'[q][k].n <= sent'
               /\ \A j \in DOMAIN pipe'[q] : k < j => pipe'[q][k].n < pipe'[q][j].n
    <3>1. CASE q = p
      <4>1. pipe'[q] = Append(pipe[p], i) /\ k \in 1..(Len(pipe[p]) + 1)
        BY <1>3, <2>1, <2>3, <2>5, <3>1
      <4>2. \A j, m \in 1..Len(pipe[p]) : j < m => pipe[p][j].n < pipe[p][m].n
        BY <2>3 DEF Ordered
      <4>3. \A j \in 1..Len(pipe[p]) : pipe[p][j].port = p
        BY <2>3 DEF Ordered
      <4> QED
        BY <1>3, <2>1, <2>2, <2>3, <2>4, <3>1, <4>1, <4>2, <4>3
    <3>2. CASE q # p
      <4>1. pipe'[q] = pipe[q]
        BY <1>3, <2>1, <3>2
      <4>2. pipe[q][k].n \in Nat
        BY <1>4, <2>5, <4>1
      <4> QED
        BY <1>3, <2>1, <2>5, <4>1, <4>2 DEF Ordered
    <3> QED
      BY <3>1, <3>2
  <2> QED
    BY <1>2, <2>5 DEF Ordered
<1>7. ASSUME Moves PROVE Ordered'
  BY <1>2, <1>7 DEF Moves, envVars, Ordered
<1>8. ASSUME Polls PROVE Ordered'
  <2>1. PICK p \in NodePorts : p = Head(pass)
    BY <1>3, <1>8 DEF Polls
  <2>2. sent' = sent /\ 
        (pipe' = pipe \/ (pipe[p] # <<>> /\ pipe' = [pipe EXCEPT ![p] = Tail(@)]))
    BY <1>8, <2>1 DEF Polls, envVars
  <2>3. CASE pipe' = pipe
    BY <1>2, <2>2, <2>3 DEF Ordered
  <2>4. CASE pipe[p] # <<>> /\ pipe' = [pipe EXCEPT ![p] = Tail(@)]
    <3>1. /\ \A k \in DOMAIN Tail(pipe[p]) : k \in Nat /\ k + 1 \in DOMAIN pipe[p]
                                             /\ Tail(pipe[p])[k] = pipe[p][k + 1]
      BY <1>3, <2>4
    <3>2. \A q \in NodePorts : q # p => pipe'[q] = pipe[q]
      BY <1>3, <2>4
    <3>3. pipe'[p] = Tail(pipe[p])
      BY <1>3, <2>4
    <3>4. ASSUME NEW q \in NodePorts, NEW k \in DOMAIN pipe'[q]
          PROVE  /\ pipe'[q][k].port = q
                 /\ pipe'[q][k].n <= sent'
                 /\ \A j \in DOMAIN pipe'[q] : k < j => pipe'[q][k].n < pipe'[q][j].n
      <4>1. CASE q = p
        <5>1. k + 1 \in DOMAIN pipe[p] /\ pipe'[q][k] = pipe[p][k + 1] /\ k \in Nat
          BY <3>1, <3>3, <3>4, <4>1
        <5>2. ASSUME NEW j \in DOMAIN pipe'[q], k < j
              PROVE  pipe'[q][j] = pipe[p][j + 1] /\ j + 1 \in DOMAIN pipe[p] /\ k + 1 < j + 1
          <6>1. j \in DOMAIN Tail(pipe[p])
            BY <3>3, <4>1
          <6>2. j \in Nat /\ j + 1 \in DOMAIN pipe[p] /\ Tail(pipe[p])[j] = pipe[p][j + 1]
            BY <3>1, <6>1
          <6>3. k + 1 < j + 1
            BY <5>1, <5>2, <6>2
          <6>4. pipe'[q][j] = pipe[p][j + 1]
            BY <3>3, <4>1, <6>2
          <6> QED
            BY <6>2, <6>3, <6>4
        <5> QED
          BY <2>2, <4>1, <5>1, <5>2 DEF Ordered
      <4>2. CASE q # p
        BY <2>2, <3>2, <3>4, <4>2 DEF Ordered
      <4> QED
        BY <4>1, <4>2
    <3> QED
      BY <1>2, <3>4 DEF Ordered
  <2> QED
    BY <2>2, <2>3, <2>4
<1> QED
  BY <1>5, <1>6, <1>7, <1>8, NextPlain DEF PlainStep

LEMMA DistinctTail ==
  ASSUME NEW S, NEW s \in Seq(S), s # <<>>, Distinct(s)
  PROVE  /\ Distinct(Tail(s)) /\ Len(Tail(s)) = Len(s) - 1
         /\ \A k \in DOMAIN Tail(s) : Tail(s)[k] # Head(s)
<1>1. \A k \in DOMAIN Tail(s) : k \in Nat \ {0} /\ k + 1 \in DOMAIN s /\ Tail(s)[k] = s[k + 1]
  OBVIOUS
<1>2. Head(s) = s[1] /\ 1 \in DOMAIN s /\ Len(Tail(s)) = Len(s) - 1
  OBVIOUS
<1> QED
  BY <1>1, <1>2 DEF Distinct

LEMMA DistinctAppend ==
  ASSUME NEW S, NEW s \in Seq(S), NEW e \in S, Distinct(s), ~Contains(s, e)
  PROVE  Distinct(Append(s, e))
<1>1. /\ DOMAIN s = 1..Len(s) /\ Len(s) \in Nat
      /\ DOMAIN Append(s, e) = 1..(Len(s) + 1)
      /\ \A k \in 1..Len(s) : Append(s, e)[k] = s[k]
      /\ Append(s, e)[Len(s) + 1] = e
  OBVIOUS
<1>2. \A k \in 1..Len(s) : s[k] # e
  BY DEF Contains
<1> QED
  BY <1>1, <1>2 DEF Distinct

LEMMA ToSetAppend ==
  ASSUME NEW S, NEW s \in Seq(S), NEW e \in S
  PROVE  ToSet(s) \subseteq ToSet(Append(s, e))
BY DEF ToSet

LEMMA TurnsStep ==
  ASSUME LoopTyped, LoopTyped', Turns, [Next]_vars PROVE Turns'
<1>1. CASE UNCHANGED vars
  BY <1>1 DEF vars, envVars, loopVars, Turns, Joins, Distinct
<1> SUFFICES ASSUME Next, Joins PROVE Turns'
  BY <1>1, NextStays DEF Turns, Joins, Stays
<1>2. node' = node /\ Joins' = Joins /\ Polled = wired /\ NextTurn = wired /\ node.polls = "all"
  BY NextStays, JoinNode DEF Stays, Joins, LoopTyped
<1>3. wired \in Seq(NodePorts) /\ turn \in Seq(NodePorts) /\ pass \in Seq(NodePorts)
  BY JoinNode DEF LoopTyped
<1>4. /\ Distinct(wired) /\ Distinct(turn) /\ Distinct(pass)
      /\ Len(pass) <= Len(turn)
      /\ ToSet(turn) \subseteq ToSet(wired)
      /\ pc = "none" => pass = <<>> /\ turn = <<>>
  BY DEF Turns
<1>5. ASSUME wired' = wired, turn' = turn, pass' = pass, pc' = pc PROVE Turns'
  BY <1>2, <1>4, <1>5 DEF Turns, Distinct
<1>6. ASSUME wired' = wired, turn' = wired, pass' = wired, pc' = "loop" PROVE Turns'
  BY <1>2, <1>3, <1>4, <1>6 DEF Turns, Distinct
<1>7. ASSUME wired' = wired, turn' = <<>>, pass' = <<>> PROVE Turns'
  BY <1>2, <1>4, <1>7 DEF Turns, Distinct, ToSet
<1>8. ASSUME NEW p \in NodePorts, Wire(p) PROVE Turns'
  <2>1. wired' = Append(wired, p) /\ turn' = turn /\ pass' = pass /\ pc' = pc
    BY <1>2, <1>8 DEF Wire, loopVars
  <2>2. Distinct(Append(wired, p)) /\ ToSet(wired) \subseteq ToSet(Append(wired, p))
    BY <1>3, <1>4, <1>8, DistinctAppend, ToSetAppend DEF Wire
  <2>3. Distinct(wired')
    BY <2>1, <2>2
  <2> QED
    BY <1>2, <1>4, <2>1, <2>2, <2>3 DEF Turns, Distinct
<1>9. ASSUME NEW p \in NodePorts, NEW ok \in BOOLEAN, Send(p, ok) PROVE Turns'
  BY <1>5, <1>9 DEF Send, loopVars
<1>10. ASSUME JoinCalls PROVE Turns'
  BY <1>2, <1>5, <1>6, <1>7, <1>10
     DEF JoinCalls, Start, Resume, Pause, Stop, Wake, Enter, Cancel, Leave, envVars
<1>11. ASSUME Polls PROVE Turns'
  <2>1. wired' = wired /\ pc' = "loop" /\ pass # <<>>
    BY <1>11 DEF Polls, envVars
  <2>2. CASE pass' = Tail(pass) /\ turn' = turn
    <3>1. Distinct(Tail(pass)) /\ Len(Tail(pass)) <= Len(turn)
      BY <1>3, <1>4, <2>1, DistinctTail
    <3> QED
      BY <1>2, <1>4, <2>1, <2>2, <3>1 DEF Turns, Distinct
  <2>3. CASE turn' = NextTurn /\ pass' = turn'
    BY <1>2, <1>6, <2>1, <2>3
  <2> QED
    BY <1>11, <2>2, <2>3 DEF Polls
<1>12. SyncBarrier \/ LogicStep => Polls
  BY <1>3, BarrierPolls, LogicPolls DEF LogicStep
<1> QED
  BY <1>8, <1>9, <1>10, <1>11, <1>12, NextJoin

\* What a barrier holds when it has polled a port.
Held ==
  LET p == Head(pass) IN
  IF pipe[p] = <<>> THEN mem.pending
  ELSE [q \in DOMAIN mem.pending \cup {p} |-> IF q = p THEN Head(pipe[p]) ELSE mem.pending[q]]

Completes ==
  /\ Len(pass) = 1
  /\ pipe[Head(pass)] # <<>> \/ local # Unseen
  /\ ToSet(turn) \subseteq DOMAIN Held

BarrierTurn ==
  /\ DOMAIN mem' = {"pending"}
  /\ \/ /\ Completes
        /\ out' = Append(out, Emission(Held, turn, "set"))
        /\ mem'.pending = IF node.opt.flush THEN <<>> ELSE Held
     \/ /\ ~Completes
        /\ out' = out
        /\ mem'.pending = Held
  /\ local' = IF Len(pass) = 1 THEN Unseen
              ELSE IF pipe[Head(pass)] # <<>> THEN Seen ELSE local

LEMMA SeenIsNot == Seen # Unseen
BY DEF Seen, Unseen

LEMMA BarrierTurns ==
  ASSUME SyncBarrier, DOMAIN mem = {"pending"}, Len(pass) \in Nat
  PROVE  BarrierTurn
<1> DEFINE p == Head(pass)
           i == Head(pipe[p])
           Rest(s) == IF Len(pass) = 1 THEN BarrierEnd(s) ELSE s
           s0 == Self
           s1 == BarrierTake(Self, p, i)
<1>1. pc = "loop" /\ pass # <<>>
  BY DEF SyncBarrier, Poll
<1>2. \/ pipe[p] # <<>> /\ Becomes(Rest(s1))
      \/ pipe[p] = <<>> /\ Becomes(Rest(s0))
  BY <1>1 DEF SyncBarrier, Poll, BarrierTake, Self
<1>3. /\ s0.mem = mem /\ s0.local = local /\ s0.out = out
      /\ DOMAIN s0 = {"mem", "local", "out", "pc"}
  BY DEF Self
<1>4. /\ DOMAIN s1 = {"mem", "local", "out", "pc"}
      /\ s1.out = out /\ s1.local = Seen /\ DOMAIN s1.mem = {"pending"}
      /\ s1.mem.pending =
           [q \in DOMAIN mem.pending \cup {p} |-> IF q = p THEN i ELSE mem.pending[q]]
  BY DEF BarrierTake, Self
<1> HIDE DEF s0, s1, p, i
<1>5. ASSUME NEW s, DOMAIN s = {"mem", "local", "out", "pc"}, DOMAIN s.mem = {"pending"},
             s.local # Unseen, ToSet(turn) \subseteq DOMAIN s.mem.pending
      PROVE  /\ BarrierEnd(s).out = Append(s.out, Emission(s.mem.pending, turn, "set"))
             /\ BarrierEnd(s).local = Unseen
             /\ DOMAIN BarrierEnd(s).mem = {"pending"}
             /\ BarrierEnd(s).mem.pending =
                  IF node.opt.flush THEN <<>> ELSE s.mem.pending
  BY <1>5 DEF BarrierEnd, Give
<1>6. ASSUME NEW s, DOMAIN s = {"mem", "local", "out", "pc"},
             s.local = Unseen \/ ~(ToSet(turn) \subseteq DOMAIN s.mem.pending)
      PROVE  /\ BarrierEnd(s).out = s.out
             /\ BarrierEnd(s).local = Unseen
             /\ BarrierEnd(s).mem = s.mem
  BY <1>6 DEF BarrierEnd
<1>7. CASE pipe[p] # <<>>
  <2>1. Becomes(Rest(s1)) /\ Held = s1.mem.pending
    BY <1>2, <1>4, <1>7 DEF Held, p, i
  <2>2. CASE Len(pass) # 1
    BY <1>4, <1>7, <2>1, <2>2 DEF Becomes, BarrierTurn, Completes, p
  <2>3. CASE Len(pass) = 1 /\ ToSet(turn) \subseteq DOMAIN Held
    BY <1>4, <1>5, <1>7, <2>1, <2>3, SeenIsNot DEF Becomes, BarrierTurn, Completes, p
  <2>4. CASE Len(pass) = 1 /\ ~(ToSet(turn) \subseteq DOMAIN Held)
    BY <1>4, <1>6, <1>7, <2>1, <2>4 DEF Becomes, BarrierTurn, Completes, p
  <2> QED
    BY <2>2, <2>3, <2>4
<1>8. CASE pipe[p] = <<>>
  <2>1. Becomes(Rest(s0)) /\ Held = s0.mem.pending
    BY <1>2, <1>3, <1>8 DEF Held, p
  <2>2. CASE Len(pass) # 1
    BY <1>3, <1>8, <2>1, <2>2 DEF Becomes, BarrierTurn, Completes, p
  <2>3. CASE Len(pass) = 1 /\ local # Unseen /\ ToSet(turn) \subseteq DOMAIN Held
    BY <1>3, <1>5, <1>8, <2>1, <2>3 DEF Becomes, BarrierTurn, Completes, p
  <2>4. CASE Len(pass) = 1 /\ (local = Unseen \/ ~(ToSet(turn) \subseteq DOMAIN Held))
    BY <1>3, <1>6, <1>8, <2>1, <2>4 DEF Becomes, BarrierTurn, Completes, p
  <2> QED
    BY <2>2, <2>3, <2>4
<1> QED
  BY <1>7, <1>8

\* What a poll leaves on the ports is what was there, but for the item it read,
\* which is the oldest of its port.
LEMMA PollOrder ==
  ASSUME LoopTyped, Ordered, Plain, Polls
  PROVE  /\ Head(pass) \in NodePorts /\ sent' = sent
         /\ \A q \in NodePorts : \A i \in DOMAIN pipe'[q] :
              \E j \in DOMAIN pipe[q] : pipe'[q][i] = pipe[q][j]
         /\ pipe[Head(pass)] # <<>> =>
              LET e == Head(pipe[Head(pass)]) IN
              /\ e \in Item /\ e.n <= sent /\ e.port = Head(pass)
              /\ e = pipe[Head(pass)][1] /\ 1 \in DOMAIN pipe[Head(pass)]
              /\ \A i \in DOMAIN pipe'[Head(pass)] : e.n < pipe'[Head(pass)][i].n
<1>1. /\ pipe \in [NodePorts -> Seq(Item)]
      /\ pass \in Seq(NodePorts)
  BY DEF LoopTyped
<1>2. PICK p \in NodePorts : p = Head(pass)
  BY <1>1 DEF Polls
<1>3. sent' = sent /\ (pipe' = pipe \/ (pipe[p] # <<>> /\ pipe' = [pipe EXCEPT ![p] = Tail(@)]))
  BY <1>2 DEF Polls, envVars
<1>4. pipe[p] = <<>> => pipe' = pipe
  BY <1>2 DEF Polls
<1>5. pipe[p] # <<>> => pipe' = [pipe EXCEPT ![p] = Tail(@)]
  BY <1>2 DEF Polls
<1>6. CASE pipe[p] = <<>>
  BY <1>2, <1>3, <1>4, <1>6
<1>7. CASE pipe[p] # <<>>
  <2>1. \A k \in DOMAIN Tail(pipe[p]) :
          k \in Nat \ {0} /\ k + 1 \in DOMAIN pipe[p] /\ Tail(pipe[p])[k] = pipe[p][k + 1]
    BY <1>1, <1>7
  <2>2. /\ Head(pipe[p]) = pipe[p][1] /\ 1 \in DOMAIN pipe[p]
        /\ Head(pipe[p]) \in Item
    BY <1>1, <1>7
  <2>3. pipe'[p] = Tail(pipe[p]) /\ \A q \in NodePorts : q # p => pipe'[q] = pipe[q]
    BY <1>1, <1>5, <1>7
  <2>4. \A q \in NodePorts : \A i \in DOMAIN pipe'[q] :
          \E j \in DOMAIN pipe[q] : pipe'[q][i] = pipe[q][j]
    BY <2>1, <2>3
  <2>5. ASSUME NEW i \in DOMAIN pipe'[p] PROVE Head(pipe[p]).n < pipe'[p][i].n
    <3>1. i + 1 \in DOMAIN pipe[p] /\ pipe'[p][i] = pipe[p][i + 1] /\ 1 < i + 1
      BY <2>1, <2>3, <2>5
    <3> QED
      BY <2>2, <3>1 DEF Ordered
  <2>6. Head(pipe[p]).n <= sent /\ Head(pipe[p]).port = p
    BY <2>2 DEF Ordered
  <2> QED
    BY <1>2, <1>3, <2>2, <2>4, <2>5, <2>6
<1> QED
  BY <1>6, <1>7

LEMMA OlderStays ==
  ASSUME LoopTyped, Ordered, Next, Joins, NEW f, Older(f, sent, pipe)
  PROVE  Older(f, sent', pipe')
<1>1. /\ Plain /\ sent \in Nat /\ NodePorts = RelayPorts
      /\ pipe \in [NodePorts -> Seq(Item)]
  BY JoinNode, NodeLoopAssumption DEF LoopTyped
<1>2. /\ sent' \in {sent, sent + 1}
      /\ \A q \in RelayPorts : \A i \in DOMAIN pipe'[q] :
           \/ pipe'[q][i].n = sent + 1
           \/ \E j \in DOMAIN pipe[q] : pipe'[q][i] = pipe[q][j]
  <2>1. ASSUME NEW p \in NodePorts, NEW ok \in BOOLEAN, Send(p, ok) PROVE <1>2
    <3> DEFINE e == [port |-> p, n |-> sent + 1, ok |-> ok]
    <3>1. e \in Item /\ e.n = sent + 1
      BY <1>1, <2>1, NodeLoopAssumption DEF Send, Item
    <3>2. pipe' = [pipe EXCEPT ![p] = Append(@, e)] /\ sent' = sent + 1
      BY <2>1 DEF Send
    <3> HIDE DEF e
    <3>3. \A i \in DOMAIN Append(pipe[p], e) :
            \/ Append(pipe[p], e)[i] = e
            \/ i \in DOMAIN pipe[p] /\ Append(pipe[p], e)[i] = pipe[p][i]
      BY <1>1, <3>1
    <3> QED
      BY <1>1, <3>1, <3>2, <3>3
  <2>2. ASSUME pipe' = pipe, sent' = sent PROVE <1>2
    BY <2>2
  <2>3. ASSUME Polls PROVE <1>2
    BY <1>1, <2>3, PollOrder
  <2> QED
    BY <1>1, <2>1, <2>2, <2>3, NextPlain DEF PlainStep, Wire, Moves, envVars, dataVars
<1>3. ASSUME NEW p \in DOMAIN f, NEW i \in DOMAIN pipe'[p] PROVE f[p].n < pipe'[p][i].n
  <2>1. p \in RelayPorts /\ f[p].n \in Nat /\ f[p].n <= sent
    BY <1>3 DEF Older
  <2>2. CASE pipe'[p][i].n = sent + 1
    BY <1>1, <2>1, <2>2
  <2>3. CASE \E j \in DOMAIN pipe[p] : pipe'[p][i] = pipe[p][j]
    BY <1>3, <2>3 DEF Older
  <2> QED
    BY <1>2, <1>3, <2>1, <2>2, <2>3
<1> QED
  BY <1>1, <1>2, <1>3 DEF Older

LEMMA HeldOlder ==
  ASSUME LoopTyped, Ordered, Next, Joins, Polls, Older(mem.pending, sent, pipe)
  PROVE  Older(Held, sent', pipe')
<1> DEFINE p == Head(pass)
           e == Head(pipe[p])
<1>1. Older(mem.pending, sent', pipe')
  BY OlderStays
<1>2. CASE pipe[p] = <<>>
  BY <1>1, <1>2 DEF Held
<1>3. CASE pipe[p] # <<>>
  <2>1. /\ p \in RelayPorts /\ e.n \in Nat /\ e.n <= sent /\ sent' = sent
        /\ \A i \in DOMAIN pipe'[p] : e.n < pipe'[p][i].n
    <3>1. Plain /\ NodePorts = RelayPorts
      BY JoinNode DEF LoopTyped
    <3>2. /\ p \in NodePorts /\ e \in Item /\ e.n <= sent /\ sent' = sent
          /\ \A i \in DOMAIN pipe'[p] : e.n < pipe'[p][i].n
      BY <1>3, <3>1, PollOrder
    <3> QED
      BY <3>1, <3>2, NodeLoopAssumption DEF Item
  <2>2. Held = [q \in DOMAIN mem.pending \cup {p} |-> IF q = p THEN e ELSE mem.pending[q]]
    BY <1>3 DEF Held
  <2> HIDE DEF p, e
  <2> QED
    BY <1>1, <2>1, <2>2 DEF Older
<1> QED
  BY <1>2, <1>3

\* What it adds to a set is newer than what was released.
LEMMA HeldAfter ==
  ASSUME LoopTyped, Ordered, Plain, Polls,
         NEW f, Older(f, sent, pipe), Before(f, mem.pending)
  PROVE  Before(f, Held)
<1> DEFINE p == Head(pass)
           e == Head(pipe[p])
<1>1. CASE pipe[p] = <<>>
  BY <1>1 DEF Held
<1>2. CASE pipe[p] # <<>>
  <2>1. p \in DOMAIN f => f[p].n < e.n
    BY <1>2, PollOrder DEF Older
  <2>2. Held = [q \in DOMAIN mem.pending \cup {p} |-> IF q = p THEN e ELSE mem.pending[q]]
    BY <1>2 DEF Held
  <2> HIDE DEF p, e
  <2> QED
    BY <2>1, <2>2 DEF Before
<1> QED
  BY <1>1, <1>2

LEMMA BarrierStep ==
  ASSUME LoopTyped, LoopTyped', Ordered, BarrierInv, [Next]_vars PROVE BarrierInv'
<1>1. CASE UNCHANGED vars
  BY <1>1 DEF vars, lifeVars, loopVars, envVars, dataVars, BarrierInv, Older, Before
<1> SUFFICES ASSUME Next, node.type = "barrier" PROVE BarrierInv'
  BY <1>1, NextStays DEF BarrierInv, Stays
<1> DEFINE Set(k) == out[k].item
<1>2. node' = node /\ Joins /\ Plain /\ IsSeq(out) /\ Len(pass) \in Nat
  BY NextStays, JoinNode DEF Stays, Joins, LoopTyped
<1>3. /\ \A k \in DOMAIN out : Older(Set(k), sent, pipe) /\ Older(Set(k), sent', pipe')
      /\ mem = <<>> => life = "stopped" /\ pc = "none" /\ out = <<>>
      /\ mem # <<>> =>
           /\ DOMAIN mem = {"pending"}
           /\ Older(mem.pending, sent, pipe) /\ Older(mem.pending, sent', pipe')
  BY <1>2, OlderStays DEF BarrierInv
<1>4. node.opt.flush =>
        /\ mem # <<>> => \A k \in DOMAIN out : Before(Set(k), mem.pending)
        /\ \A j, k \in DOMAIN out : j < k => Before(Set(j), Set(k))
  BY DEF BarrierInv
<1>5. ASSUME mem' = mem, out' = out, pc' = pc \/ mem # <<>>, life' = life \/ mem # <<>>
             \/ life' = "stopped"
      PROVE  BarrierInv'
  BY <1>2, <1>3, <1>4, <1>5 DEF BarrierInv
<1>6. ASSUME Start(BufferMem, BufferLocal) PROVE BarrierInv'
  <2>1. mem' = [pending |-> <<>>] /\ out' = out /\ mem' # <<>>
    <3>1. BufferMem = [pending |-> <<>>]
      BY DEF BufferMem, Windows
    <3>2. DOMAIN [pending |-> <<>>] = {"pending"} /\ DOMAIN <<>> = {}
      OBVIOUS
    <3>3. [pending |-> <<>>] # <<>>
      BY <3>2, Zenon
    <3> QED
      BY <1>6, <3>1, <3>3 DEF Start
  <2>2. Older(<<>>, sent', pipe') /\ \A f : Before(f, <<>>)
    BY DEF Older, Before
  <2> QED
    BY <1>2, <1>3, <1>4, <2>1, <2>2 DEF BarrierInv
<1>7. ASSUME SyncBarrier PROVE BarrierInv'
  <2>1. Polls /\ mem # <<>>
    BY <1>2, <1>3, <1>7, BarrierPolls DEF Polls
  <2>2. BarrierTurn
    BY <1>2, <1>3, <1>7, <2>1, BarrierTurns
  <2>3. Older(Held, sent', pipe')
    BY <1>2, <1>3, <2>1, HeldOlder
  <2>4. node.opt.flush => \A k \in DOMAIN out : Before(Set(k), Held)
    BY <1>2, <1>3, <1>4, <2>1, HeldAfter
  <2>5. Older(<<>>, sent', pipe') /\ \A f : Before(f, <<>>)
    BY DEF Older, Before
  <2>6. DOMAIN mem' = {"pending"} /\ mem' # <<>>
    BY <2>2 DEF BarrierTurn
  <2>7. CASE out' = out /\ mem'.pending = Held
    BY <1>2, <1>3, <1>4, <2>3, <2>4, <2>6, <2>7 DEF BarrierInv
  <2>8. CASE /\ out' = Append(out, Emission(Held, turn, "set"))
             /\ mem'.pending = IF node.opt.flush THEN <<>> ELSE Held
    <3>1. /\ DOMAIN out = 1..Len(out) /\ Len(out) \in Nat
          /\ DOMAIN out' = 1..(Len(out) + 1)
          /\ \A k \in 1..Len(out) : out'[k] = out[k]
          /\ out'[Len(out) + 1].item = Held
      BY <1>2, <2>8, AppendSeq DEF Emission
    <3>2. \A k \in DOMAIN out' : Older(out'[k].item, sent', pipe')
      BY <1>3, <2>3, <3>1
    <3>3. node.opt.flush =>
            \A j, k \in DOMAIN out' : j < k => Before(out'[j].item, out'[k].item)
      BY <1>4, <2>4, <3>1
    <3>4. Older(mem'.pending, sent', pipe')
      BY <2>3, <2>5, <2>8
    <3> QED
      BY <1>2, <2>5, <2>6, <2>8, <3>2, <3>3, <3>4 DEF BarrierInv
  <2> QED
    BY <2>2, <2>7, <2>8 DEF BarrierTurn
<1>8. ASSUME JoinCalls PROVE BarrierInv'
  BY <1>3, <1>5, <1>6, <1>8
     DEF JoinCalls, Resume, Pause, Stop, Wake, Cancel, Leave, Enter, envVars, dataVars, lifeVars
<1>9. ASSUME NEW p, NEW ok, Wire(p) \/ Send(p, ok) PROVE BarrierInv'
  BY <1>5, <1>9 DEF Wire, Send, lifeVars, loopVars, dataVars
<1>10. ~LogicStep
  BY DEF LogicStep, LogicGate, And, Or, Nand, Nor, Xor, Xnor
<1> QED
  BY <1>2, <1>7, <1>8, <1>9, <1>10, NextJoin

LEMMA NotEmpty ==
  ASSUME NEW S, NEW s \in Seq(S), s # <<>> PROVE ~(ToSet(s) \subseteq {}) /\ Len(s) \in Nat \ {0}
<1>1. 1 \in DOMAIN s /\ Len(s) \in Nat \ {0}
  OBVIOUS
<1> QED
  BY <1>1 DEF ToSet

LEMMA SetOutStep ==
  ASSUME LoopTyped, Turns, BarrierInv, SetOut, [Next]_vars PROVE SetOut'
<1>1. CASE UNCHANGED vars
  BY <1>1 DEF vars, lifeVars, loopVars, envVars, dataVars, SetOut
<1> SUFFICES ASSUME Next, node.type = "barrier", node.opt.flush PROVE SetOut'
  BY <1>1, NextStays DEF SetOut, Stays
<1>2. node' = node /\ Joins /\ Plain /\ Polled = wired /\ NextTurn = wired
  BY NextStays, JoinNode DEF Stays, Joins, LoopTyped
<1>3. /\ wired \in Seq(NodePorts) /\ turn \in Seq(NodePorts) /\ pass \in Seq(NodePorts)
      /\ Len(pass) <= Len(turn) /\ ToSet(turn) \subseteq ToSet(wired)
  BY <1>2 DEF LoopTyped, Turns
<1>4. /\ cuts \in Nat
      /\ cuts = 0 =>
           /\ life # "paused" /\ (life = "stopped" => mem = <<>>)
           /\ pc = "loop" =>
                /\ \/ local = Seen
                   \/ local = Unseen /\ turn = <<>> /\ DOMAIN mem.pending = {}
                   \/ local = Unseen /\ ~(ToSet(turn) \subseteq DOMAIN mem.pending)
                /\ Len(pass) = Len(turn) => local = Unseen
  BY DEF SetOut
\* A turn that begins with nothing held, or with a port missing.
<1>5. ASSUME cuts' = cuts, life' = "running" \/ life' = life, turn' = wired, pass' = wired,
             local' = Unseen,
             DOMAIN mem'.pending = {} \/ ~(ToSet(turn) \subseteq DOMAIN mem'.pending),
             life' = "stopped" => mem' = mem
      PROVE  SetOut'
  <2>1. wired = <<>> \/ ~(ToSet(wired) \subseteq {})
    BY <1>3, NotEmpty
  <2>2. \/ turn' = <<>> /\ DOMAIN mem'.pending = {}
        \/ ~(ToSet(turn') \subseteq DOMAIN mem'.pending)
    <3>1. CASE DOMAIN mem'.pending = {}
      BY <1>5, <2>1, <3>1
    <3>2. CASE ~(ToSet(turn) \subseteq DOMAIN mem'.pending)
      BY <1>3, <1>5, <3>2
    <3> QED
      BY <1>5, <3>1, <3>2
  <2>3. (ToSet(turn) \subseteq DOMAIN mem.pending)' <=> (ToSet(turn') \subseteq DOMAIN mem'.pending)
    BY DEF ToSet
  <2> QED
    BY <1>4, <1>5, <2>2, <2>3 DEF SetOut
<1>6. ASSUME NEW p, NEW ok, Wire(p) \/ Send(p, ok) PROVE SetOut'
  BY <1>2, <1>4, <1>6 DEF Wire, Send, lifeVars, loopVars, dataVars, SetOut, ToSet
<1>7. ASSUME Pause \/ Stop PROVE SetOut'
  BY <1>4, <1>7 DEF Pause, Stop, Cancel, SetOut
<1>8. ASSUME Resume(BufferLocal) PROVE SetOut'
  BY <1>4, <1>8 DEF Resume, SetOut
<1>9. ASSUME Start(BufferMem, BufferLocal) PROVE SetOut'
  <2>1. BufferMem = [pending |-> <<>>] /\ BufferLocal = Unseen
    BY DEF BufferMem, BufferLocal, Windows
  <2>2. mem'.pending = <<>> /\ local' = Unseen /\ turn' = wired /\ pass' = wired
        /\ life' = "running" /\ cuts' = cuts
    BY <1>2, <1>9, <2>1 DEF Start, Enter
  <2>3. DOMAIN mem'.pending = {}
    BY <2>2
  <2> QED
    BY <1>5, <2>2, <2>3
<1>10. ASSUME Wake PROVE SetOut'
  <2>1. /\ cuts' = cuts /\ life' = life /\ mem' = mem /\ local' = local /\ pc = "loop"
        /\ turn = <<>> /\ turn' = wired /\ pass' = wired
    BY <1>2, <1>10 DEF Wake, lifeVars, dataVars
  <2>2. CASE cuts = 0
    <3>1. pass = <<>>
      BY <1>3, <2>1
    <3>2. local = Unseen /\ ToSet(<<>>) = {}
      BY <1>4, <2>1, <2>2, <3>1 DEF ToSet
    <3>3. DOMAIN mem.pending = {}
      BY <1>4, <2>1, <2>2, <3>2, SeenIsNot
    <3> QED
      BY <1>5, <2>1, <3>2, <3>3
  <2>3. CASE cuts # 0
    BY <1>4, <2>1, <2>3 DEF SetOut
  <2> QED
    BY <2>2, <2>3
<1>11. ASSUME SyncBarrier PROVE SetOut'
  <2>1. Polls /\ Len(pass) \in Nat \ {0} /\ Len(turn) \in Nat
    BY <1>3, <1>11, BarrierPolls DEF Polls
  <2>2. /\ cuts' = cuts /\ life' = life /\ pc = "loop" /\ pc' = "loop" /\ mem # <<>>
        /\ life # "stopped" \/ cuts # 0
    BY <1>4, <2>1, <1>2 DEF Polls, lifeVars, BarrierInv
  <2>3. BarrierTurn
    BY <1>11, <2>1, <2>2, BarrierTurns DEF BarrierInv
  <2>4. CASE cuts # 0
    BY <1>4, <2>2, <2>4 DEF SetOut
  <2> SUFFICES ASSUME cuts = 0 PROVE SetOut'
    BY <2>4
  <2>5. turn # <<>>
    BY <1>3, <2>1
  <2>6. pipe[Head(pass)] = <<>> => Held = mem.pending
    BY DEF Held
  <2>7. CASE Len(pass) = 1
    <3>1. turn' = wired /\ pass' = wired /\ local' = Unseen
      BY <1>2, <2>1, <2>3, <2>7 DEF Polls, BarrierTurn
    <3>2. CASE Completes
      <4>1. mem'.pending = <<>>
        BY <2>3, <3>2 DEF BarrierTurn, Completes
      <4>2. DOMAIN mem'.pending = {}
        BY <4>1
      <4> QED
        BY <1>5, <2>2, <3>1, <4>2
    <3>3. CASE ~Completes
      <4>1. ~(ToSet(turn) \subseteq DOMAIN Held)
        BY <1>4, <2>2, <2>5, <2>6, <2>7, <3>3, SeenIsNot DEF Completes
      <4> QED
        BY <1>5, <2>2, <2>3, <3>1, <3>3, <4>1 DEF BarrierTurn
    <3> QED
      BY <3>2, <3>3
  <2>8. CASE Len(pass) # 1
    <3>1. pass' = Tail(pass) /\ turn' = turn
      <4>1. \A n \in Nat \ {0} : n # 1 => ~(n <= 1)
        OBVIOUS
      <4> QED
        BY <2>1, <2>8, <4>1, Zenon DEF Polls
    <3>2. Len(pass') # Len(turn')
      <4>1. Len(Tail(pass)) = Len(pass) - 1
        BY <1>3, <2>1
      <4>2. Len(pass') = Len(pass) - 1 /\ Len(turn') = Len(turn)
        BY <3>1, <4>1, Zenon
      <4> QED
        BY <1>3, <2>1, <4>2
    <3>3. /\ mem'.pending = Held
          /\ local' = IF pipe[Head(pass)] # <<>> THEN Seen ELSE local
      BY <2>3, <2>8 DEF BarrierTurn, Completes
    <3>4. local' = Seen \/ (local' = Unseen /\ ~(ToSet(turn) \subseteq DOMAIN mem'.pending))
      BY <1>4, <2>2, <2>5, <2>6, <3>3
    <3> QED
      BY <1>4, <2>2, <3>1, <3>2, <3>4 DEF SetOut, ToSet
  <2> QED
    BY <2>7, <2>8
<1>12. ~LogicStep
  BY DEF LogicStep, LogicGate, And, Or, Nand, Nor, Xor, Xnor
<1> QED
  BY <1>2, <1>6, <1>7, <1>8, <1>9, <1>10, <1>11, <1>12, NextJoin DEF JoinCalls

\* The values of the turn when a logic gate has polled a port.
Values ==
  LET p == Head(pass) IN
  IF pipe[p] = <<>> THEN local ELSE Append(local, Head(pipe[p]))

GateTurn ==
  \/ /\ Len(pass) # 1
     /\ local' = Values
     /\ out' = out
  \/ /\ Len(pass) = 1
     /\ local' = <<>>
     /\ \/ out' = out
        \/ /\ Len(Values) >= node.opt.needed
           /\ \E form : out' = Append(out, Emission(SubSeq(Values, 1, node.opt.needed), <<"out">>, form))

\* What a gate makes of the values of a turn, with the result `form`.
Ended(s, form) ==
  LET t == [s EXCEPT !.local = <<>>] IN
  IF Len(s.local) < node.opt.needed THEN t
  ELSE Give(t, SubSeq(s.local, 1, node.opt.needed), <<"out">>, form)

Polled1 ==
  LET p == Head(pass) IN
  IF pipe[p] = <<>> THEN Self ELSE GateTake(Self, p, Head(pipe[p]))

GatePoll ==
  /\ Polled1.pc = "loop"
  /\ IF Len(pass) = 1 THEN \E form : Becomes(Ended(Polled1, form)) ELSE Becomes(Polled1)

LEMMA GatePolls ==
  ASSUME LogicStep PROVE GatePoll
<1>1. Polled1.pc = pc
  BY DEF Polled1, Self, GateTake
<1>2. ASSUME And PROVE GatePoll
  <2>1. Len(pass) = 1 => Becomes(Ended(Polled1, AllTrue(SubSeq(Polled1.local, 1, node.opt.needed))))
    BY <1>1, <1>2 DEF And, LogicGate, Poll, GateEnd, Ended, Polled1
  <2> QED
    BY <1>1, <1>2, <2>1 DEF And, LogicGate, Poll, GatePoll, Polled1
<1>3. ASSUME Or PROVE GatePoll
  <2>1. Len(pass) = 1 => Becomes(Ended(Polled1, AnyTrue(SubSeq(Polled1.local, 1, node.opt.needed))))
    BY <1>1, <1>3 DEF Or, LogicGate, Poll, GateEnd, Ended, Polled1
  <2> QED
    BY <1>1, <1>3, <2>1 DEF Or, LogicGate, Poll, GatePoll, Polled1
<1>4. ASSUME Nand PROVE GatePoll
  <2>1. Len(pass) = 1 => Becomes(Ended(Polled1, ~AllTrue(SubSeq(Polled1.local, 1, node.opt.needed))))
    BY <1>1, <1>4 DEF Nand, LogicGate, Poll, GateEnd, Ended, Polled1
  <2> QED
    BY <1>1, <1>4, <2>1 DEF Nand, LogicGate, Poll, GatePoll, Polled1
<1>5. ASSUME Nor PROVE GatePoll
  <2>1. Len(pass) = 1 => Becomes(Ended(Polled1, ~AnyTrue(SubSeq(Polled1.local, 1, node.opt.needed))))
    BY <1>1, <1>5 DEF Nor, LogicGate, Poll, GateEnd, Ended, Polled1
  <2> QED
    BY <1>1, <1>5, <2>1 DEF Nor, LogicGate, Poll, GatePoll, Polled1
<1>6. ASSUME Xor PROVE GatePoll
  <2>1. Len(pass) = 1 => Becomes(Ended(Polled1, OddTrue(SubSeq(Polled1.local, 1, node.opt.needed))))
    BY <1>1, <1>6 DEF Xor, LogicGate, Poll, GateEnd, Ended, Polled1
  <2> QED
    BY <1>1, <1>6, <2>1 DEF Xor, LogicGate, Poll, GatePoll, Polled1
<1>7. ASSUME Xnor PROVE GatePoll
  <2>1. Len(pass) = 1 => Becomes(Ended(Polled1, ~OddTrue(SubSeq(Polled1.local, 1, node.opt.needed))))
    BY <1>1, <1>7 DEF Xnor, LogicGate, Poll, GateEnd, Ended, Polled1
  <2> QED
    BY <1>1, <1>7, <2>1 DEF Xnor, LogicGate, Poll, GatePoll, Polled1
<1> QED
  BY <1>2, <1>3, <1>4, <1>5, <1>6, <1>7 DEF LogicStep

LEMMA GateTurns ==
  ASSUME LogicStep, Len(Values) \in Nat, node.opt.needed \in {1, 2}
  PROVE  GateTurn
<1>1. /\ DOMAIN Polled1 = {"mem", "local", "out", "pc"}
      /\ Polled1.local = Values /\ Polled1.out = out
  BY DEF Polled1, Self, GateTake, Values
<1>2. GatePoll
  BY GatePolls
<1> HIDE DEF Polled1
<1>3. CASE Len(pass) # 1
  BY <1>1, <1>2, <1>3 DEF GatePoll, Becomes, GateTurn
<1>4. CASE Len(pass) = 1
  <2>1. PICK form : Becomes(Ended(Polled1, form))
    BY <1>2, <1>4 DEF GatePoll
  <2>2. /\ Ended(Polled1, form).local = <<>>
        /\ \/ Ended(Polled1, form).out = out
           \/ /\ Len(Values) >= node.opt.needed
              /\ Ended(Polled1, form).out =
                   Append(out, Emission(SubSeq(Values, 1, node.opt.needed), <<"out">>, form))
    BY <1>1 DEF Ended, Give
  <2> QED
    BY <1>4, <2>1, <2>2 DEF Becomes, GateTurn
<1> QED
  BY <1>3, <1>4

\* A result stays a result when more is read.
LEMMA ResultStays ==
  ASSUME NEW S, NEW read \in Seq(S), NEW e \in S, NEW used, Result(used, read)
  PROVE  Result(used, Append(read, e))
<1>1. /\ Len(read) \in Nat /\ Len(Append(read, e)) = Len(read) + 1
      /\ \A k \in 1..Len(read) : Append(read, e)[k] = read[k]
  OBVIOUS
<1>2. PICK b \in 0..Len(read) :
        \A i \in DOMAIN used : b + i <= Len(read) /\ read[b + i] = used[i]
  BY DEF Result
<1>3. b \in 0..Len(Append(read, e))
  BY <1>1
<1>4. ASSUME NEW i \in DOMAIN used
      PROVE  b + i <= Len(Append(read, e)) /\ Append(read, e)[b + i] = used[i]
  <2>1. i \in Nat \ {0} /\ b + i <= Len(read) /\ read[b + i] = used[i]
    BY <1>2 DEF Result
  <2>2. b + i \in 1..Len(read)
    BY <1>1, <2>1
  <2> QED
    BY <1>1, <2>1, <2>2
<1> QED
  BY <1>3, <1>4 DEF Result

\* The first values of those that were read last make a result.
LEMMA LastResult ==
  ASSUME NEW S, NEW read \in Seq(S), NEW v \in Seq(S), Latest(v, read),
         NEW n \in 1..2, n <= Len(v)
  PROVE  Result(SubSeq(v, 1, n), read)
<1> DEFINE u == SubSeq(v, 1, n)
           b == Len(read) - Len(v)
<1>1. DOMAIN u = 1..n /\ \A i \in 1..n : u[i] = v[i] /\ i \in DOMAIN v
  OBVIOUS
<1>2. b \in 0..Len(read) /\ \A i \in 1..n : b + i <= Len(read)
  BY DEF Latest
<1> HIDE DEF u
<1>3. \A i \in 1..n : read[b + i] = u[i]
  BY <1>1 DEF Latest
<1>4. \A i, j \in 1..n : i # j => u[i].port # u[j].port
  BY <1>1 DEF Latest
<1>5. \E c \in 0..Len(read) : \A i \in 1..n : c + i <= Len(read) /\ read[c + i] = u[i]
  BY <1>2, <1>3
<1>6. DOMAIN u = 1..n
  BY <1>1
<1> HIDE DEF b
<1>7. Result(u, read)
  <2>1. DOMAIN u \subseteq Nat \ {0}
    BY <1>6
  <2>2. \A i, j \in DOMAIN u : i # j => u[i].port # u[j].port
    BY <1>4, <1>6, Zenon
  <2>3. \E c \in 0..Len(read) : \A i \in DOMAIN u : c + i <= Len(read) /\ read[c + i] = u[i]
    BY <1>5, <1>6, Zenon
  <2> QED
    BY <2>1, <2>2, <2>3, Zenon DEF Result
<1> QED
  BY <1>7 DEF u

LEMMA LatestAppend ==
  ASSUME NEW S, NEW read \in Seq(S), NEW v \in Seq(S), Latest(v, read),
         NEW e \in S, \A i \in DOMAIN v : v[i].port # e.port
  PROVE  Latest(Append(v, e), Append(read, e))
<1> DEFINE r == Append(read, e)
           w == Append(v, e)
<1>1. /\ Len(read) \in Nat /\ Len(r) = Len(read) + 1
      /\ \A k \in 1..Len(read) : r[k] = read[k]
      /\ r[Len(read) + 1] = e
      /\ Len(v) \in Nat /\ Len(w) = Len(v) + 1 /\ DOMAIN v = 1..Len(v)
      /\ DOMAIN w = 1..(Len(v) + 1)
      /\ \A k \in 1..Len(v) : w[k] = v[k]
      /\ w[Len(v) + 1] = e
  OBVIOUS
<1> HIDE DEF r, w
<1>2. ASSUME NEW i \in DOMAIN w PROVE r[(Len(r) - Len(w)) + i] = w[i]
  <2>1. Len(r) - Len(w) = Len(read) - Len(v) /\ Len(v) <= Len(read)
    BY <1>1 DEF Latest
  <2>2. CASE i = Len(v) + 1
    BY <1>1, <2>1, <2>2
  <2>3. CASE i \in 1..Len(v)
    <3>1. (Len(read) - Len(v)) + i \in 1..Len(read)
      BY <1>1, <2>1, <2>3
    <3>2. read[(Len(read) - Len(v)) + i] = v[i]
      BY <1>1, <2>3 DEF Latest
    <3> QED
      BY <1>1, <2>1, <2>3, <3>1, <3>2
  <2> QED
    BY <1>1, <1>2, <2>2, <2>3
<1>3. ASSUME NEW i \in DOMAIN w, NEW j \in DOMAIN w, i # j PROVE w[i].port # w[j].port
  BY <1>1, <1>3 DEF Latest
<1> QED
  BY <1>1, <1>2, <1>3 DEF Latest, r, w

\* What a gate has when it has polled a port: the values it read last, of
\* other ports than those to come.
LEMMA ValuesLatest ==
  ASSUME LoopTyped, Ordered, Turns, Joins, Polls,
         local \in Seq(Item), Latest(local, got),
         \A i \in DOMAIN local : \A j \in DOMAIN pass : local[i].port # pass[j]
  PROVE  /\ Values \in Seq(Item) /\ Latest(Values, got')
         /\ \A i \in DOMAIN Values : \A j \in DOMAIN Tail(pass) : Values[i].port # Tail(pass)[j]
<1> DEFINE p == Head(pass)
           e == Head(pipe[p])
<1>1. /\ pass \in Seq(NodePorts) /\ pass # <<>> /\ Distinct(pass) /\ Plain
      /\ got \in Seq(Item)
  BY JoinNode DEF LoopTyped, Turns, Polls
<1>2. /\ 1 \in DOMAIN pass /\ pass[1] = p
      /\ \A j \in DOMAIN Tail(pass) : j + 1 \in DOMAIN pass /\ Tail(pass)[j] = pass[j + 1]
  BY <1>1
<1>3. \A j \in DOMAIN Tail(pass) : Tail(pass)[j] # p
  BY <1>1, DistinctTail
<1>4. \A i \in DOMAIN local :
        local[i].port # p /\ \A j \in DOMAIN Tail(pass) : local[i].port # Tail(pass)[j]
  BY <1>2
<1>5. CASE pipe[p] = <<>>
  <2>1. Values = local /\ got' = got
    BY <1>5 DEF Values, Polls
  <2> QED
    BY <1>4, <2>1
<1>6. CASE pipe[p] # <<>>
  <2>1. Values = Append(local, e) /\ got' = Append(got, e)
    BY <1>6 DEF Values, Polls
  <2>2. e \in Item /\ e.port = p
    BY <1>1, <1>6, PollOrder
  <2> HIDE DEF p, e
  <2>3. Latest(Append(local, e), Append(got, e))
    BY <1>1, <1>4, <2>2, LatestAppend
  <2>4. /\ Append(local, e) \in Seq(Item)
        /\ \A i \in DOMAIN Append(local, e) :
             Append(local, e)[i] = e \/ (i \in DOMAIN local /\ Append(local, e)[i] = local[i])
    BY <2>2
  <2> QED
    BY <1>3, <1>4, <2>1, <2>2, <2>3, <2>4
<1> QED
  BY <1>5, <1>6

LEMMA GateStep ==
  ASSUME LoopTyped, LoopTyped', Ordered, Turns, GateInv, [Next]_vars PROVE GateInv'
<1>1. CASE UNCHANGED vars
  BY <1>1 DEF vars, loopVars, dataVars, GateInv, Item, NodePorts
<1> SUFFICES ASSUME Next, node.type \in LogicNames PROVE GateInv'
  BY <1>1, NextStays DEF GateInv, Stays
<1>2. /\ node' = node /\ Joins /\ Plain /\ IsSeq(out) /\ node.opt.needed \in {1, 2}
      /\ got \in Seq(Item) /\ wired \in Seq(NodePorts)
      /\ turn \in Seq(NodePorts) /\ pass \in Seq(NodePorts) /\ Len(pass) <= Len(turn)
      /\ BufferLocal = <<>>
      /\ Item' = Item
  <2>1. Joins /\ node.type \notin {"fifo", "lifo", "line_buffer", "rolling", "barrier", "gate"}
    BY DEF Joins, LogicNames
  <2> QED
    BY <2>1, NextStays, JoinNode, GateNode
       DEF Stays, LoopTyped, Turns, BufferLocal, Item, NodePorts
<1>3. /\ local \in Seq(Item) /\ Latest(local, got)
      /\ Len(pass) = Len(turn) => local = <<>>
      /\ \A i \in DOMAIN local : \A j \in DOMAIN pass : local[i].port # pass[j]
      /\ \A k \in DOMAIN out : Result(out[k].item, got)
  BY DEF GateInv
<1>4. ASSUME local' = local, turn' = turn, pass' = pass, got' = got, out' = out PROVE GateInv'
  BY <1>2, <1>3, <1>4 DEF GateInv
<1>5. \A read \in Seq(Item) : <<>> \in Seq(Item) /\ Latest(<<>>, read)
  BY DEF Latest
<1>6. ASSUME local' = <<>>, got' = got, out' = out PROVE GateInv'
  BY <1>2, <1>3, <1>5, <1>6 DEF GateInv
<1>7. ASSUME NEW p, NEW ok, Wire(p) \/ Send(p, ok) PROVE GateInv'
  BY <1>4, <1>7 DEF Wire, Send, loopVars, dataVars
<1>8. ASSUME JoinCalls PROVE GateInv'
  <2>1. ASSUME Wake PROVE local' = <<>>
    <3>1. turn = <<>> /\ Len(turn) = 0 /\ local' = local /\ Len(pass) \in Nat
      BY <1>2, <2>1 DEF Wake
    <3> QED
      BY <1>2, <1>3, <3>1
  <2> QED
    BY <1>2, <1>6, <1>8, <2>1
       DEF JoinCalls, Start, Resume, Pause, Stop, Wake, Enter, Cancel, Leave, dataVars
<1>9. ASSUME LogicStep PROVE GateInv'
  <2>1. Polls /\ Len(pass) \in Nat \ {0}
    BY <1>2, <1>9, LogicPolls DEF Polls, LogicStep
  <2>2. /\ Values \in Seq(Item) /\ Latest(Values, got')
        /\ \A i \in DOMAIN Values : \A j \in DOMAIN Tail(pass) : Values[i].port # Tail(pass)[j]
    BY <1>2, <1>3, <2>1, ValuesLatest
  <2>3. Len(Values) \in Nat /\ GateTurn
    BY <1>2, <1>9, <2>2, GateTurns
  <2>4. got' \in Seq(Item)
    BY <1>2, NextStays DEF LoopTyped, Stays, Plain, NodePorts, Item
  <2>5. \A k \in DOMAIN out : Result(out[k].item, got')
    <3>1. PICK e : got' = got \/ (e \in Item /\ got' = Append(got, e))
      <4>1. CASE pipe[Head(pass)] = <<>>
        BY <2>1, <4>1 DEF Polls
      <4>2. CASE pipe[Head(pass)] # <<>>
        BY <1>2, <2>1, <4>2, PollOrder DEF Polls
      <4> QED
        BY <4>1, <4>2
    <3> QED
      BY <1>2, <1>3, <3>1, ResultStays
  <2>6. CASE Len(pass) # 1
    <3>1. local' = Values /\ out' = out
      BY <2>3, <2>6 DEF GateTurn
    <3>2. pass' = Tail(pass) /\ turn' = turn
      <4>1. \A n \in Nat \ {0} : n # 1 => ~(n <= 1)
        OBVIOUS
      <4> QED
        BY <2>1, <2>6, <4>1, Zenon DEF Polls
    <3>3. Len(pass') # Len(turn')
      <4>1. Len(Tail(pass)) = Len(pass) - 1 /\ Len(turn) \in Nat /\ Len(pass) <= Len(turn)
        BY <1>2, <2>1
      <4>2. Len(pass') = Len(pass) - 1 /\ Len(turn') = Len(turn)
        BY <3>2, <4>1, Zenon
      <4>3. \A m, n \in Nat : m <= n => m - 1 # n
        OBVIOUS
      <4>4. Len(pass) - 1 # Len(turn)
        BY <2>1, <4>1, <4>3
      <4> QED
        BY <4>2, <4>4, Zenon
    <3> QED
      BY <1>2, <2>2, <2>5, <3>1, <3>2, <3>3 DEF GateInv
  <2>7. CASE Len(pass) = 1
    <3>1. local' = <<>>
      BY <2>3, <2>7 DEF GateTurn
    <3>2. \A k \in DOMAIN out' : Result(out'[k].item, got')
      <4>1. CASE out' = out
        BY <2>5, <4>1
      <4>2. ASSUME NEW form, Len(Values) >= node.opt.needed,
                   out' = Append(out, Emission(SubSeq(Values, 1, node.opt.needed), <<"out">>, form))
            PROVE  <3>2
        <5>1. Result(SubSeq(Values, 1, node.opt.needed), got')
          BY <1>2, <2>2, <2>3, <2>4, <4>2, LastResult
        <5> DEFINE e == Emission(SubSeq(Values, 1, node.opt.needed), <<"out">>, form)
        <5>2. out' = Append(out, e) /\ e.item = SubSeq(Values, 1, node.opt.needed)
          BY <4>2 DEF Emission
        <5> HIDE DEF e
        <5>3. \A k \in DOMAIN out' : (k \in DOMAIN out /\ out'[k] = out[k]) \/ out'[k] = e
          BY <1>2, <5>2, AppendSeq
        <5> QED
          BY <2>5, <5>1, <5>2, <5>3
      <4> QED
        BY <2>3, <2>7, <4>1, <4>2 DEF GateTurn
    <3> QED
      BY <1>5, <2>4, <3>1, <3>2 DEF GateInv
  <2> QED
    BY <2>6, <2>7
<1>10. ~SyncBarrier
  BY DEF SyncBarrier, LogicNames
<1> QED
  BY <1>2, <1>7, <1>8, <1>9, <1>10, NextJoin

LEMMA JoinInit ==
  ASSUME NodeInit PROVE JoinInv
<1>1. LoopTyped
  BY LoopInit
<1>2. /\ wired = <<>> /\ turn = <<>> /\ pass = <<>> /\ local = <<>> /\ mem = <<>>
      /\ out = <<>> /\ got = <<>> /\ pc = "none" /\ life = "stopped" /\ cuts = 0
      /\ pipe = [p \in ToSet(node.ports) |-> <<>>]
  BY DEF NodeInit, Init
<1>3. Ordered
  BY <1>2 DEF Ordered, NodePorts
<1>4. Turns
  BY <1>2 DEF Turns, Distinct, ToSet
<1>5. BarrierInv
  BY <1>2 DEF BarrierInv
<1>6. SetOut
  BY <1>2 DEF SetOut
<1>7. GateInv
  BY <1>2 DEF GateInv, Latest
<1> QED
  BY <1>1, <1>3, <1>4, <1>5, <1>6, <1>7 DEF JoinInv

\* What is joined, and what the turn has read, stay as JoinInv says.
LEMMA JoinAlways == Spec => []JoinInv
<1>1. NodeInit => JoinInv
  BY JoinInit
<1>2. JoinInv /\ LoopTyped' /\ [Next]_vars => JoinInv'
  BY OrderedStep, TurnsStep, BarrierStep, SetOutStep, GateStep DEF JoinInv
<1> QED
  BY <1>1, <1>2, LoopAlways, PTL DEF Spec

\* Values are joined as they came: a barrier releases whole sets, no item
\* twice, and a logic gate combines values of one turn only.
THEOREM SetsWhole == Spec => []SetsAreWhole
<1>1. JoinInv => ReleasedOnce
  BY DEF JoinInv, BarrierInv, ReleasedOnce, Before
<1>2. JoinInv => FullSetIsReleased
  <2> SUFFICES ASSUME JoinInv, node.type = "barrier", node.opt.flush, pc = "loop",
                      pass = turn, turn # <<>>, ToSet(turn) \subseteq DOMAIN mem.pending,
                      ~(cuts > 0)
               PROVE  FALSE
    BY DEF FullSetIsReleased
  <2>1. cuts = 0
    BY DEF JoinInv, SetOut
  <2> QED
    BY <2>1, SeenIsNot DEF JoinInv, SetOut
<1>3. JoinInv => OneTurnPerResult
  BY DEF JoinInv, GateInv, Result, OneTurnPerResult, LogicNames
<1>4. JoinInv => SetsAreWhole
  BY <1>1, <1>2, <1>3 DEF SetsAreWhole
<1> QED
  BY <1>4, JoinAlways, PTL

-----------------------------------------------------------------------------
(* What nodes leave running outside.                                       *)

\* Where the tasks of the types that leave something behind may wait.
Waits ==
  CASE node.type \in Commands        -> {"none", "loop", "run", "ended"}
    [] node.type \in Mqtt            -> {"none", "loop", "connect", "failed"}
    [] node.type = "socket_server"   -> {"none", "loop", "send", "ended"}
    [] node.type = "socket_input"    -> {"none", "loop", "serve"}
    [] OTHER                         -> {"none", "loop"}

Keepers == Commands \cup Mqtt \cup {"socket_server", "socket_input", "subgraph"}

\* Before its first init() a node has nothing, and no task.
NotYet == starts = 0 /\ mem = <<>> /\ out = <<>> /\ life = "stopped" /\ pc = "none"

\* Steps that touch nothing a node keeps.
Idle == UNCHANGED <<node, lifeVars, pc, local, mem, out>>

\* What a step of one of these types is.
KeeperStep ==
  \/ Idle
  \/ Start(DeviceMem, DeviceLocal)
  \/ Resume(DeviceLocal)
  \/ \E next \in {"paused", "stopped"} : DeviceCut(next)
  \/ \E k \in {1, 2} : Rekey(k)
  \/ DeviceStep
  \/ mem # <<>> /\ OutsideStep

LEMMA KeeperNode ==
  ASSUME node \in AllTypes, node.type \in Keepers
  PROVE  /\ node \in DeviceTypes
         /\ node.type \in DeviceNames
         /\ node \notin StreamTypes \cup BufferTypes \cup SourceTypes \cup WebTypes
         /\ node.type \notin StreamNames \cup BufferNames \cup SourceNames \cup OutputNames
                             \cup InputNames
<1>1. /\ node.type \in DeviceNames
      /\ node.type \notin StreamNames \cup BufferNames \cup SourceNames \cup OutputNames
                          \cup InputNames
  BY DEF Keepers, Commands, CommandInputs, Mqtt, DeviceNames, StreamNames, BufferNames,
         LogicNames, SourceNames, OutputNames, InputNames
<1> QED
  BY <1>1, Families

LEMMA KeeperNext ==
  ASSUME node \in AllTypes, node.type \in Keepers, pc \notin {"read", "delay", "trigger"}, [Next]_vars
  PROVE  KeeperStep \/ (node.type = "mqtt_output" /\ Retry(DeviceMem, DeviceLocal))
<1>1. /\ node \in DeviceTypes
      /\ node \notin StreamTypes \cup BufferTypes \cup SourceTypes \cup WebTypes
      /\ node.type \notin StreamNames \cup BufferNames \cup SourceNames \cup OutputNames
                          \cup InputNames
  BY KeeperNode
<1>2. CASE UNCHANGED vars
  BY <1>2 DEF vars, loopVars, dataVars, KeeperStep, Idle
<1>3. CASE Others
  <2>1. ASSUME NEW p, NEW ok, Wire(p) \/ Send(p, ok) PROVE Idle
    BY <2>1 DEF Wire, Send, loopVars, dataVars, Idle
  <2>2. OutsideStep => mem # <<>>
    BY DEF OutsideStep
  <2> QED
    BY <1>1, <1>3, <2>1, <2>2 DEF Others, KeeperStep
<1>4. CASE Control
  <2>1. FreshMem = DeviceMem /\ FreshLocal = DeviceLocal
    BY <1>1 DEF FreshMem, FreshLocal
  <2>2. node.type # "round_robin" /\ node.type # "gate"
    BY <1>1 DEF StreamNames, BufferNames
  <2>3. ASSUME NEW next, Cut(next) PROVE DeviceCut(next)
    BY <1>1, <2>2, <2>3 DEF Cut
  <2>4. node.type \in Raising => node.type = "mqtt_output"
    BY <1>1 DEF Raising, SourceNames
  <2> QED
    BY <1>1, <1>4, <2>1, <2>2, <2>3, <2>4 DEF Control, KeeperStep
<1>5. CASE Process
  <2>1. Wake => Idle
    BY DEF Wake, dataVars, Idle
  <2> QED
    BY <1>1, <1>5, <2>1, OnlySources, OnlyBuffers, OnlyPlain DEF Process, KeeperStep
<1> QED
  BY <1>2, <1>3, <1>4, <1>5 DEF Next

\* The steps of each type.
LEMMA KeeperSteps ==
  ASSUME node.type \in Keepers, pc \in Waits, DeviceStep
  PROVE  /\ node.type \in Commands =>
              \/ ProcessInput \/ ShellInput \/ ScriptInput \/ ProcessOutput
              \/ CommandDone \/ CommandTimesOut
         /\ node.type \in Mqtt => MqttConnects \/ MqttRekeys \/ MqttConnected \/ MqttPublish
         /\ node.type = "socket_server" =>
              \/ SocketBind \/ SocketServe \/ SocketSent
              \/ \E c \in Connections : SocketWrites(c)
         /\ node.type = "socket_input" => Listens
         /\ node.type = "subgraph" => SubgraphBegins \/ SubgraphPumps \/ SubgraphEmits
<1>1. pc \notin {"await", "asked", "get"}
  BY DEF Waits
<1>2. ProcessInput \/ ShellInput \/ ScriptInput \/ ProcessOutput \/ CommandDone
      \/ CommandTimesOut => node.type \in Commands
  BY DEF ProcessInput, ShellInput, ScriptInput, ProcessOutput, CommandDone, CommandTimesOut,
         RunOnce, Turn, Each, Commands, CommandInputs
<1>3. MqttConnects \/ MqttRekeys \/ MqttConnected \/ MqttPublish => node.type \in Mqtt
  BY DEF MqttConnects, MqttRekeys, MqttConnected, MqttPublish, Mqtt
<1>4. SocketBind \/ SocketServe \/ SocketSent \/ (\E c \in Connections : SocketWrites(c))
        => node.type = "socket_server"
  BY DEF SocketBind, SocketServe, SocketSent, SocketWrites, GoOn
<1>5. Listens => node.type = "socket_input"
  BY DEF Listens, GoOn
<1>6. SubgraphBegins \/ SubgraphPumps \/ SubgraphEmits => node.type = "subgraph"
  BY DEF SubgraphBegins, SubgraphPumps, SubgraphEmits
<1>7. ~(PythonInput \/ HttpPost \/ LMStudio \/ SocketOut \/ McpConnects \/ McpClient)
  BY DEF PythonInput, Turn, HttpPost, LMStudio, SocketOut, Asks, Each, McpConnects, McpClient,
         Keepers, Commands, CommandInputs, Mqtt
<1>8. ~(Answer \/ UserPrompt \/ LogApplies \/ LogGets)
  BY <1>1 DEF Answer, UserPrompt, LogApplies, LogGets, Turn, GoOn, Keepers, Commands,
              CommandInputs, Mqtt
<1>9. /\ node.type \in Commands =>
           node.type \notin Mqtt \cup {"socket_server", "socket_input", "subgraph"}
      /\ node.type \in Mqtt => node.type \notin {"socket_server", "socket_input", "subgraph"}
  BY DEF Commands, CommandInputs, Mqtt
<1> QED
  BY <1>2, <1>3, <1>4, <1>5, <1>6, <1>7, <1>8, <1>9, Zenon DEF DeviceStep

LEMMA OutsideSteps ==
  ASSUME node.type \in Keepers, OutsideStep
  PROVE  /\ node.type \in Commands => CommandForks \/ CommandExits
         /\ node.type \in Mqtt => \E c \in mem.clients : MqttMessage(c)
         /\ node.type = "socket_server" =>
              \E c \in Connections : ClientJoins(c) \/ ClientLeaves(c)
         /\ node.type = "socket_input" =>
              PeerJoins \/ \E c \in mem.peers : PeerSends(c) \/ PeerLeaves(c)
         /\ node.type = "subgraph" => InnerStarts \/ InnerTakes \/ InnerGives
BY DEF OutsideStep, Keepers, Commands, CommandInputs, Mqtt

\* What init() sets, and what a task that is cut leaves, by type.
LEMMA OfType ==
  ASSUME node.type \in Keepers
  PROVE  /\ node.type \in Commands =>
              /\ Waits = {"none", "loop", "run", "ended"}
              /\ DeviceMem = [procs |-> {}, killed |-> FALSE]
              /\ DeviceLocal = <<>>
              /\ \A next : CutMem(next) \in {mem, KillTree(mem)}
         /\ node.type \in Mqtt =>
              /\ Waits = {"none", "loop", "connect", "failed"}
              /\ DeviceMem =
                   [clients |-> IF mem = <<>> THEN {} ELSE mem.clients, current |-> 0, key |-> 1,
                    made |-> IF mem = <<>> THEN 0 ELSE mem.made]
              /\ DeviceLocal = [key |-> 0, old |-> 0]
              /\ \A next :
                   CutMem(next) \in {mem, [mem EXCEPT !.clients = @ \ {mem.current}]}
         /\ node.type = "socket_server" => Waits = {"none", "loop", "send", "ended"}
         /\ node.type = "socket_input" =>
              /\ Waits = {"none", "loop", "serve"}
              /\ DeviceMem =
                   [server |-> FALSE, peers |-> IF mem = <<>> THEN {} ELSE mem.peers,
                    joined |-> IF mem = <<>> THEN 0 ELSE mem.joined]
              /\ \A next : CutMem(next) = [mem EXCEPT !.server = FALSE]
         /\ node.type = "subgraph" =>
              /\ Waits = {"none", "loop"}
              /\ DeviceMem =
                   [inner |-> "none", bin |-> <<>>, held |-> <<>>, bout |-> <<>>,
                    orphans |-> IF mem = <<>> THEN 0
                                ELSE mem.orphans + (IF mem.inner = "running" THEN 1 ELSE 0)]
              /\ \A next : CutMem(next) \in {mem, [mem EXCEPT !.inner = "none"]}
         /\ node' = node => Waits' = Waits
<1>1. node' = node => Waits' = Waits
  BY DEF Waits
<1>2. ASSUME node.type \in Commands
      PROVE  /\ Waits = {"none", "loop", "run", "ended"}
             /\ DeviceMem = [procs |-> {}, killed |-> FALSE]
             /\ DeviceLocal = <<>>
             /\ \A next : CutMem(next) \in {mem, KillTree(mem)}
  <2>1. node.type \notin {"mcp_client", "socket_server", "socket_input", "log_input", "subgraph"} \cup Mqtt
    BY <1>2 DEF Commands, CommandInputs, Mqtt
  <2>2. Waits = {"none", "loop", "run", "ended"}
    BY <1>2, <2>1 DEF Waits
  <2>3. DeviceMem = [procs |-> {}, killed |-> FALSE] /\ DeviceLocal = <<>>
    BY <1>2, <2>1, Zenon DEF DeviceMem, DeviceLocal
  <2>4. ASSUME NEW next PROVE CutMem(next) \in {mem, KillTree(mem)}
    BY <1>2, <2>1 DEF CutMem
  <2> QED
    BY <2>2, <2>3, <2>4
<1>3. ASSUME node.type \in Mqtt
      PROVE  /\ Waits = {"none", "loop", "connect", "failed"}
             /\ DeviceMem =
                  [clients |-> IF mem = <<>> THEN {} ELSE mem.clients, current |-> 0, key |-> 1,
                   made |-> IF mem = <<>> THEN 0 ELSE mem.made]
             /\ DeviceLocal = [key |-> 0, old |-> 0]
             /\ \A next : CutMem(next) \in {mem, [mem EXCEPT !.clients = @ \ {mem.current}]}
  <2>1. node.type \notin {"mcp_client", "socket_server", "socket_input", "log_input", "subgraph"} \cup Commands
    BY <1>3 DEF Commands, CommandInputs, Mqtt
  <2>2. Waits = {"none", "loop", "connect", "failed"}
    BY <1>3, <2>1 DEF Waits
  <2>3. /\ DeviceMem =
             [clients |-> IF mem = <<>> THEN {} ELSE mem.clients, current |-> 0, key |-> 1,
              made |-> IF mem = <<>> THEN 0 ELSE mem.made]
        /\ DeviceLocal = [key |-> 0, old |-> 0]
    BY <1>3, <2>1, Zenon DEF DeviceMem, DeviceLocal
  <2>4. ASSUME NEW next
        PROVE  CutMem(next) \in {mem, [mem EXCEPT !.clients = @ \ {mem.current}]}
    BY <1>3, <2>1 DEF CutMem
  <2> QED
    BY <2>2, <2>3, <2>4
<1>4. ASSUME node.type \in {"socket_server", "socket_input", "subgraph"}
      PROVE  /\ node.type \notin Commands \cup Mqtt \cup {"mcp_client", "log_input"}
             /\ node.type = "socket_server" => Waits = {"none", "loop", "send", "ended"}
             /\ node.type = "socket_input" => Waits = {"none", "loop", "serve"}
             /\ node.type = "subgraph" => Waits = {"none", "loop"}
  <2>1. node.type \notin Commands \cup Mqtt \cup {"mcp_client", "log_input"}
    BY <1>4 DEF Commands, CommandInputs, Mqtt
  <2> QED
    BY <2>1 DEF Waits
<1>5. ASSUME node.type = "socket_input"
      PROVE  /\ DeviceMem =
                  [server |-> FALSE, peers |-> IF mem = <<>> THEN {} ELSE mem.peers,
                   joined |-> IF mem = <<>> THEN 0 ELSE mem.joined]
             /\ \A next : CutMem(next) = [mem EXCEPT !.server = FALSE]
  <2>1. node.type \notin Commands \cup Mqtt \cup {"mcp_client", "log_input", "socket_server", "subgraph"}
    BY <1>4, <1>5
  <2>2. \A next : CutMem(next) = [mem EXCEPT !.server = FALSE]
    BY <1>5, <2>1 DEF CutMem
  <2> QED
    BY <1>5, <2>1, <2>2, Zenon DEF DeviceMem
<1>6. ASSUME node.type = "subgraph"
      PROVE  /\ DeviceMem =
                  [inner |-> "none", bin |-> <<>>, held |-> <<>>, bout |-> <<>>,
                   orphans |-> IF mem = <<>> THEN 0
                               ELSE mem.orphans + (IF mem.inner = "running" THEN 1 ELSE 0)]
             /\ \A next : CutMem(next) \in {mem, [mem EXCEPT !.inner = "none"]}
  <2>1. node.type \notin Commands \cup Mqtt \cup {"mcp_client", "log_input", "socket_server", "socket_input"}
    BY <1>4, <1>6
  <2>2. \A next : CutMem(next) \in {mem, [mem EXCEPT !.inner = "none"]}
    BY <1>6, <2>1 DEF CutMem
  <2> QED
    BY <1>6, <2>1, <2>2, Zenon DEF DeviceMem
<1> QED
  BY <1>1, <1>2, <1>3, <1>4, <1>5, <1>6

-----------------------------------------------------------------------------
(* The processes of commands.                                              *)

CommandsInv ==
  node.type \in Commands =>
    /\ pc \in Waits
    /\ starts \in Nat
    /\ IF starts = 0 THEN NotYet
       ELSE /\ mem \in [procs : SUBSET {"leader", "helper"}, killed : BOOLEAN]
            /\ mem.killed => mem.procs = {}

LEMMA CommandsStep ==
  ASSUME node \in AllTypes, node' = node, CommandsInv, [Next]_vars
  PROVE  CommandsInv'
<1> SUFFICES ASSUME node.type \in Commands PROVE CommandsInv'
  BY DEF CommandsInv
<1> DEFINE Typed(m) == m \in [procs : SUBSET {"leader", "helper"}, killed : BOOLEAN]
           Good(m) == Typed(m) /\ (m.killed => m.procs = {})
<1>0. node.type \in Keepers
  BY DEF Keepers
<1>1. /\ pc \in {"none", "loop", "run", "ended"} /\ Waits = {"none", "loop", "run", "ended"}
      /\ Waits' = Waits /\ starts \in Nat
  BY <1>0, OfType DEF CommandsInv
<1>2. KeeperStep
  BY <1>0, <1>1, KeeperNext DEF Commands, CommandInputs
<1>3. starts # 0 => Good(mem)
  BY DEF CommandsInv
<1>4. ASSUME pc' \in Waits, starts' \in Nat \ {0}, Good(mem') PROVE CommandsInv'
  BY <1>1, <1>4 DEF CommandsInv
<1>5. CASE Idle
  BY <1>1, <1>5 DEF Idle, lifeVars, CommandsInv, NotYet
<1>6. CASE Start(DeviceMem, DeviceLocal)
  <2>1. Good(DeviceMem)
    <3>1. DeviceMem = [procs |-> {}, killed |-> FALSE]
      BY <1>0, OfType
    <3> QED
      BY <3>1
  <2> QED
    BY <1>1, <1>4, <1>6, <2>1 DEF Start, Enter
<1>7. starts = 0 => NotYet
  BY DEF CommandsInv
<1>8. CASE Resume(DeviceLocal)
  BY <1>1, <1>3, <1>4, <1>7, <1>8 DEF Resume, Enter, dataVars, NotYet
<1>9. Good(mem) => Good(KillTree(mem)) /\ Good(Launched(mem))
  BY DEF KillTree, Launched
<1>10. CASE \E next \in {"paused", "stopped"} : DeviceCut(next)
  <2>1. Good(mem) => \A next : Good(CutMem(next))
    BY <1>0, <1>9, OfType
  <2> QED
    BY <1>1, <1>3, <1>4, <1>7, <1>10, <2>1 DEF DeviceCut, Cancel, Leave, NotYet
<1>11. ~\E k \in {1, 2} : Rekey(k)
  BY DEF Rekey, Commands, CommandInputs, Mqtt
<1>12. CASE DeviceStep
  <2>1. ProcessInput \/ ShellInput \/ ScriptInput \/ ProcessOutput \/ CommandDone \/ CommandTimesOut
    BY <1>0, <1>1, <1>12, KeeperSteps
  <2>2. ASSUME starts' = starts, pc # "none", pc' \in Waits,
               mem' \in {mem, KillTree(mem), Launched(mem)}
        PROVE  CommandsInv'
    <3>1. starts # 0 /\ starts' \in Nat \ {0}
      BY <1>1, <1>7, <2>2 DEF NotYet
    <3>2. Good(mem')
      BY <1>3, <1>9, <2>2, <3>1, Zenon
    <3> QED
      BY <1>4, <2>2, <3>1, <3>2
  <2>3. ASSUME NEW type, RunOnce(type) PROVE CommandsInv'
    BY <1>1, <2>2, <2>3 DEF RunOnce, Turn, Becomes, Self, Give, NextRun, lifeVars
  <2>4. ASSUME ProcessOutput PROVE CommandsInv'
    BY <1>1, <2>2, <2>4 DEF ProcessOutput, Each, Poll, Becomes, Self, Give, lifeVars
  <2>5. ASSUME NEW form, NEW m \in {mem, KillTree(mem)}, Reports(form, m), pc = "run"
        PROVE  CommandsInv'
    BY <1>1, <2>2, <2>5
       DEF Reports, Again, Enter, GoOn, Becomes, Self, lifeVars
  <2> QED
    BY <2>1, <2>3, <2>4, <2>5 DEF ProcessInput, ShellInput, ScriptInput, CommandDone, CommandTimesOut
<1>13. CASE mem # <<>> /\ OutsideStep
  <2>1. Good(mem) /\ starts # 0
    BY <1>3, <1>7, <1>13 DEF NotYet
  <2>2. ASSUME NEW t, NEW m, Good(m), Outside(t, m, out) PROVE CommandsInv'
    BY <1>1, <1>4, <2>1, <2>2 DEF Outside, lifeVars, loopVars
  <2>3. ASSUME CommandForks PROVE CommandsInv'
    <3>1. Good([mem EXCEPT !.procs = @ \cup {"helper"}])
      BY <2>1, <2>3 DEF CommandForks
    <3> QED
      BY <2>2, <2>3, <3>1 DEF CommandForks
  <2>4. ASSUME CommandExits PROVE CommandsInv'
    <3>1. \A x : Good([mem EXCEPT !.procs = @ \ {x}])
      BY <2>1
    <3> QED
      BY <2>2, <2>4, <3>1 DEF CommandExits
  <2> QED
    BY <1>0, <1>13, <2>3, <2>4, OutsideSteps
<1> QED
  BY <1>2, <1>5, <1>6, <1>8, <1>10, <1>11, <1>12, <1>13, Zenon DEF KeeperStep

-----------------------------------------------------------------------------
(* The inner graphs of a subgraph.                                         *)

SubgraphInv ==
  node.type = "subgraph" =>
    /\ pc \in Waits
    /\ starts \in Nat
    /\ IF starts = 0 THEN NotYet
       ELSE /\ DOMAIN mem = {"inner", "bin", "held", "bout", "orphans"}
            /\ mem.orphans \in Nat
            /\ mem.orphans + 1 <= starts

LEMMA SubgraphStep ==
  ASSUME node \in AllTypes, node' = node, SubgraphInv, [Next]_vars
  PROVE  SubgraphInv'
<1> SUFFICES ASSUME node.type = "subgraph" PROVE SubgraphInv'
  BY DEF SubgraphInv
<1> DEFINE Typed(m) == /\ DOMAIN m = {"inner", "bin", "held", "bout", "orphans"}
                       /\ m.orphans \in Nat
<1>0. node.type \in Keepers
  BY DEF Keepers
<1>1. /\ pc \in {"none", "loop"} /\ Waits = {"none", "loop"} /\ Waits' = Waits
      /\ starts \in Nat
  BY <1>0, OfType DEF SubgraphInv
<1>2. KeeperStep
  BY <1>0, <1>1, KeeperNext
<1>3. /\ starts # 0 => Typed(mem) /\ mem.orphans + 1 <= starts
      /\ starts = 0 => NotYet
  BY DEF SubgraphInv
<1>4. ASSUME pc' \in Waits, starts' \in Nat \ {0}, Typed(mem'), mem'.orphans + 1 <= starts'
      PROVE  SubgraphInv'
  BY <1>1, <1>4 DEF SubgraphInv
<1>5. CASE Idle
  BY <1>1, <1>5 DEF Idle, lifeVars, SubgraphInv, NotYet
<1>6. CASE Start(DeviceMem, DeviceLocal)
  <2>1. /\ mem' = [inner |-> "none", bin |-> <<>>, held |-> <<>>, bout |-> <<>>,
                   orphans |-> IF mem = <<>> THEN 0
                               ELSE mem.orphans + (IF mem.inner = "running" THEN 1 ELSE 0)]
        /\ pc' = "loop" /\ starts' = starts + 1
    BY <1>0, <1>6, OfType DEF Start, Enter
  <2>2. Typed(mem') /\ mem'.orphans <= starts
    BY <1>1, <1>3, <2>1 DEF NotYet
  <2> QED
    BY <1>1, <1>4, <2>1, <2>2
<1>7. CASE Resume(DeviceLocal)
  BY <1>1, <1>3, <1>4, <1>7 DEF Resume, Enter, dataVars, NotYet
<1>8. CASE \E next \in {"paused", "stopped"} : DeviceCut(next)
  <2>1. Typed(mem) => \A next : Typed(CutMem(next)) /\ CutMem(next).orphans = mem.orphans
    BY <1>0, OfType
  <2> QED
    BY <1>1, <1>3, <1>4, <1>8, <2>1 DEF DeviceCut, Cancel, Leave, NotYet
<1>9. ~\E k \in {1, 2} : Rekey(k)
  BY DEF Rekey, Mqtt
<1>10. CASE DeviceStep
  <2>1. SubgraphBegins \/ SubgraphPumps \/ SubgraphEmits
    BY <1>0, <1>1, <1>10, KeeperSteps
  <2>2. starts # 0 /\ Typed(mem) /\ mem.orphans + 1 <= starts
    BY <1>3, <2>1 DEF SubgraphBegins, SubgraphPumps, Each, Poll, SubgraphEmits, Turn, NotYet
  <2>3. ASSUME pc' = "loop", UNCHANGED lifeVars, DOMAIN mem' = DOMAIN mem,
               mem'.orphans = mem.orphans
        PROVE  SubgraphInv'
    BY <1>1, <1>4, <2>2, <2>3 DEF lifeVars
  <2>4. CASE SubgraphBegins
    BY <2>2, <2>3, <2>4 DEF SubgraphBegins, GoOn, Becomes, Self
  <2>5. CASE SubgraphPumps
    BY <2>2, <2>3, <2>5 DEF SubgraphPumps, Each, Poll, Becomes, Self
  <2>6. CASE SubgraphEmits
    BY <2>2, <2>3, <2>6 DEF SubgraphEmits, Turn, Becomes, Give, Self
  <2> QED
    BY <2>1, <2>4, <2>5, <2>6
<1>11. CASE mem # <<>> /\ OutsideStep
  <2>1. starts # 0 /\ Typed(mem) /\ mem.orphans + 1 <= starts
    BY <1>3, <1>11 DEF NotYet
  <2>2. ASSUME NEW t, NEW m, NEW o, Typed(m), m.orphans = mem.orphans, Outside(t, m, o)
        PROVE  SubgraphInv'
    BY <1>1, <1>4, <2>1, <2>2 DEF Outside, lifeVars, loopVars
  <2>3. CASE InnerStarts
    BY <2>1, <2>2, <2>3 DEF InnerStarts
  <2>4. CASE InnerTakes
    BY <2>1, <2>2, <2>4 DEF InnerTakes
  <2>5. CASE InnerGives
    BY <2>1, <2>2, <2>5 DEF InnerGives
  <2> QED
    BY <1>0, <1>11, <2>3, <2>4, <2>5, OutsideSteps
<1> QED
  BY <1>2, <1>5, <1>6, <1>7, <1>8, <1>9, <1>10, <1>11, Zenon DEF KeeperStep

-----------------------------------------------------------------------------
(* A socket server that lost its port.                                     *)

ServerInv ==
  node.type = "socket_server" =>
    /\ pc \in Waits
    /\ IsSeq(out)
    /\ pc = "ended" => out # <<>> /\ Last(out).form = "error"

LEMMA LastAppended ==
  ASSUME NEW s, IsSeq(s), NEW e
  PROVE  Append(s, e) # <<>> /\ Last(Append(s, e)) = e
<1>1. Len(Append(s, e)) \in Nat \ {0} /\ Append(s, e)[Len(Append(s, e))] = e
  BY AppendSeq
<1>2. Len(<<>>) = 0
  OBVIOUS
<1> QED
  BY <1>1, <1>2 DEF Last

LEMMA ServerStep ==
  ASSUME node \in AllTypes, node' = node, ServerInv, [Next]_vars
  PROVE  ServerInv'
<1> SUFFICES ASSUME node.type = "socket_server" PROVE ServerInv'
  BY DEF ServerInv
<1>0. node.type \in Keepers
  BY DEF Keepers
<1>1. /\ pc \in {"none", "loop", "send", "ended"} /\ Waits = {"none", "loop", "send", "ended"}
      /\ Waits' = Waits /\ IsSeq(out)
  BY <1>0, OfType DEF ServerInv
<1>2. KeeperStep
  BY <1>0, <1>1, KeeperNext
<1>3. ASSUME UNCHANGED <<pc, out>> PROVE ServerInv'
  BY <1>1, <1>3 DEF ServerInv, IsSeq
<1>4. ASSUME pc' \in {"none", "loop", "send"}, UNCHANGED out PROVE ServerInv'
  BY <1>1, <1>4 DEF ServerInv, IsSeq
<1>5. ASSUME NEW e, out' = Append(out, e), pc' \in Waits, pc' = "ended" => e.form = "error"
      PROVE  ServerInv'
  <2>1. IsSeq(out')
    BY <1>1, <1>5, AppendSeq
  <2> QED
    BY <1>1, <1>5, <2>1, LastAppended DEF ServerInv
<1>6. CASE Idle
  BY <1>3, <1>6 DEF Idle
<1>7. CASE Start(DeviceMem, DeviceLocal) \/ Resume(DeviceLocal)
  BY <1>4, <1>7 DEF Start, Resume, Enter, dataVars
<1>8. CASE \E next \in {"paused", "stopped"} : DeviceCut(next)
  BY <1>4, <1>8 DEF DeviceCut, Cancel, Leave
<1>9. CASE \E k \in {1, 2} : Rekey(k)
  BY <1>3, <1>9 DEF Rekey, SetAttribute, loopVars
<1>10. CASE DeviceStep
  <2>1. CASE SocketBind
    <3>1. PICK free \in BOOLEAN :
            GoOn("socket_server",
              IF free /\ ~mem.server THEN [Self EXCEPT !.mem.server = TRUE, !.local = Bound]
              ELSE [Give(Self, 0, <<"out">>, "error") EXCEPT !.pc = "ended"])
      BY <2>1 DEF SocketBind
    <3>2. CASE free /\ ~mem.server
      BY <1>3, <3>1, <3>2 DEF GoOn, Becomes, Self
    <3>3. CASE ~(free /\ ~mem.server)
      <4>1. out' = Append(out, Emission(0, <<"out">>, "error")) /\ pc' = "ended"
        BY <3>1, <3>3 DEF GoOn, Becomes, Self, Give
      <4> QED
        BY <1>1, <1>5, <4>1 DEF Emission
    <3> QED
      BY <3>2, <3>3
  <2>2. CASE SocketServe
    BY <1>4, <2>2 DEF SocketServe, Each, Poll, Becomes, Self
  <2>3. CASE SocketSent
    BY <1>1, <1>5, <2>3 DEF SocketSent, Again, Enter
  <2>4. CASE \E c \in Connections : SocketWrites(c)
    BY <1>3, <2>4 DEF SocketWrites, GoOn, Becomes, Self
  <2> QED
    BY <1>0, <1>1, <1>10, <2>1, <2>2, <2>3, <2>4, KeeperSteps
<1>11. CASE mem # <<>> /\ OutsideStep
  <2>1. ASSUME NEW c, ClientJoins(c) \/ ClientLeaves(c) PROVE ServerInv'
    BY <1>3, <2>1 DEF ClientJoins, ClientLeaves, Outside, loopVars
  <2> QED
    BY <1>0, <1>11, <2>1, OutsideSteps
<1> QED
  BY <1>2, <1>6, <1>7, <1>8, <1>9, <1>10, <1>11, Zenon DEF KeeperStep

-----------------------------------------------------------------------------
(* The connections of a SocketInputNode.                                   *)

PeersInv ==
  node.type = "socket_input" =>
    /\ pc \in Waits
    /\ IsSeq(out)
    /\ starts \in Nat
    /\ IF starts = 0 THEN NotYet
       ELSE /\ mem \in [server : BOOLEAN, peers : SUBSET Nat, joined : Nat]
            /\ mem.peers \subseteq 1..mem.joined
            /\ \A k \in DOMAIN out :
                 /\ out[k].item \in 1..mem.joined
                 /\ out[k].form = "late" => out[k].item \notin mem.peers
    /\ \A j, k \in DOMAIN out : j < k /\ out[j].form = "late" => out[j].item # out[k].item

LEMMA PeersStep ==
  ASSUME node \in AllTypes, node' = node, PeersInv, [Next]_vars
  PROVE  PeersInv'
<1> SUFFICES ASSUME node.type = "socket_input" PROVE PeersInv'
  BY DEF PeersInv
<1> DEFINE Typed(m) == m \in [server : BOOLEAN, peers : SUBSET Nat, joined : Nat]
           Known(m) == /\ m.peers \subseteq 1..m.joined
                       /\ \A k \in DOMAIN out :
                            /\ out[k].item \in 1..m.joined
                            /\ out[k].form = "late" => out[k].item \notin m.peers
<1>0. node.type \in Keepers
  BY DEF Keepers
<1>1. /\ pc \in {"none", "loop", "serve"} /\ Waits = {"none", "loop", "serve"}
      /\ Waits' = Waits /\ IsSeq(out) /\ starts \in Nat
      /\ \A j, k \in DOMAIN out : j < k /\ out[j].form = "late" => out[j].item # out[k].item
  BY <1>0, OfType DEF PeersInv
<1>2. KeeperStep
  BY <1>0, <1>1, KeeperNext
<1>3. /\ starts # 0 => Typed(mem) /\ Known(mem)
      /\ starts = 0 => NotYet
  BY DEF PeersInv
<1>4. ASSUME pc' \in Waits, starts' \in Nat \ {0}, out' = out, Typed(mem'), Known(mem')
      PROVE  PeersInv'
  BY <1>1, <1>4 DEF PeersInv, IsSeq
<1>5. CASE Idle
  BY <1>1, <1>5 DEF Idle, lifeVars, PeersInv, NotYet, IsSeq
<1>6. CASE Start(DeviceMem, DeviceLocal)
  <2>1. /\ mem' = [server |-> FALSE, peers |-> IF mem = <<>> THEN {} ELSE mem.peers,
                   joined |-> IF mem = <<>> THEN 0 ELSE mem.joined]
        /\ pc' = "loop" /\ starts' = starts + 1 /\ out' = out
    BY <1>0, <1>6, OfType DEF Start, Enter
  <2>2. CASE starts = 0
    <3>1. mem = <<>> /\ DOMAIN out = {}
      BY <1>3, <2>2 DEF NotYet
    <3>2. Typed(mem') /\ Known(mem')
      BY <2>1, <3>1
    <3> QED
      BY <1>1, <1>4, <2>1, <3>2
  <2>3. CASE starts # 0
    <3>1. mem # <<>>
      <4>1. DOMAIN mem = {"server", "peers", "joined"}
        BY <1>3, <2>3
      <4> QED
        BY <4>1
    <3>2. Typed(mem') /\ Known(mem')
      BY <1>3, <2>1, <2>3, <3>1
    <3> QED
      BY <1>1, <1>4, <2>1, <3>2
  <2> QED
    BY <2>2, <2>3
<1>7. CASE Resume(DeviceLocal)
  BY <1>1, <1>3, <1>4, <1>7 DEF Resume, Enter, dataVars, NotYet
<1>8. ASSUME NEW b \in BOOLEAN, Typed(mem), Known(mem)
      PROVE  Typed([mem EXCEPT !.server = b]) /\ Known([mem EXCEPT !.server = b])
  BY <1>8
<1>9. CASE \E next \in {"paused", "stopped"} : DeviceCut(next)
  <2>1. mem' = [mem EXCEPT !.server = FALSE] /\ out' = out
    BY <1>0, <1>9, OfType DEF DeviceCut
  <2>2. starts # 0 /\ starts' = starts /\ pc' = "none"
    BY <1>3, <1>9 DEF DeviceCut, Cancel, Leave, NotYet
  <2> QED
    BY <1>1, <1>3, <1>4, <1>8, <2>1, <2>2
<1>10. ~\E k \in {1, 2} : Rekey(k)
  BY DEF Rekey, Mqtt
<1>11. CASE DeviceStep
  <2>1. Listens
    BY <1>0, <1>1, <1>11, KeeperSteps
  <2>2. /\ starts # 0 /\ starts' = starts /\ out' = out /\ pc' = "serve"
        /\ mem' = [mem EXCEPT !.server = TRUE]
    BY <1>3, <2>1 DEF Listens, GoOn, Becomes, Self, lifeVars, NotYet
  <2> QED
    BY <1>1, <1>3, <1>4, <1>8, <2>2
<1>12. CASE mem # <<>> /\ OutsideStep
  <2>1. starts # 0 /\ Typed(mem) /\ Known(mem)
    BY <1>3, <1>12 DEF NotYet
  <2>2. CASE PeerJoins
    <3>1. /\ starts' = starts /\ out' = out /\ pc' = pc
          /\ mem' = [mem EXCEPT !.peers = @ \cup {mem.joined + 1}, !.joined = @ + 1]
      BY <2>2 DEF PeerJoins, Outside, lifeVars, loopVars
    <3>2. /\ Typed(mem') /\ mem.joined \in Nat /\ mem'.joined = mem.joined + 1
          /\ mem'.peers = mem.peers \cup {mem.joined + 1}
      <4>1. Typed(mem) /\ mem.joined \in Nat /\ mem.joined + 1 \in Nat /\ mem.peers \subseteq Nat
        BY <2>1
      <4>2. mem.peers \cup {mem.joined + 1} \in SUBSET Nat
        BY <4>1
      <4> QED
        BY <3>1, <4>1, <4>2
    <3>3. mem'.peers \subseteq 1..mem'.joined
      BY <2>1, <3>2
    <3>4. ASSUME NEW k \in DOMAIN out
          PROVE  /\ out[k].item \in 1..mem'.joined
                 /\ out[k].form = "late" => out[k].item \notin mem'.peers
      <4>1. out[k].item \in 1..mem.joined /\ (out[k].form = "late" => out[k].item \notin mem.peers)
        BY <2>1
      <4> QED
        BY <3>2, <4>1
    <3> QED
      BY <1>1, <1>4, <2>1, <3>1, <3>2, <3>3, <3>4
  <2>3. ASSUME NEW c \in mem.peers, PeerLeaves(c) PROVE PeersInv'
    <3>1. /\ starts' = starts /\ out' = out /\ pc' = pc
          /\ mem' = [mem EXCEPT !.peers = @ \ {c}]
      BY <2>3 DEF PeerLeaves, Outside, lifeVars, loopVars
    <3>2. Typed(mem') /\ Known(mem')
      BY <2>1, <3>1
    <3> QED
      BY <1>1, <1>4, <2>1, <3>1, <3>2
  <2>4. ASSUME NEW c \in mem.peers, PeerSends(c) PROVE PeersInv'
    <3> DEFINE e == Emission(c, <<"out">>, Late)
    <3>1. /\ starts' = starts /\ pc' = pc /\ out' = Append(out, e)
          /\ mem' = IF life = "running" THEN mem ELSE [mem EXCEPT !.peers = @ \ {c}]
      BY <2>4 DEF PeerSends, Outside, lifeVars, loopVars
    <3>2. e.item = c /\ (e.form = "late" => life # "running")
      BY DEF Emission, Late
    <3> HIDE DEF e
    <3>3. /\ Typed(mem') /\ mem'.joined = mem.joined /\ mem'.peers \subseteq mem.peers
          /\ e.form = "late" => c \notin mem'.peers
      BY <2>1, <3>1, <3>2
    <3>4. /\ IsSeq(out') /\ DOMAIN out = 1..Len(out) /\ Len(out) \in Nat
          /\ DOMAIN out' = 1..(Len(out) + 1)
          /\ \A k \in 1..Len(out) : out'[k] = out[k]
          /\ out'[Len(out) + 1] = e
      BY <1>1, <3>1, AppendSeq
    <3>5. \A k \in DOMAIN out' : (k \in DOMAIN out /\ out'[k] = out[k]) \/ out'[k] = e
      BY <3>4
    <3>6. \A k \in DOMAIN out' : /\ out'[k].item \in 1..mem'.joined
                                 /\ out'[k].form = "late" => out'[k].item \notin mem'.peers
      BY <2>1, <3>2, <3>3, <3>5
    <3>7. ASSUME NEW j \in DOMAIN out', NEW k \in DOMAIN out', j < k, out'[j].form = "late"
          PROVE  out'[j].item # out'[k].item
      <4>1. j \in DOMAIN out /\ out'[j] = out[j]
        BY <3>4, <3>7
      <4>2. CASE k \in DOMAIN out /\ out'[k] = out[k]
        BY <1>1, <3>7, <4>1, <4>2
      <4>3. CASE out'[k] = e
        BY <2>1, <3>2, <3>7, <4>1, <4>3
      <4> QED
        BY <3>5, <4>2, <4>3
    <3>8. mem'.peers \subseteq 1..mem'.joined
      BY <2>1, <3>3
    <3>9. pc' \in Waits' /\ starts' \in Nat /\ starts' # 0
      BY <1>1, <2>1, <3>1
    <3> QED
      BY <3>3, <3>4, <3>6, <3>7, <3>8, <3>9 DEF PeersInv
  <2> QED
    BY <1>0, <1>12, <2>2, <2>3, <2>4, OutsideSteps
<1> QED
  BY <1>2, <1>5, <1>6, <1>7, <1>9, <1>10, <1>11, <1>12, Zenon DEF KeeperStep

-----------------------------------------------------------------------------
(* The clients of an MQTT node.                                            *)

\* How many clients a task may have by itself.
Spare(p, l) ==
  IF p = "none" \/ (p = "loop" /\ l.key = 0) THEN 0
  ELSE IF p = "connect" /\ l.old # 0 THEN 2 ELSE 1

MqttMem == [clients : SUBSET Nat, current : Nat, key : {1, 2}, made : Nat]

ClientsKept(m, p, l, c) ==
  /\ m \in MqttMem
  /\ IsFiniteSet(m.clients)
  /\ m.clients \subseteq 1..m.made
  /\ Cardinality(m.clients) <= 2 * c + Spare(p, l)
  /\ p \in {"loop", "connect"} => l \in [key : Nat, old : Nat]
  /\ p = "loop" /\ l.key # 0 => m.current \in m.clients
  /\ p = "connect" =>
       /\ m.current \in m.clients
       /\ l.old # 0 => l.old \in m.clients /\ l.old # m.current

MqttInv ==
  node.type \in Mqtt =>
    /\ pc \in Waits
    /\ starts \in Nat /\ cuts \in Nat
    /\ life # "running" => pc = "none"
    /\ IF starts = 0 THEN NotYet ELSE ClientsKept(mem, pc, local, cuts)

\* A client that is made is another one; the one that is replaced goes.
LEMMA ClientAdded ==
  ASSUME NEW m, NEW m2, NEW l, NEW l2, NEW c \in Nat, ClientsKept(m, "loop", l, c), l2 \in [key : Nat, old : Nat],
         l2.old = IF l.key = 0 THEN 0 ELSE m.current,
         m2 = [m EXCEPT !.made = m.made + 1, !.clients = m.clients \cup {m.made + 1},
                        !.current = m.made + 1]
  PROVE  ClientsKept(m2, "connect", l2, c)
<1>1. /\ m2 \in MqttMem /\ m2.made = m.made + 1 /\ m2.clients = m.clients \cup {m.made + 1}
      /\ m2.current = m.made + 1 /\ m.made \in Nat /\ m.current \in Nat
      /\ l \in [key : Nat, old : Nat]
  <2>1. m \in MqttMem /\ l \in [key : Nat, old : Nat] /\ m.clients \subseteq Nat
    BY DEF ClientsKept, MqttMem
  <2>2. m.made \in Nat /\ m.made + 1 \in Nat /\ m.current \in Nat
    BY <2>1 DEF MqttMem
  <2>3. m.clients \cup {m.made + 1} \in SUBSET Nat
    BY <2>1, <2>2
  <2> QED
    BY <2>1, <2>2, <2>3 DEF MqttMem
<1>2. /\ IsFiniteSet(m.clients) /\ m.clients \subseteq 1..m.made
      /\ Cardinality(m.clients) <= 2 * c + Spare("loop", l)
      /\ l.key # 0 => m.current \in m.clients
  BY DEF ClientsKept
<1>3. /\ m.made + 1 \notin m.clients /\ m2.clients \subseteq 1..m2.made
      /\ l.key # 0 => m.current # 0 /\ m.current # m.made + 1
  BY <1>1, <1>2
<1>4. /\ IsFiniteSet(m2.clients) /\ Cardinality(m2.clients) = Cardinality(m.clients) + 1
      /\ Cardinality(m.clients) \in Nat
  BY <1>1, <1>2, <1>3, FS_AddElement, FS_CardinalityType
<1>5. Cardinality(m2.clients) <= 2 * c + Spare("connect", l2)
  <2>1. CASE l.key = 0
    <3>1. Spare("loop", l) = 0 /\ Spare("connect", l2) = 1
      BY <2>1 DEF Spare
    <3> QED
      BY <1>2, <1>4, <3>1
  <2>2. CASE l.key # 0
    <3>1. Spare("loop", l) = 1 /\ Spare("connect", l2) = 2
      BY <1>3, <2>2 DEF Spare
    <3> QED
      BY <1>2, <1>4, <3>1
  <2> QED
    BY <2>1, <2>2
<1> QED
  BY <1>1, <1>2, <1>3, <1>4, <1>5 DEF ClientsKept

LEMMA ClientReplaced ==
  ASSUME NEW m, NEW m2, NEW l, NEW l2, NEW c \in Nat, ClientsKept(m, "connect", l, c),
         m2 = [m EXCEPT !.clients = m.clients \ {l.old}], l2 = [key |-> m.key, old |-> 0]
  PROVE  ClientsKept(m2, "loop", l2, c)
<1>1. /\ m2 \in MqttMem /\ m2.made = m.made /\ m2.clients = m.clients \ {l.old}
      /\ m2.current = m.current /\ l2 \in [key : Nat, old : Nat] /\ l2.key # 0
  BY DEF ClientsKept, MqttMem
<1>2. /\ IsFiniteSet(m.clients) /\ m.clients \subseteq 1..m.made
      /\ Cardinality(m.clients) <= 2 * c + Spare("connect", l)
      /\ m.current \in m.clients
      /\ l.old # 0 => l.old \in m.clients /\ l.old # m.current
  BY DEF ClientsKept
<1>3. Spare("loop", l2) = 1
  BY <1>1 DEF Spare
<1>4. CASE l.old = 0
  <2>1. 0 \notin m.clients /\ Spare("connect", l) = 1
    BY <1>2, <1>4 DEF Spare
  <2>2. m2.clients = m.clients
    BY <1>1, <1>4, <2>1
  <2> QED
    BY <1>1, <1>2, <1>3, <2>1, <2>2 DEF ClientsKept
<1>5. CASE l.old # 0
  <2>1. /\ IsFiniteSet(m2.clients) /\ Cardinality(m2.clients) = Cardinality(m.clients) - 1
        /\ Cardinality(m.clients) \in Nat
    BY <1>1, <1>2, <1>5, FS_RemoveElement, FS_CardinalityType
  <2>2. Spare("connect", l) = 2
    BY <1>5 DEF Spare
  <2>3. Cardinality(m2.clients) <= 2 * c + Spare("loop", l2)
    BY <1>2, <1>3, <2>1, <2>2
  <2> QED
    BY <1>1, <1>2, <1>5, <2>1, <2>3 DEF ClientsKept
<1> QED
  BY <1>4, <1>5

\* A task that is cut leaves two clients at most.
LEMMA ClientsCut ==
  ASSUME NEW m, NEW m2, NEW p, NEW l, NEW l2, NEW c \in Nat, ClientsKept(m, p, l, c),
         m2 \in {m, [m EXCEPT !.clients = m.clients \ {m.current}]}
  PROVE  ClientsKept(m2, "none", l2, c + 1)
<1>1. /\ m2 \in MqttMem /\ m2.made = m.made /\ m2.clients \subseteq m.clients
  BY DEF ClientsKept, MqttMem
<1>2. /\ IsFiniteSet(m.clients) /\ m.clients \subseteq 1..m.made
      /\ Cardinality(m.clients) <= 2 * c + Spare(p, l)
  BY DEF ClientsKept
<1>3. /\ IsFiniteSet(m2.clients) /\ Cardinality(m2.clients) <= Cardinality(m.clients)
      /\ Cardinality(m.clients) \in Nat /\ Cardinality(m2.clients) \in Nat
  BY <1>1, <1>2, FS_Subset, FS_CardinalityType
<1>4. Spare(p, l) \in {0, 1, 2} /\ Spare("none", l2) = 0
  BY DEF Spare
<1>5. Cardinality(m2.clients) <= 2 * (c + 1) + Spare("none", l2)
  BY <1>2, <1>3, <1>4
<1>6. m2.clients \subseteq 1..m2.made
  BY <1>1, <1>2
<1> QED
  BY <1>1, <1>3, <1>5, <1>6 DEF ClientsKept

\* Another task begins without a client of its own.
LEMMA ClientsBegin ==
  ASSUME NEW m, NEW m2, NEW l, NEW c \in Nat, ClientsKept(m, "none", l, c),
         m2 = [clients |-> m.clients, current |-> 0, key |-> 1, made |-> m.made] \/ m2 = m
  PROVE  ClientsKept(m2, "loop", [key |-> 0, old |-> 0], c)
<1>1. m2 \in MqttMem /\ m2.made = m.made /\ m2.clients = m.clients
  BY DEF ClientsKept, MqttMem
<1>2. Spare("none", l) = 0 /\ Spare("loop", [key |-> 0, old |-> 0]) = 0
  BY DEF Spare
<1> QED
  BY <1>1, <1>2 DEF ClientsKept

LEMMA MqttStep ==
  ASSUME node \in AllTypes, node' = node, MqttInv, [Next]_vars
  PROVE  MqttInv'
<1> SUFFICES ASSUME node.type \in Mqtt PROVE MqttInv'
  BY DEF MqttInv
<1>0. node.type \in Keepers
  BY DEF Keepers
<1>1. /\ pc \in {"none", "loop", "connect", "failed"}
      /\ Waits = {"none", "loop", "connect", "failed"} /\ Waits' = Waits
      /\ starts \in Nat /\ cuts \in Nat
  BY <1>0, OfType DEF MqttInv
<1>2. KeeperStep \/ Retry(DeviceMem, DeviceLocal)
  BY <1>0, <1>1, KeeperNext
<1>3. /\ starts # 0 => ClientsKept(mem, pc, local, cuts)
      /\ starts = 0 => NotYet
      /\ life # "running" => pc = "none"
  BY DEF MqttInv
<1>4. ASSUME pc' \in Waits, starts' \in Nat \ {0}, cuts' \in Nat,
             life' = "running" \/ pc' = "none", ClientsKept(mem', pc', local', cuts')
      PROVE  MqttInv'
  BY <1>1, <1>4 DEF MqttInv
<1>5. CASE Idle
  BY <1>1, <1>5 DEF Idle, lifeVars, MqttInv, NotYet, ClientsKept, Spare
<1>6. CASE Start(DeviceMem, DeviceLocal)
  <2>1. /\ mem' = [clients |-> IF mem = <<>> THEN {} ELSE mem.clients, current |-> 0, key |-> 1,
                   made |-> IF mem = <<>> THEN 0 ELSE mem.made]
        /\ pc' = "loop" /\ starts' = starts + 1 /\ cuts' = cuts
        /\ local' = [key |-> 0, old |-> 0] /\ life' = "running"
    BY <1>0, <1>6, OfType DEF Start, Enter
  <2>2. pc = "none"
    BY <1>3, <1>6 DEF Start, NotYet
  <2>3. CASE starts = 0
    <3>1. mem' = [clients |-> {}, current |-> 0, key |-> 1, made |-> 0]
      BY <1>3, <2>1, <2>3 DEF NotYet
    <3>2. ClientsKept(mem', "loop", [key |-> 0, old |-> 0], cuts)
      BY <1>1, <3>1, FS_EmptySet DEF ClientsKept, MqttMem, Spare
    <3> QED
      BY <1>1, <1>4, <2>1, <3>2
  <2>4. CASE starts # 0
    <3>1. mem # <<>>
      <4>1. DOMAIN mem = {"clients", "current", "key", "made"}
        BY <1>3, <2>4 DEF ClientsKept, MqttMem
      <4> QED
        BY <4>1
    <3>2. ClientsKept(mem', "loop", [key |-> 0, old |-> 0], cuts)
      BY <1>1, <1>3, <2>1, <2>2, <2>4, <3>1, ClientsBegin
    <3> QED
      BY <1>1, <1>4, <2>1, <3>2
  <2> QED
    BY <2>3, <2>4
<1>7. CASE Resume(DeviceLocal)
  <2>1. /\ starts # 0 /\ pc = "none" /\ starts' = starts /\ cuts' = cuts /\ mem' = mem
        /\ pc' = "loop" /\ local' = [key |-> 0, old |-> 0] /\ life' = "running"
    BY <1>0, <1>3, <1>7, OfType DEF Resume, Enter, dataVars, NotYet
  <2>2. ClientsKept(mem', "loop", [key |-> 0, old |-> 0], cuts)
    BY <1>1, <1>3, <2>1, ClientsBegin
  <2> QED
    BY <1>1, <1>4, <2>1, <2>2
<1>8. CASE \E next \in {"paused", "stopped"} : DeviceCut(next)
  <2>1. /\ starts # 0 /\ starts' = starts /\ cuts' = cuts + 1 /\ pc' = "none"
        /\ mem' \in {mem, [mem EXCEPT !.clients = @ \ {mem.current}]}
    BY <1>0, <1>3, <1>8, OfType DEF DeviceCut, Cancel, Leave, NotYet
  <2>2. ClientsKept(mem', "none", local', cuts + 1)
    BY <1>1, <1>3, <2>1, ClientsCut
  <2> QED
    BY <1>1, <1>4, <2>1, <2>2
<1>9. CASE \E k \in {1, 2} : Rekey(k)
  <2>1. PICK k \in {1, 2} : mem' = [mem EXCEPT !.key = k]
    BY <1>9 DEF Rekey, SetAttribute
  <2>2. starts # 0 /\ UNCHANGED <<starts, cuts, pc, local, life>>
    BY <1>3, <1>9 DEF Rekey, SetAttribute, loopVars, NotYet
  <2>3. ClientsKept(mem', pc, local, cuts)
    BY <1>3, <2>1, <2>2 DEF ClientsKept, MqttMem
  <2> QED
    BY <1>1, <1>3, <1>4, <2>2, <2>3
<1>10. CASE DeviceStep
  <2>1. /\ MqttConnects \/ MqttRekeys \/ MqttConnected \/ MqttPublish
    BY <1>0, <1>1, <1>10, KeeperSteps
  <2>2. /\ starts # 0 /\ life = "running" /\ ClientsKept(mem, pc, local, cuts)
    BY <1>3, <2>1 DEF MqttConnects, MqttRekeys, MqttConnected, MqttPublish, NotYet
  <2>3. ASSUME UNCHANGED lifeVars, pc' \in Waits, ClientsKept(mem', pc', local', cuts)
        PROVE  MqttInv'
    BY <1>1, <1>4, <2>2, <2>3 DEF lifeVars
  <2>4. CASE MqttConnects
    <3>1. /\ pc = "loop" /\ local.key = 0 /\ pc' = "connect" /\ UNCHANGED lifeVars
          /\ local' = [key |-> mem.key, old |-> 0]
          /\ mem' = [mem EXCEPT !.made = mem.made + 1, !.clients = mem.clients \cup {mem.made + 1},
                                !.current = mem.made + 1]
      BY <2>4 DEF MqttConnects, GoOn, Becomes, NewClient, Self
    <3>2. local' \in [key : Nat, old : Nat] /\ local'.old = 0
      BY <2>2, <3>1 DEF ClientsKept, MqttMem
    <3>3. /\ cuts \in Nat /\ ClientsKept(mem, "loop", local, cuts)
          /\ local'.old = IF local.key = 0 THEN 0 ELSE mem.current
      BY <1>1, <2>2, <3>1, <3>2
    <3>4. ClientsKept(mem', "connect", local', cuts)
      BY <3>1, <3>2, <3>3, ClientAdded, Zenon
    <3> QED
      BY <1>1, <2>3, <3>1, <3>4
  <2>5. CASE MqttRekeys
    <3>1. /\ pc = "loop" /\ local.key # 0 /\ pc' = "connect" /\ UNCHANGED lifeVars
          /\ local' = [local EXCEPT !.old = mem.current]
          /\ mem' = [mem EXCEPT !.made = mem.made + 1, !.clients = mem.clients \cup {mem.made + 1},
                                !.current = mem.made + 1]
      BY <2>5 DEF MqttRekeys, GoOn, Becomes, NewClient, Self
    <3>2. local' \in [key : Nat, old : Nat] /\ local'.old = mem.current
      BY <2>2, <3>1 DEF ClientsKept, MqttMem
    <3>3. /\ cuts \in Nat /\ ClientsKept(mem, "loop", local, cuts)
          /\ local'.old = IF local.key = 0 THEN 0 ELSE mem.current
      BY <1>1, <2>2, <3>1, <3>2
    <3>4. ClientsKept(mem', "connect", local', cuts)
      BY <3>1, <3>2, <3>3, ClientAdded, Zenon
    <3> QED
      BY <1>1, <2>3, <3>1, <3>4
  <2>6. CASE MqttConnected
    <3>1. /\ pc = "connect" /\ pc' = "loop" /\ UNCHANGED lifeVars
          /\ local' = [key |-> mem.key, old |-> 0]
          /\ mem' = [mem EXCEPT !.clients = mem.clients \ {local.old}]
      BY <2>6 DEF MqttConnected, Again, Enter
    <3>2. ClientsKept(mem', "loop", local', cuts)
      BY <1>1, <2>2, <3>1, ClientReplaced
    <3> QED
      BY <1>1, <2>3, <3>1, <3>2
  <2>7. CASE MqttPublish
    <3>1. /\ pc = "loop" /\ local.key # 0 /\ pc' \in {"loop", "failed"} /\ UNCHANGED lifeVars
          /\ local' = local /\ mem' = mem
      BY <2>7 DEF MqttPublish, Each, Poll, Becomes, Give, Self
    <3>2. Spare(pc, local) = 1 /\ Spare(pc', local) = 1
      BY <3>1 DEF Spare
    <3>3. ClientsKept(mem', pc', local', cuts)
      BY <2>2, <3>1, <3>2 DEF ClientsKept
    <3> QED
      BY <1>1, <2>3, <3>1, <3>3
  <2> QED
    BY <2>1, <2>4, <2>5, <2>6, <2>7
<1>12. CASE Retry(DeviceMem, DeviceLocal)
  <2>1. starts # 0 /\ life = "running" /\ ClientsKept(mem, "failed", local, cuts)
    BY <1>3, <1>12 DEF Retry, NotYet
  <2>2. /\ mem' = [clients |-> IF mem = <<>> THEN {} ELSE mem.clients, current |-> 0, key |-> 1,
                   made |-> IF mem = <<>> THEN 0 ELSE mem.made]
        /\ pc' = "loop" /\ starts' = starts + 1 /\ cuts' = cuts + 1
        /\ local' = [key |-> 0, old |-> 0] /\ life' = life
    BY <1>0, <1>12, OfType DEF Retry, Enter
  <2>3. mem # <<>>
    <3>1. DOMAIN mem = {"clients", "current", "key", "made"}
      BY <2>1 DEF ClientsKept, MqttMem
    <3> QED
      BY <3>1
  <2>4. ClientsKept(mem, "none", local, cuts + 1)
    BY <1>1, <2>1, ClientsCut
  <2>5. cuts + 1 \in Nat /\ starts + 1 \in Nat \ {0}
    BY <1>1
  <2>6. ClientsKept(mem', "loop", [key |-> 0, old |-> 0], cuts + 1)
    BY <2>2, <2>3, <2>4, <2>5, ClientsBegin
  <2> QED
    BY <1>1, <1>4, <2>1, <2>2, <2>5, <2>6
<1>11. CASE mem # <<>> /\ OutsideStep
  <2>1. PICK c : MqttMessage(c)
    BY <1>0, <1>11, OutsideSteps
  <2>2. UNCHANGED <<starts, cuts, life, pc, local, mem>>
    BY <2>1 DEF MqttMessage, Outside, lifeVars, loopVars
  <2>3. starts # 0
    BY <1>3, <1>11 DEF NotYet
  <2> QED
    BY <1>1, <1>3, <1>4, <2>2, <2>3
<1> QED
  BY <1>2, <1>5, <1>6, <1>7, <1>8, <1>9, <1>10, <1>11, <1>12, Zenon DEF KeeperStep

LEMMA MqttMeaning ==
  ASSUME MqttInv PROVE MqttClientsBounded
<1> SUFFICES ASSUME node.type \in Mqtt, mem # <<>>
             PROVE  Cardinality(mem.clients)
                      <= 1 + (IF pc = "connect" /\ local.old # 0 THEN 1 ELSE 0) + 2 * cuts
  BY DEF MqttClientsBounded
<1>1. ClientsKept(mem, pc, local, cuts) /\ cuts \in Nat
  BY DEF MqttInv, NotYet
<1>2. /\ Cardinality(mem.clients) <= 2 * cuts + Spare(pc, local)
      /\ Cardinality(mem.clients) \in Nat
  BY <1>1, FS_CardinalityType DEF ClientsKept
<1>3. CASE pc = "connect" /\ local.old # 0
  <2>1. Spare(pc, local) \in {0, 1, 2}
    BY DEF Spare
  <2> QED
    BY <1>1, <1>2, <1>3, <2>1
<1>4. CASE ~(pc = "connect" /\ local.old # 0)
  <2>1. Spare(pc, local) \in {0, 1}
    BY <1>4 DEF Spare
  <2> QED
    BY <1>1, <1>2, <1>4, <2>1
<1> QED
  BY <1>3, <1>4

-----------------------------------------------------------------------------
(* What an input that is posted to still emits.                            *)

\* What a step of a node that is posted to is.
InputStep ==
  \/ Idle
  \/ Start(WebMem, <<>>)
  \/ Resume(<<>>)
  \/ \E next \in {"paused", "stopped"} : WebCut(next)
  \/ mem # <<>> /\ RouteStep

LEMMA InputNext ==
  ASSUME node \in AllTypes, node.type \in InputNames, pc \in {"none", "loop"}, [Next]_vars
  PROVE  InputStep
<1>1. /\ node \in WebTypes
      /\ node \notin StreamTypes \cup BufferTypes \cup SourceTypes \cup DeviceTypes
      /\ node.type \notin StreamNames \cup BufferNames \cup SourceNames \cup DeviceNames
                          \cup OutputNames
  <2>1. node.type \notin StreamNames \cup BufferNames \cup SourceNames \cup DeviceNames
                         \cup OutputNames
    BY DEF StreamNames, BufferNames, LogicNames, SourceNames, DeviceNames, OutputNames, InputNames
  <2> QED
    BY <2>1, Families
<1>2. CASE UNCHANGED vars
  BY <1>2 DEF vars, loopVars, dataVars, InputStep, Idle
<1>3. CASE Others
  <2>1. ASSUME NEW p, NEW ok, Wire(p) \/ Send(p, ok) PROVE Idle
    BY <2>1 DEF Wire, Send, loopVars, dataVars, Idle
  <2>2. RouteStep => mem # <<>>
    BY DEF RouteStep
  <2> QED
    BY <1>1, <1>3, <2>1, <2>2 DEF Others, InputStep
<1>4. CASE Control
  <2>1. FreshMem = WebMem /\ FreshLocal = <<>>
    BY <1>1 DEF FreshMem, FreshLocal
  <2>2. node.type # "round_robin" /\ node.type # "gate"
    BY <1>1 DEF StreamNames, BufferNames
  <2>3. ASSUME NEW next, Cut(next) PROVE WebCut(next)
    BY <1>1, <2>2, <2>3 DEF Cut
  <2>4. node.type \notin Raising
    BY DEF InputNames, Raising
  <2> QED
    BY <1>1, <1>4, <2>1, <2>2, <2>3, <2>4 DEF Control, InputStep
<1>5. CASE Process
  <2>1. Wake => Idle
    BY DEF Wake, dataVars, Idle
  <2>2. ~DeviceStep
    BY <1>1, OnlyDevices
  <2> QED
    BY <1>1, <1>5, <2>1, <2>2, OnlySources, OnlyBuffers, OnlyPlain DEF Process, InputStep
<1> QED
  BY <1>2, <1>3, <1>4, <1>5 DEF Next

PostFields == {"queue", "shown", "since", "streams", "posted", "posts", "open"}

\* While the node does not run, every post being handled was open at a cut.
PostsKept(m, l) ==
  /\ DOMAIN m = PostFields
  /\ \A p \in m.posts : DOMAIN p = {"n", "queue"} /\ (l # "running" => p.n \in m.open)

OnlyOpen(o, m) == \A k \in DOMAIN o : o[k].form = "late" => o[k].item \in m.open

PostsInv ==
  node.type \in InputNames =>
    /\ pc \in {"none", "loop"}
    /\ IsSeq(out)
    /\ starts \in Nat
    /\ IF starts = 0 THEN NotYet ELSE PostsKept(mem, life) /\ OnlyOpen(out, mem)

LEMMA PostsStep ==
  ASSUME node \in AllTypes, node' = node, PostsInv, [Next]_vars
  PROVE  PostsInv'
<1> SUFFICES ASSUME node.type \in InputNames PROVE PostsInv'
  BY DEF PostsInv
<1>1. pc \in {"none", "loop"} /\ starts \in Nat /\ IsSeq(out)
  BY DEF PostsInv
<1>2. InputStep
  BY <1>1, InputNext
<1>3. /\ starts # 0 => PostsKept(mem, life) /\ OnlyOpen(out, mem)
      /\ starts = 0 => NotYet
  BY DEF PostsInv
<1>4. ASSUME pc' \in {"none", "loop"}, starts' \in Nat \ {0}, IsSeq(out'), PostsKept(mem', life'),
             OnlyOpen(out', mem')
      PROVE  PostsInv'
  BY <1>4 DEF PostsInv
<1>5. CASE Idle
  BY <1>1, <1>3, <1>5
     DEF Idle, lifeVars, PostsInv, NotYet, PostsKept, PostFields, OnlyOpen, IsSeq
<1>6. CASE Start(WebMem, <<>>)
  <2>1. /\ mem' = WebMem /\ pc' = "loop" /\ starts' = starts + 1 /\ life' = "running" /\ out' = out
    BY <1>6 DEF Start, Enter
  <2>2. PostsKept(WebMem, "running") /\ OnlyOpen(out, WebMem)
    <3>1. CASE starts = 0
      <4>1. mem = <<>> /\ DOMAIN out = {}
        BY <1>3, <3>1 DEF NotYet
      <4> QED
        BY <4>1 DEF WebMem, PostsKept, PostFields, OnlyOpen
    <3>2. CASE starts # 0
      <4>1. mem # <<>>
        <5>1. DOMAIN mem = PostFields
          BY <1>3, <3>2 DEF PostsKept
        <5> QED
          BY <5>1 DEF PostFields
      <4>2. WebMem = [queue |-> <<>>, shown |-> <<>>, since |-> Len(out), streams |-> mem.streams,
                      posted |-> mem.posted, posts |-> mem.posts, open |-> mem.open]
        BY <4>1 DEF WebMem
      <4> QED
        BY <1>3, <3>2, <4>2 DEF PostsKept, PostFields, OnlyOpen
    <3> QED
      BY <3>1, <3>2
  <2> QED
    BY <1>1, <1>4, <2>1, <2>2
<1>7. CASE Resume(<<>>)
  <2>1. /\ starts # 0 /\ starts' = starts /\ pc' = "loop" /\ life' = "running"
        /\ mem' = mem /\ out' = out
    BY <1>3, <1>7 DEF Resume, Enter, dataVars, NotYet
  <2>2. PostsKept(mem, "running")
    BY <1>3, <2>1 DEF PostsKept
  <2> QED
    BY <1>1, <1>3, <1>4, <2>1, <2>2
<1>8. CASE \E next \in {"paused", "stopped"} : WebCut(next)
  <2>1. /\ starts # 0 /\ starts' = starts /\ pc' = "none" /\ out' = out
        /\ mem' = [mem EXCEPT !.open = @ \cup {p.n : p \in mem.posts}]
    BY <1>3, <1>8 DEF WebCut, Cancel, Leave, NotYet
  <2>2. /\ DOMAIN mem' = PostFields /\ mem'.posts = mem.posts
        /\ mem'.open = mem.open \cup {p.n : p \in mem.posts}
    BY <1>3, <2>1 DEF PostsKept, PostFields
  <2>3. PostsKept(mem', life') /\ OnlyOpen(out, mem')
    BY <1>3, <2>1, <2>2 DEF PostsKept, OnlyOpen
  <2> QED
    BY <1>1, <1>4, <2>1, <2>3
<1>9. CASE mem # <<>> /\ RouteStep
  <2>1. starts # 0 /\ PostsKept(mem, life) /\ OnlyOpen(out, mem)
    BY <1>3, <1>9 DEF NotYet
  <2>2. ASSUME NEW t, NEW m, NEW o, Serve(t, m, o), IsSeq(o), PostsKept(m, life), OnlyOpen(o, m)
        PROVE  PostsInv'
    BY <1>1, <1>4, <2>1, <2>2 DEF Serve, lifeVars, loopVars
  <2>3. ASSUME NEW t, NEW m, Serve(t, m, out), PostsKept(m, life), m.open = mem.open
        PROVE  PostsInv'
    BY <1>1, <2>1, <2>2, <2>3 DEF OnlyOpen
  <2>4. ASSUME NEW m, NEW n, Emits(m, n), PostsKept(m, life), m.open = mem.open,
               Running \/ n \in mem.open
        PROVE  PostsInv'
    <3> DEFINE e == Emission(n, <<"out">>, IF Running THEN "data" ELSE "late")
    <3>1. Serve({node.type}, m, Append(out, e))
      BY <2>4 DEF Emits
    <3>2. e.form = "late" => e.item \in m.open
      BY <2>4 DEF Emission
    <3> HIDE DEF e
    <3>3. /\ IsSeq(Append(out, e)) /\ DOMAIN out = 1..Len(out) /\ Len(out) \in Nat
          /\ DOMAIN Append(out, e) = 1..(Len(out) + 1)
          /\ \A k \in 1..Len(out) : Append(out, e)[k] = out[k]
          /\ Append(out, e)[Len(out) + 1] = e
      BY <1>1, AppendSeq
    <3>4. OnlyOpen(Append(out, e), m)
      BY <2>1, <2>4, <3>2, <3>3 DEF OnlyOpen
    <3> QED
      BY <2>2, <2>4, <3>1, <3>3, <3>4
  <2>5. ASSUME NEW m, DOMAIN m = PostFields, m.posts = mem.posts, m.open = mem.open
        PROVE  PostsKept(m, life)
    BY <2>1, <2>5 DEF PostsKept
  <2>6. CASE StreamOpens \/ StreamCloses
    <3>1. PICK n : Serve(Streaming, [mem EXCEPT !.streams = n], out)
      BY <2>6 DEF StreamOpens, StreamCloses
    <3>2. PICK m : m = [mem EXCEPT !.streams = n]
      OBVIOUS
    <3>3. DOMAIN m = PostFields /\ m.posts = mem.posts /\ m.open = mem.open
      BY <2>1, <3>2 DEF PostsKept, PostFields
    <3> QED
      BY <2>3, <2>5, <3>1, <3>2, <3>3
  <2>7. CASE StreamTakes
    <3>1. PICK m : m = [mem EXCEPT !.queue = Tail(@), !.shown = Append(@, Head(mem.queue))]
      OBVIOUS
    <3>2. DOMAIN m = PostFields /\ m.posts = mem.posts /\ m.open = mem.open
      BY <2>1, <3>1 DEF PostsKept, PostFields
    <3>3. Serve(Streaming, m, out)
      BY <2>7, <3>1 DEF StreamTakes
    <3> QED
      BY <2>3, <2>5, <3>2, <3>3
  <2>8. PICK more : more = [mem EXCEPT !.posted = @ + 1]
    OBVIOUS
  <2>9. DOMAIN more = PostFields /\ more.posts = mem.posts /\ more.open = mem.open
    BY <2>1, <2>8 DEF PostsKept, PostFields
  <2>10. CASE PostJSON
    <3>1. IF Running THEN Emits(more, more.posted) ELSE Serve({node.type}, more, out)
      BY <2>8, <2>10 DEF PostJSON
    <3> QED
      BY <2>3, <2>4, <2>5, <2>9, <3>1
  <2>11. CASE PostArrives
    <3>1. PICK p : p = [n |-> more.posted, queue |-> 0]
      OBVIOUS
    <3>2. PICK m : m = [more EXCEPT !.posts = @ \cup {p}]
      OBVIOUS
    <3>3. Serve({"user_input"}, IF Running THEN m ELSE more, out)
      BY <2>8, <2>11, <3>1, <3>2 DEF PostArrives
    <3>4. DOMAIN m = PostFields /\ m.posts = mem.posts \cup {p} /\ m.open = mem.open
      BY <2>9, <3>2 DEF PostFields
    <3>5. Running => PostsKept(m, life)
      BY <2>1, <3>1, <3>4 DEF PostsKept, Running
    <3> QED
      BY <2>3, <2>5, <2>9, <3>3, <3>4, <3>5
  <2>12. ASSUME NEW p \in mem.posts, PostIsRead(p) \/ PostFits(p) PROVE PostsInv'
    <3>1. Running \/ p.n \in mem.open
      BY <2>1 DEF PostsKept, Running
    <3>2. /\ DOMAIN Accepted(p) = PostFields /\ Accepted(p).posts \subseteq mem.posts
          /\ Accepted(p).open = mem.open
      BY <2>1 DEF Accepted, PostsKept, PostFields
    <3>3. PostsKept(Accepted(p), life)
      BY <2>1, <3>2 DEF PostsKept
    <3>4. PICK q : q = [p EXCEPT !.queue = starts]
      OBVIOUS
    <3>5. PICK m : m = [mem EXCEPT !.posts = (@ \ {p}) \cup {q}]
      OBVIOUS
    <3>6. /\ DOMAIN m = PostFields /\ m.posts = (mem.posts \ {p}) \cup {q}
          /\ m.open = mem.open
      BY <2>1, <3>5 DEF PostsKept, PostFields
    <3>7. DOMAIN q = {"n", "queue"} /\ q.n = p.n
      BY <2>1, <3>4 DEF PostsKept
    <3>8. PostsKept(m, life)
      BY <2>1, <3>6, <3>7 DEF PostsKept
    <3>9. Emits(Accepted(p), p.n) \/ Serve({"user_input"}, m, out)
      BY <2>12, <3>4, <3>5 DEF PostIsRead, PostFits
    <3> QED
      BY <2>3, <2>4, <3>1, <3>2, <3>3, <3>6, <3>8, <3>9
  <2> QED
    BY <1>9, <2>6, <2>7, <2>10, <2>11, <2>12 DEF RouteStep
<1> QED
  BY <1>2, <1>5, <1>6, <1>7, <1>8, <1>9, Zenon DEF InputStep

-----------------------------------------------------------------------------
(* All of them.                                                            *)

LeftInv ==
  LoopTyped /\ CommandsInv /\ MqttInv /\ SubgraphInv /\ ServerInv /\ PeersInv /\ PostsInv

LEMMA LeftInit == ASSUME NodeInit PROVE LeftInv
<1>1. NotYet /\ cuts = 0 /\ starts = 0
  BY DEF NodeInit, Init, NotYet
<1>2. pc \in Waits
  BY <1>1 DEF NotYet, Waits
<1>3. IsSeq(out) /\ DOMAIN out = {}
  BY <1>1, NoneIsSeq DEF NotYet
<1>4. LoopTyped
  BY LoopInit
<1> QED
  BY <1>1, <1>2, <1>3, <1>4
     DEF NotYet, LeftInv, CommandsInv, MqttInv, SubgraphInv, ServerInv, PeersInv, PostsInv

LEMMA LeftStep == ASSUME LeftInv, [Next]_vars PROVE LeftInv'
<1>1. node \in AllTypes /\ LoopTyped'
  BY LoopStep DEF LeftInv, LoopTyped
<1>2. node' = node
  BY NextStays DEF LeftInv, vars, Stays
<1> QED
  BY <1>1, <1>2, CommandsStep, MqttStep, SubgraphStep, ServerStep, PeersStep, PostsStep, Zenon
     DEF LeftInv

LEMMA LeftMeaning == ASSUME LeftInv PROVE LeftoversBounded
<1>1. KilledWhole
  BY DEF LeftInv, CommandsInv, KilledWhole, NotYet
<1>2. MqttClientsBounded
  BY MqttMeaning DEF LeftInv
<1>3. OneInnerPerInit
  <2> SUFFICES ASSUME node.type = "subgraph", mem # <<>>
               PROVE  mem.orphans + (IF mem.inner = "none" THEN 0 ELSE 1) <= starts
    BY DEF OneInnerPerInit
  <2>1. mem.orphans \in Nat /\ starts \in Nat /\ mem.orphans + 1 <= starts
    BY DEF LeftInv, SubgraphInv, NotYet
  <2> QED
    BY <2>1
<1>4. OneLastWord
  BY DEF LeftInv, PeersInv, OneLastWord
<1>5. DeafIsReported
  BY DEF LeftInv, ServerInv, DeafIsReported
<1>6. OnlyStragglers
  <2> SUFFICES ASSUME node \in WebInputs, NEW k \in DOMAIN out, out[k].form = "late"
               PROVE  out[k].item \in mem.open
    BY DEF OnlyStragglers
  <2>1. node.type \in InputNames
    BY Families DEF LeftInv, LoopTyped
  <2>2. starts # 0
    BY <2>1 DEF LeftInv, PostsInv, NotYet
  <2> QED
    BY <2>1, <2>2 DEF LeftInv, PostsInv, OnlyOpen
<1> QED
  BY <1>1, <1>2, <1>3, <1>4, <1>5, <1>6 DEF LeftoversBounded

\* What a node leaves running outside is bounded by how often it was started
\* and cut, for any number of items, connections, clients and calls: a command
\* that was killed leaves no process, every MQTT client beyond the two of a
\* task was left by a cut (MQTTInputNode._connect_client() and stop()) or by a
\* process that raised and was begun again (_run_loop() and its retries), each
\* init() leaves one inner graph at most, a connection that was made before a
\* pause has one last word, a socket server without its port has said so, and
\* an input that does not run emits nothing but posts that were open at a cut.
THEOREM Leftovers == Spec => []LeftoversBounded
<1>1. NodeInit => LeftInv
  BY LeftInit
<1>2. LeftInv /\ [Next]_vars => LeftInv'
  BY LeftStep
<1>3. LeftInv => LeftoversBounded
  BY LeftMeaning
<1> QED
  BY <1>1, <1>2, <1>3, PTL DEF Spec

-----------------------------------------------------------------------------
(* Sources and triggers.                                                   *)

\* Others draw a wire or send an item, or the loop wakes up.
Aside ==
  /\ UNCHANGED <<node, lifeVars, pc, local, mem, out, got, base>>
  /\ pipe' = pipe \/ \E p \in NodePorts, ok \in BOOLEAN : Send(p, ok)
  /\ \/ UNCHANGED <<envVars, turn, pass, pipe>>
     \/ Wake
     \/ \E p \in NodePorts : Wire(p) \/ \E ok \in BOOLEAN : Send(p, ok)

SourceChange ==
  \/ Aside
  \/ Start(SourceMem, SourceLocal)
  \/ Resume(SourceLocal)
  \/ pc # "read" /\ (Pause \/ Stop)
  \/ SourceStep

\* A process that raised is begun again.
SourceRetry == node.type \in Raising /\ Retry(SourceMem, SourceLocal)

LEMMA SourceNext ==
  ASSUME node \in AllTypes, node.type \in SourceNames, pc \notin {"run", "await"}, [Next]_vars
  PROVE  SourceChange \/ SourceRetry
<1>1. /\ node.type \notin StreamNames \cup BufferNames \cup DeviceNames \cup OutputNames
                          \cup InputNames
      /\ node \in SourceTypes
      /\ node \notin StreamTypes \cup BufferTypes \cup DeviceTypes \cup WebTypes
  <2>1. node.type \notin StreamNames \cup BufferNames \cup DeviceNames \cup OutputNames
                         \cup InputNames
    BY DEF SourceNames, StreamNames, BufferNames, LogicNames, DeviceNames, OutputNames, InputNames
  <2> QED
    BY <2>1, Families
<1>2. CASE UNCHANGED vars
  BY <1>2 DEF vars, loopVars, dataVars, SourceChange, Aside
<1>3. CASE Others
  <2>1. ASSUME NEW p \in NodePorts, Wire(p) PROVE Aside
    BY <2>1 DEF Wire, loopVars, dataVars, Aside
  <2>2. ASSUME NEW p \in NodePorts, NEW ok \in BOOLEAN, Send(p, ok) PROVE Aside
    BY <2>2 DEF Send, loopVars, Aside
  <2> QED
    BY <1>1, <1>3, <2>1, <2>2 DEF Others, SourceChange, NodePorts
<1>4. CASE Control
  <2>1. FreshMem = SourceMem /\ FreshLocal = SourceLocal
    BY <1>1 DEF FreshMem, FreshLocal
  <2>2. node.type # "round_robin" /\ node.type # "gate"
    BY <1>1 DEF StreamNames, BufferNames
  <2>3. ASSUME NEW next, Cut(next) PROVE pc # "read" /\ (Pause \/ Stop)
    BY <1>1, <2>2, <2>3 DEF Cut
  <2> QED
    BY <1>1, <1>4, <2>1, <2>2, <2>3 DEF Control, SourceChange, SourceRetry
<1>5. CASE Process
  <2>1. Wake => Aside
    BY DEF Wake, dataVars, Aside
  <2> QED
    BY <1>1, <1>5, <2>1, OnlyDevices, OnlyBuffers, OnlyPlain DEF Process, SourceChange
<1> QED
  BY <1>2, <1>3, <1>4, <1>5 DEF Next

\* The steps of each type.
LEMMA SourceSteps ==
  ASSUME SourceStep
  PROVE  /\ pc \notin {"read", "delay", "trigger"} =>
              /\ node.type = "timer" => Timer
              /\ node.type = "generator" => Generator
              /\ node.type = "list_strings" => ListStrings
              /\ node.type = "cron" => Cron
              /\ node.type = "directory" => Directory
         /\ node.type \in {"file_input", "json_input"} /\ pc \notin {"delay", "trigger"} =>
              FileStat \/ FileRead
         /\ node.type = "pulse" /\ pc \notin {"read", "delay"} =>
              Pulse \/ TellTarget \/ TargetFails \/ PulseDone
<1>1. /\ Timer => node.type = "timer"
      /\ Clock => node.type = "clock"
      /\ Generator => node.type = "generator"
      /\ Constant => node.type = "constant"
      /\ ListStrings => node.type = "list_strings"
      /\ UrlInput => node.type = "url_input"
      /\ Cron => node.type = "cron"
  BY DEF Timer, Clock, Generator, Constant, ListStrings, UrlInput, Cron, Turn
<1>2. /\ FileStat => node.type \in {"file_input", "json_input"}
      /\ FileRead => pc = "read"
      /\ Directory => node.type = "directory"
  BY DEF FileStat, FileRead, Reading, Directory
<1>3. /\ Trigger => node.type = "trigger"
      /\ TriggerOn => node.type = "trigger_on"
      /\ TriggerIf => node.type = "trigger_if"
      /\ TriggerToggle => node.type = "trigger_toggle"
      /\ Threshold => node.type = "threshold"
      /\ TimerTrigger => node.type = "timer_trigger"
      /\ Pulse => node.type = "pulse"
      /\ Debounce => node.type = "debounce"
  BY DEF Trigger, TriggerOn, TriggerIf, TriggerToggle, Threshold, Debounce, TimerTrigger, Pulse,
         Turn
<1>4. /\ Delay => pc = "delay"
      /\ TellTarget \/ TargetFails \/ TriggerDone \/ PulseDone => pc = "trigger"
      /\ TriggerDone => node.type # "pulse"
      /\ (\E t \in Timers : DelayedTrigger(t)) => node.type = "debounce"
  BY DEF Delay, TellTarget, TargetFails, TriggerDone, PulseDone, Timers
<1> QED
  BY <1>1, <1>2, <1>3, <1>4, Zenon DEF SourceStep

\* What the options of a type may be.
LEMMA SourceOptions ==
  ASSUME node \in AllTypes, node.type \in SourceNames
  PROVE  /\ node.type = "list_strings" => node.opt.length \in {0, 2} /\ node.opt.loop \in BOOLEAN
         /\ node.type = "cron" => node.ports = <<"minute">>
         /\ node.type \in {"file_input", "json_input", "directory"} => node.ports = <<"file">>
         /\ node.type = "pulse" =>
              node.opt.count \in {0, 2} /\ node.opt.graph = <<>> /\ node.opt.own = <<"c">>
<1>1. node \in SourceTypes
  BY Families
<1> QED
  BY <1>1 DEF SourceTypes, SourceType

\* What init() sets, by type.
LEMMA SourceFresh ==
  /\ node.type \in {"timer", "generator", "list_strings", "pulse", "threshold"} =>
       SourceMem = [n |-> 0]
  /\ node.type = "cron" => SourceMem = [last |-> <<>>]
  /\ node.type = "trigger_toggle" => SourceMem = [on |-> FALSE]
  /\ node.type = "debounce" =>
       SourceMem = [timers |-> Timers, current |-> 0, deaf |-> IF mem = <<>> THEN 0 ELSE mem.deaf]
  /\ node.type \in {"file_input", "json_input"} => SourceLocal = [size |-> 0, stat |-> 0]
  /\ node.type = "directory" => SourceLocal = [seen |-> {}]
BY DEF SourceMem, SourceLocal

LEMMA AddedOne ==
  ASSUME NEW S, IsFiniteSet(S), NEW T, NEW x, T \subseteq S \cup {x}
  PROVE  /\ IsFiniteSet(T) /\ Cardinality(T) \in Nat /\ Cardinality(S) \in Nat
         /\ Cardinality(T) <= Cardinality(S) + 1
         /\ T \subseteq S => Cardinality(T) <= Cardinality(S)
<1>1. /\ IsFiniteSet(S \cup {x})
      /\ Cardinality(S \cup {x}) \in {Cardinality(S), Cardinality(S) + 1}
      /\ Cardinality(S) \in Nat
  BY FS_AddElement, FS_CardinalityType
<1>2. /\ IsFiniteSet(T)
      /\ Cardinality(T) \in Nat
      /\ Cardinality(T) <= Cardinality(S \cup {x})
  BY <1>1, FS_Subset, FS_CardinalityType
<1>3. T \subseteq S => Cardinality(T) <= Cardinality(S)
  BY FS_Subset
<1> QED
  BY <1>1, <1>2, <1>3

-----------------------------------------------------------------------------
(* Timers and generators.                                                  *)

FirstNumber == IF node.type = "timer" THEN 1 ELSE 0
Firsts(o) == {k \in DOMAIN o : o[k].item = FirstNumber}

\* The numbers so far, the counter and the number of init()s.
CountKept(o, n, c) ==
  /\ n \in Nat
  /\ IsSeq(o)
  /\ IsFiniteSet(Firsts(o))
  /\ \A k \in DOMAIN o : o[k].item \in Nat
  /\ o # <<>> => o[1].item = FirstNumber
  /\ \A k \in 1..(Len(o) - 1) :
       o[k + 1].item = o[k].item + 1 \/ o[k + 1].item = FirstNumber
  /\ n = 0 \/ (o # <<>> /\ n + FirstNumber = o[Len(o)].item + 1)
  /\ Cardinality(Firsts(o)) + (IF n = 0 THEN 1 ELSE 0) <= c

CountInv ==
  node.type \in {"timer", "generator"} =>
    /\ pc \in {"none", "loop", "ended"}
    /\ starts \in Nat
    /\ IF starts = 0 THEN NotYet ELSE DOMAIN mem = {"n"} /\ CountKept(out, mem.n, starts)

LEMMA OneMore ==
  ASSUME NEW o, NEW n, NEW c \in Nat, CountKept(o, n, c), NEW e, e.item = n + FirstNumber
  PROVE  CountKept(Append(o, e), n + 1, c)
<1> DEFINE t == Append(o, e)
<1>0. FirstNumber \in {0, 1}
  BY DEF FirstNumber
<1>1. /\ IsSeq(t)
      /\ DOMAIN o = 1..Len(o) /\ Len(o) \in Nat
      /\ DOMAIN t = 1..(Len(o) + 1) /\ Len(t) = Len(o) + 1
      /\ \A k \in 1..Len(o) : t[k] = o[k]
      /\ t[Len(o) + 1] = e
  BY AppendSeq DEF CountKept
<1> HIDE DEF t
<1>2. o # <<>> => Len(o) # 0
  BY <1>1 DEF CountKept, IsSeq
<1>3. /\ n \in Nat
      /\ \A k \in DOMAIN o : o[k].item \in Nat
      /\ o # <<>> => o[1].item = FirstNumber
      /\ \A k \in 1..(Len(o) - 1) :
           o[k + 1].item = o[k].item + 1 \/ o[k + 1].item = FirstNumber
      /\ n = 0 \/ (o # <<>> /\ n + FirstNumber = o[Len(o)].item + 1)
      /\ Cardinality(Firsts(o)) + (IF n = 0 THEN 1 ELSE 0) <= c
  BY DEF CountKept
<1>4. \A k \in DOMAIN t : t[k].item \in Nat
  BY <1>0, <1>1, <1>3
<1>5. o = <<>> => Len(o) = 0
  OBVIOUS
<1>6. t[1].item = FirstNumber
  <2>1. CASE o = <<>>
    BY <1>0, <1>1, <1>3, <1>5, <2>1
  <2>2. CASE o # <<>>
    BY <1>1, <1>2, <1>3, <2>2
  <2> QED
    BY <2>1, <2>2
<1>7. ASSUME NEW k \in 1..Len(o)
      PROVE  t[k + 1].item = t[k].item + 1 \/ t[k + 1].item = FirstNumber
  <2>0. k < Len(o) \/ k = Len(o)
    <3>1. Len(o) \in Nat
      BY <1>1
    <3> QED
      BY <1>7, <3>1
  <2>1. CASE k < Len(o)
    BY <1>1, <1>3, <1>7, <2>1
  <2>2. CASE k = Len(o)
    <3>1. t[k + 1].item = n + FirstNumber /\ t[k].item = o[Len(o)].item
      BY <1>1, <2>0, <2>2
    <3> QED
      BY <1>0, <1>3, <2>0, <2>2, <3>1
  <2> QED
    BY <2>0, <2>1, <2>2
<1>8. Firsts(t) \subseteq Firsts(o) \cup {Len(o) + 1}
  BY <1>1 DEF Firsts
<1>9. n # 0 => Firsts(t) \subseteq Firsts(o)
  BY <1>0, <1>1, <1>3 DEF Firsts
<1>10. /\ IsFiniteSet(Firsts(t)) /\ Cardinality(Firsts(t)) \in Nat /\ Cardinality(Firsts(o)) \in Nat
       /\ Cardinality(Firsts(t)) <= Cardinality(Firsts(o)) + 1
       /\ n # 0 => Cardinality(Firsts(t)) <= Cardinality(Firsts(o))
  <2>1. IsFiniteSet(Firsts(o))
    BY DEF CountKept
  <2> HIDE DEF Firsts
  <2> QED
    BY <1>8, <1>9, <2>1, AddedOne
<1>11. Cardinality(Firsts(t)) + (IF n + 1 = 0 THEN 1 ELSE 0) <= c
  BY <1>3, <1>10
<1>12. n + 1 \in Nat /\ t # <<>> /\ n + 1 + FirstNumber = t[Len(t)].item + 1
  BY <1>0, <1>1, <1>3
<1>13. 1..(Len(t) - 1) = 1..Len(o)
  BY <1>1
<1> QED
  BY <1>1, <1>4, <1>6, <1>7, <1>10, <1>11, <1>12, <1>13 DEF CountKept, t

LEMMA CountStep ==
  ASSUME node \in AllTypes, node' = node, CountInv, [Next]_vars
  PROVE  CountInv'
<1> SUFFICES ASSUME node.type \in {"timer", "generator"} PROVE CountInv'
  BY DEF CountInv
<1>1. /\ pc \in {"none", "loop", "ended"} /\ starts \in Nat
      /\ starts # 0 => DOMAIN mem = {"n"} /\ CountKept(out, mem.n, starts)
      /\ starts = 0 => NotYet
  BY DEF CountInv
<1>2. SourceChange
  BY <1>1, SourceNext DEF SourceNames, SourceRetry, Raising
<1>3. ASSUME pc' \in {"none", "loop", "ended"}, starts' \in Nat \ {0}, DOMAIN mem' = {"n"},
             CountKept(out', mem'.n, starts')
      PROVE  CountInv'
  <2>1. \A o, n, c : CountKept(o, n, c)' <=> CountKept(o, n, c)
    BY DEF CountKept, Firsts, FirstNumber, IsSeq
  <2> QED
    BY <1>3, <2>1 DEF CountInv, CountKept, Firsts, FirstNumber
<1>4. CASE Aside
  BY <1>1, <1>3, <1>4 DEF Aside, lifeVars, CountInv, NotYet
<1>5. CASE Start(SourceMem, SourceLocal)
  <2>1. mem' = [n |-> 0] /\ pc' = "loop" /\ starts' = starts + 1 /\ out' = out
    BY <1>5, SourceFresh DEF Start, Enter
  <2>2. CASE starts = 0
    <3>1. out = <<>> /\ Firsts(out) = {}
      BY <1>1, <2>2 DEF NotYet, Firsts
    <3>2. CountKept(out, 0, 1)
      BY <3>1, NoneIsSeq, FS_EmptySet DEF CountKept
    <3> QED
      BY <1>3, <2>1, <2>2, <3>2
  <2>3. CASE starts # 0
    <3>1. CountKept(out, 0, starts + 1)
      <4>1. Cardinality(Firsts(out)) \in Nat
        BY <1>1, <2>3, FS_CardinalityType DEF CountKept
      <4>2. Cardinality(Firsts(out)) + 1 <= starts + 1
        BY <1>1, <2>3, <4>1 DEF CountKept
      <4> QED
        BY <1>1, <2>3, <4>2 DEF CountKept
    <3> QED
      BY <1>1, <1>3, <2>1, <3>1
  <2> QED
    BY <2>2, <2>3
<1>6. CASE Resume(SourceLocal)
  BY <1>1, <1>3, <1>6 DEF Resume, Enter, dataVars, NotYet
<1>7. CASE Pause \/ Stop
  BY <1>1, <1>3, <1>7 DEF Pause, Stop, Cancel, Leave, dataVars, NotYet
<1>8. CASE SourceStep
  <2>1. Timer \/ Generator
    BY <1>1, <1>8, SourceSteps
  <2>2. pc = "loop" /\ starts' = starts /\ starts # 0
    BY <1>1, <2>1 DEF Timer, Generator, Turn, lifeVars, NotYet
  <2>3. DOMAIN mem = {"n"} /\ CountKept(out, mem.n, starts) /\ mem.n \in Nat
    BY <1>1, <2>2 DEF CountKept
  <2>4. CASE \E e : /\ e.item = mem.n + FirstNumber
                    /\ out' = Append(out, e) /\ DOMAIN mem' = {"n"} /\ mem'.n = mem.n + 1
                    /\ pc' = "loop"
    BY <1>1, <1>3, <2>2, <2>3, <2>4, OneMore
  <2>5. CASE Timer
    BY <2>2, <2>3, <2>4, <2>5 DEF Timer, Turn, Becomes, Says, Give, Self, Emission, FirstNumber
  <2>6. CASE Generator
    <3>1. CASE mem.n >= node.opt.count
      BY <1>1, <1>3, <2>2, <2>3, <2>6, <3>1 DEF Generator, Turn, Becomes, Ends, Self
    <3>2. CASE ~(mem.n >= node.opt.count)
      BY <2>2, <2>3, <2>4, <2>6, <3>2
         DEF Generator, Turn, Becomes, Says, Give, Self, Emission, FirstNumber
    <3> QED
      BY <3>1, <3>2
  <2> QED
    BY <2>1, <2>5, <2>6
<1> QED
  BY <1>2, <1>4, <1>5, <1>6, <1>7, <1>8 DEF SourceChange

LEMMA CountMeaning == ASSUME CountInv PROVE CountsOn
<1> SUFFICES ASSUME node.type \in {"timer", "generator"}
             PROVE  /\ \A k \in 1..(Len(out) - 1) :
                         Numbers[k + 1] = Numbers[k] + 1 \/ Numbers[k + 1] = Numbers[1]
                    /\ Cardinality({k \in DOMAIN out : Numbers[k] = Numbers[1]}) <= starts
  BY DEF CountsOn
<1>1. CASE out = <<>>
  <2>1. {k \in DOMAIN out : Numbers[k] = Numbers[1]} = {} /\ Len(out) = 0
    BY <1>1
  <2> QED
    BY <2>1, FS_EmptySet DEF CountInv
<1>2. CASE out # <<>>
  <2>1. CountKept(out, mem.n, starts) /\ starts \in Nat
    BY <1>2 DEF CountInv, NotYet
  <2>2. DOMAIN out = 1..Len(out) /\ Len(out) \in Nat /\ 1 \in DOMAIN out
    BY <1>2, <2>1 DEF CountKept, IsSeq
  <2>3. {k \in DOMAIN out : Numbers[k] = Numbers[1]} = Firsts(out)
    BY <1>2, <2>1, <2>2 DEF CountKept, Firsts, Numbers
  <2>4. Cardinality(Firsts(out)) \in Nat
    BY <2>1, FS_CardinalityType DEF CountKept
  <2>5. Cardinality(Firsts(out)) <= starts
    BY <2>1, <2>4 DEF CountKept
  <2>6. \A k \in 1..(Len(out) - 1) :
          Numbers[k + 1] = Numbers[k] + 1 \/ Numbers[k + 1] = Numbers[1]
    BY <1>2, <2>1, <2>2 DEF CountKept, Numbers
  <2> QED
    BY <2>3, <2>5, <2>6
<1> QED
  BY <1>1, <1>2

-----------------------------------------------------------------------------
(* Lists.                                                                  *)

\* The string that is next.
NextOf(n) == IF n >= node.opt.length THEN 0 ELSE n

\* An entry a of the output is followed by b as the list says.
FollowedBy(a, b) ==
  CASE a.form = "done" -> b.item = 0
    [] b.form = "done" -> a.item = b.item
    [] OTHER -> b.item = (a.item + 1) % node.opt.length

Broken(o) == {k \in 1..(Len(o) - 1) : ~FollowedBy(o[k], o[k + 1])}

\* A value that is emitted next follows what was emitted last.
Links(o, n) == o # <<>> => FollowedBy(o[Len(o)], Emission(NextOf(n), <<"out">>, "value"))

PlayedKept(o, n, c) ==
  /\ n \in Nat
  /\ IsSeq(o)
  /\ IsFiniteSet(Broken(o))
  /\ Cardinality(Broken(o)) + (IF Links(o, n) THEN 0 ELSE 1) <= c

PlayedInv ==
  node.type = "list_strings" =>
    /\ pc \in {"none", "loop", "ended"}
    /\ starts \in Nat
    /\ IF starts = 0 THEN NotYet ELSE DOMAIN mem = {"n"} /\ PlayedKept(out, mem.n, starts)

LEMMA BrokenAppend ==
  ASSUME NEW o, IsSeq(o), IsFiniteSet(Broken(o)), NEW e
  PROVE  /\ IsFiniteSet(Broken(Append(o, e)))
         /\ Cardinality(Broken(Append(o, e))) \in Nat /\ Cardinality(Broken(o)) \in Nat
         /\ Cardinality(Broken(Append(o, e))) <= Cardinality(Broken(o)) + 1
         /\ (o # <<>> => FollowedBy(o[Len(o)], e)) =>
              Cardinality(Broken(Append(o, e))) <= Cardinality(Broken(o))
<1> DEFINE t == Append(o, e)
<1>1. /\ DOMAIN o = 1..Len(o) /\ Len(o) \in Nat
      /\ Len(t) = Len(o) + 1
      /\ \A k \in 1..Len(o) : t[k] = o[k]
      /\ t[Len(o) + 1] = e
  BY AppendSeq
<1> HIDE DEF t
<1>2. 1..(Len(t) - 1) = 1..Len(o)
  BY <1>1
<1>3. ASSUME NEW k \in Broken(t) PROVE k \in Broken(o) \cup {Len(o)}
  <2>1. k \in 1..Len(o) /\ ~FollowedBy(t[k], t[k + 1])
    BY <1>2, <1>3 DEF Broken
  <2>2. Len(o) \in Nat /\ k \in Nat
    BY <1>1, <2>1
  <2>3. CASE k = Len(o)
    BY <2>3
  <2>4. CASE k # Len(o)
    <3>1. k \in 1..(Len(o) - 1) /\ k + 1 \in 1..Len(o)
      BY <2>1, <2>2, <2>4
    <3>2. t[k] = o[k] /\ t[k + 1] = o[k + 1]
      BY <1>1, <2>1, <3>1
    <3> QED
      BY <2>1, <3>1, <3>2 DEF Broken
  <2> QED
    BY <2>3, <2>4
<1>4. ASSUME o # <<>> => FollowedBy(o[Len(o)], e) PROVE Len(o) \notin Broken(t)
  <2>1. CASE Len(o) = 0
    BY <1>2, <2>1 DEF Broken
  <2>2. CASE Len(o) # 0
    <3>1. o # <<>> /\ Len(o) \in 1..Len(o)
      BY <1>1, <2>2
    <3>2. FollowedBy(t[Len(o)], t[Len(o) + 1])
      BY <1>1, <1>4, <3>1
    <3> QED
      BY <3>2 DEF Broken
  <2> QED
    BY <2>1, <2>2
<1>5. Broken(t) \subseteq Broken(o) \cup {Len(o)}
  BY <1>3
<1>6. (o # <<>> => FollowedBy(o[Len(o)], e)) => Broken(t) \subseteq Broken(o)
  BY <1>3, <1>4
<1> HIDE DEF Broken, FollowedBy
<1>7. /\ IsFiniteSet(Broken(t)) /\ Cardinality(Broken(t)) \in Nat /\ Cardinality(Broken(o)) \in Nat
      /\ Cardinality(Broken(t)) <= Cardinality(Broken(o)) + 1
      /\ Broken(t) \subseteq Broken(o) => Cardinality(Broken(t)) <= Cardinality(Broken(o))
  BY <1>5, AddedOne
<1> QED
  BY <1>6, <1>7 DEF t

\* One string is emitted, and a 'done' after the last.
LEMMA OneString ==
  ASSUME node.opt.length = 2, node.opt.loop \in BOOLEAN,
         NEW o, NEW n, NEW c \in Nat, PlayedKept(o, n, c),
         NEW k, k = NextOf(n), NEW v, v = Emission(k, <<"out">>, "value"),
         NEW d, d = Emission(k, <<"out">>, "done")
  PROVE  /\ node.opt.loop => PlayedKept(Append(o, v), (k + 1) % 2, c)
         /\ ~node.opt.loop /\ k + 1 # 2 => PlayedKept(Append(o, v), k + 1, c)
         /\ ~node.opt.loop /\ k + 1 = 2 => PlayedKept(Append(Append(o, v), d), k + 1, c)
<1> DEFINE t == Append(o, v)
           u == Append(t, d)
<1>1. k \in {0, 1}
  BY DEF NextOf, PlayedKept
<1>2. /\ n \in Nat /\ IsSeq(o) /\ IsFiniteSet(Broken(o))
      /\ Cardinality(Broken(o)) + (IF Links(o, n) THEN 0 ELSE 1) <= c
  BY DEF PlayedKept
<1>3. /\ IsSeq(t) /\ Len(t) = Len(o) + 1 /\ Len(o) \in Nat /\ t[Len(t)] = v /\ t # <<>>
  <2>1. IsSeq(t) /\ Len(t) = Len(o) + 1 /\ Len(o) \in Nat /\ t[Len(o) + 1] = v
    BY <1>2, AppendSeq
  <2> HIDE DEF t
  <2>2. t # <<>>
    BY <2>1
  <2> QED
    BY <2>1, <2>2
<1>4. /\ IsFiniteSet(Broken(t)) /\ Cardinality(Broken(t)) \in Nat /\ Cardinality(Broken(o)) \in Nat
      /\ Cardinality(Broken(t)) <= Cardinality(Broken(o)) + 1
      /\ Links(o, n) => Cardinality(Broken(t)) <= Cardinality(Broken(o))
  <2>1. Links(o, n) <=> (o # <<>> => FollowedBy(o[Len(o)], v))
    BY DEF Links
  <2> HIDE DEF FollowedBy
  <2> QED
    BY <1>2, <2>1, BrokenAppend
<1>5. Cardinality(Broken(t)) <= c
  BY <1>2, <1>4
<1> HIDE DEF t
<1>6. IsSeq(u) /\ Len(u) = Len(t) + 1 /\ Len(t) \in Nat /\ u[Len(u)] = d /\ u # <<>>
  <2>1. IsSeq(u) /\ Len(u) = Len(t) + 1 /\ Len(t) \in Nat /\ u[Len(t) + 1] = d
    BY <1>3, AppendSeq
  <2>2. u # <<>>
    BY <2>1
  <2> QED
    BY <2>1, <2>2
<1>7. /\ IsFiniteSet(Broken(u)) /\ Cardinality(Broken(u)) \in Nat
      /\ Cardinality(Broken(u)) <= Cardinality(Broken(t))
  <2>1. FollowedBy(t[Len(t)], d)
    BY <1>3 DEF FollowedBy, Emission
  <2> HIDE DEF FollowedBy
  <2> QED
    BY <1>3, <1>4, <2>1, BrokenAppend
<1> HIDE DEF u
<1>8. (k + 1) % 2 \in {0, 1} /\ (k + 1 # 2 => (k + 1) % 2 = k + 1)
  BY <1>1
<1>9. Links(t, (k + 1) % 2)
  <2>1. NextOf((k + 1) % 2) = (k + 1) % 2
    BY <1>8 DEF NextOf
  <2> QED
    BY <1>3, <2>1 DEF Links, FollowedBy, Emission
<1>10. k + 1 = 2 => Links(u, k + 1)
  BY <1>1, <1>6 DEF Links, FollowedBy, Emission, NextOf
<1>11. PlayedKept(t, (k + 1) % 2, c)
  BY <1>3, <1>4, <1>5, <1>8, <1>9 DEF PlayedKept
<1>12. k + 1 = 2 => PlayedKept(u, k + 1, c)
  BY <1>1, <1>5, <1>6, <1>7, <1>10, <1>4 DEF PlayedKept
<1> QED
  BY <1>8, <1>11, <1>12 DEF t, u

LEMMA PlayedStep ==
  ASSUME node \in AllTypes, node' = node, PlayedInv, [Next]_vars
  PROVE  PlayedInv'
<1> SUFFICES ASSUME node.type = "list_strings" PROVE PlayedInv'
  BY DEF PlayedInv
<1>1. /\ pc \in {"none", "loop", "ended"} /\ starts \in Nat
      /\ starts # 0 => DOMAIN mem = {"n"} /\ PlayedKept(out, mem.n, starts)
      /\ starts = 0 => NotYet
  BY DEF PlayedInv
<1>2. SourceChange
  BY <1>1, SourceNext DEF SourceRetry, Raising, SourceNames
<1>3. ASSUME pc' \in {"none", "loop", "ended"}, starts' \in Nat \ {0}, DOMAIN mem' = {"n"},
             PlayedKept(out', mem'.n, starts')
      PROVE  PlayedInv'
  BY <1>3 DEF PlayedInv, PlayedKept, Broken, Links, FollowedBy, NextOf, IsSeq
<1>4. CASE Aside
  BY <1>1, <1>3, <1>4 DEF Aside, lifeVars, PlayedInv, NotYet
<1>5. CASE Start(SourceMem, SourceLocal)
  <2>1. mem' = [n |-> 0] /\ pc' = "loop" /\ starts' = starts + 1 /\ out' = out
    BY <1>5, SourceFresh DEF Start, Enter
  <2>2. CASE starts = 0
    <3>1. out = <<>> /\ Broken(out) = {} /\ Links(out, 0)
      BY <1>1, <2>2 DEF NotYet, Broken, Links
    <3>2. PlayedKept(out, 0, 1)
      <4>1. IsFiniteSet(Broken(out)) /\ Cardinality(Broken(out)) = 0 /\ IsSeq(out)
        BY <3>1, NoneIsSeq, FS_EmptySet
      <4> HIDE DEF Broken, Links
      <4> QED
        BY <3>1, <4>1 DEF PlayedKept
    <3> QED
      BY <1>3, <2>1, <2>2, <3>2
  <2>3. CASE starts # 0
    <3>1. Cardinality(Broken(out)) \in Nat /\ IsFiniteSet(Broken(out)) /\ IsSeq(out)
      BY <1>1, <2>3, FS_CardinalityType DEF PlayedKept
    <3>2. Cardinality(Broken(out)) <= starts
      BY <1>1, <2>3, <3>1 DEF PlayedKept
    <3>3. PlayedKept(out, 0, starts + 1)
      BY <1>1, <3>1, <3>2 DEF PlayedKept
    <3> QED
      BY <1>1, <1>3, <2>1, <3>3
  <2> QED
    BY <2>2, <2>3
<1>6. CASE Resume(SourceLocal)
  BY <1>1, <1>3, <1>6 DEF Resume, Enter, dataVars, NotYet
<1>7. CASE Pause \/ Stop
  BY <1>1, <1>3, <1>7 DEF Pause, Stop, Cancel, Leave, dataVars, NotYet
<1>8. CASE SourceStep
  <2>1. ListStrings
    BY <1>1, <1>8, SourceSteps
  <2>2. pc = "loop" /\ starts' = starts /\ starts # 0
    BY <1>1, <2>1 DEF ListStrings, Turn, lifeVars, NotYet
  <2>3. DOMAIN mem = {"n"} /\ PlayedKept(out, mem.n, starts)
    BY <1>1, <2>2
  <2>4. node.opt.length \in {0, 2} /\ node.opt.loop \in BOOLEAN
    BY SourceOptions DEF SourceNames
  <2>5. CASE node.opt.length = 0
    BY <1>1, <1>3, <2>1, <2>2, <2>3, <2>5 DEF ListStrings, Turn, Becomes, Self
  <2>6. CASE node.opt.length = 2
    <3> DEFINE k == NextOf(mem.n)
               v == Emission(k, <<"out">>, "value")
               d == Emission(k, <<"out">>, "done")
    <3>1. /\ node.opt.loop => PlayedKept(Append(out, v), (k + 1) % 2, starts)
          /\ ~node.opt.loop /\ k + 1 # 2 => PlayedKept(Append(out, v), k + 1, starts)
          /\ ~node.opt.loop /\ k + 1 = 2 =>
               PlayedKept(Append(Append(out, v), d), k + 1, starts)
      BY <1>1, <2>3, <2>4, <2>6, OneString
    <3>2. CASE node.opt.loop
      BY <1>1, <1>3, <2>1, <2>2, <2>3, <2>6, <3>1, <3>2
         DEF ListStrings, Turn, Becomes, Says, Give, Self, NextOf
    <3>3. CASE ~node.opt.loop /\ k + 1 # 2
      BY <1>1, <1>3, <2>1, <2>2, <2>3, <2>6, <3>1, <3>3
         DEF ListStrings, Turn, Becomes, Says, Give, Self, NextOf
    <3>4. CASE ~node.opt.loop /\ k + 1 = 2
      BY <1>1, <1>3, <2>1, <2>2, <2>3, <2>6, <3>1, <3>4
         DEF ListStrings, Turn, Becomes, Says, Give, Ends, Self, NextOf
    <3> QED
      BY <2>4, <3>2, <3>3, <3>4
  <2> QED
    BY <2>4, <2>5, <2>6
<1> QED
  BY <1>2, <1>4, <1>5, <1>6, <1>7, <1>8 DEF SourceChange

LEMMA PlayedMeaning == ASSUME PlayedInv PROVE PlayedInFull
<1> SUFFICES ASSUME node.type = "list_strings" PROVE PlayedInFull
  BY DEF PlayedInFull
<1>1. /\ starts \in Nat
      /\ starts = 0 => out = <<>>
      /\ starts # 0 => PlayedKept(out, mem.n, starts)
  BY DEF PlayedInv, NotYet
<1>2. DOMAIN out = 1..Len(out) /\ Len(out) \in Nat
  <2>1. IsSeq(out)
    BY <1>1, NoneIsSeq DEF PlayedKept
  <2> QED
    BY <2>1 DEF IsSeq
<1>3. ASSUME NEW k \in 1..(Len(out) - 1)
      PROVE  FollowedBy(out[k], out[k + 1]) <=>
               (CASE out[k].form = "done" -> Numbers[k + 1] = 0
                  [] out[k+1].form = "done" -> Numbers[k] = Numbers[k + 1]
                  [] OTHER -> Numbers[k + 1] = (Numbers[k] + 1) % node.opt.length)
  <2>1. Numbers[k] = out[k].item /\ Numbers[k + 1] = out[k + 1].item
    BY <1>2, <1>3 DEF Numbers
  <2> QED
    BY <2>1 DEF FollowedBy
<1>4. Cardinality(Broken(out)) <= starts
  <2>1. CASE starts = 0
    <3>1. Broken(out) = {}
      BY <1>1, <2>1 DEF Broken
    <3> QED
      BY <2>1, <3>1, FS_EmptySet
  <2>2. CASE starts # 0
    <3>1. PlayedKept(out, mem.n, starts)
      BY <1>1, <2>2
    <3>2. Cardinality(Broken(out)) \in Nat
      BY <3>1, FS_CardinalityType DEF PlayedKept
    <3> QED
      BY <1>1, <3>1, <3>2 DEF PlayedKept
  <2> QED
    BY <2>1, <2>2
<1> QED
  BY <1>3, <1>4 DEF PlayedInFull, Broken

-----------------------------------------------------------------------------
(* Schedules.                                                              *)

Fired(o, m) == {k \in DOMAIN o : o[k].item = m}

\* What was fired until now, and the minute that was fired last.
CronKept(o, last, now, c) ==
  /\ IsSeq(o)
  /\ \A k \in DOMAIN o : o[k].item \in 0..now
  /\ \A j, k \in DOMAIN o : j < k => o[j].item <= o[k].item
  /\ last = <<>> \/ \E m \in 0..now : last = <<m>>
  /\ \A m \in Nat : IsFiniteSet(Fired(o, m)) /\ Cardinality(Fired(o, m)) <= c
  /\ \A m \in Nat : m >= now /\ last # <<m>> => Cardinality(Fired(o, m)) + 1 <= c

CronInv ==
  node.type = "cron" =>
    /\ pc \in {"none", "loop"}
    /\ starts \in Nat
    /\ DOMAIN pipe = {"minute"} /\ IsSeq(pipe["minute"])
    /\ IF starts = 0 THEN NotYet
       ELSE DOMAIN mem = {"last"} /\ CronKept(out, mem.last, Minutes, starts)

LEMMA CronFires ==
  ASSUME NEW o, NEW last, NEW now \in Nat, NEW c \in Nat, CronKept(o, last, now, c),
         last # <<now>>, NEW e, e.item = now
  PROVE  CronKept(Append(o, e), <<now>>, now, c)
<1> DEFINE t == Append(o, e)
<1>1. /\ IsSeq(t)
      /\ DOMAIN o = 1..Len(o) /\ Len(o) \in Nat
      /\ DOMAIN t = 1..(Len(o) + 1) /\ Len(t) = Len(o) + 1
      /\ \A k \in 1..Len(o) : t[k] = o[k]
      /\ t[Len(o) + 1] = e
  BY AppendSeq DEF CronKept
<1> HIDE DEF t
<1>2. /\ \A k \in DOMAIN o : o[k].item \in 0..now
      /\ \A j, k \in DOMAIN o : j < k => o[j].item <= o[k].item
      /\ last = <<>> \/ \E m \in 0..now : last = <<m>>
      /\ \A m \in Nat : IsFiniteSet(Fired(o, m)) /\ Cardinality(Fired(o, m)) <= c
      /\ \A m \in Nat : m >= now /\ last # <<m>> => Cardinality(Fired(o, m)) + 1 <= c
  BY DEF CronKept
<1>3. \A k \in DOMAIN t : t[k].item \in 0..now
  BY <1>1, <1>2
<1>4. ASSUME NEW j \in DOMAIN t, NEW k \in DOMAIN t, j < k PROVE t[j].item <= t[k].item
  <2>1. j \in DOMAIN o /\ (k \in DOMAIN o \/ k = Len(o) + 1)
    BY <1>1, <1>4
  <2>2. CASE k \in DOMAIN o
    BY <1>1, <1>2, <1>4, <2>1, <2>2
  <2>3. CASE k = Len(o) + 1
    BY <1>1, <1>2, <2>1, <2>3
  <2> QED
    BY <2>1, <2>2, <2>3
<1>5. ASSUME NEW m \in Nat
      PROVE  /\ IsFiniteSet(Fired(t, m)) /\ Cardinality(Fired(t, m)) <= c
             /\ m > now => Cardinality(Fired(t, m)) + 1 <= c
  <2>1. Fired(t, m) \subseteq Fired(o, m) \cup {Len(o) + 1}
    BY <1>1 DEF Fired
  <2>2. m # now => Fired(t, m) \subseteq Fired(o, m)
    BY <1>1 DEF Fired
  <2>3. IsFiniteSet(Fired(o, m)) /\ Cardinality(Fired(o, m)) <= c
    BY <1>2, <1>5
  <2>4. m >= now /\ last # <<m>> => Cardinality(Fired(o, m)) + 1 <= c
    BY <1>2, <1>5
  <2>5. m > now => last # <<m>>
    BY <1>2, <1>5
  <2> HIDE DEF Fired
  <2>6. /\ IsFiniteSet(Fired(t, m)) /\ Cardinality(Fired(t, m)) \in Nat
        /\ Cardinality(Fired(o, m)) \in Nat
        /\ Cardinality(Fired(t, m)) <= Cardinality(Fired(o, m)) + 1
        /\ m # now => Cardinality(Fired(t, m)) <= Cardinality(Fired(o, m))
    BY <2>1, <2>2, <2>3, AddedOne
  <2>7. CASE m = now
    BY <2>4, <2>6, <2>7
  <2>8. CASE m # now
    BY <1>5, <2>3, <2>4, <2>5, <2>6, <2>8
  <2> QED
    BY <2>7, <2>8
<1>6. \E m \in 0..now : <<now>> = <<m>>
  OBVIOUS
<1>7. \A m \in Nat : m >= now /\ <<now>> # <<m>> => m > now
  OBVIOUS
<1> HIDE DEF Fired
<1> QED
  BY <1>1, <1>3, <1>4, <1>5, <1>6, <1>7 DEF CronKept, t

LEMMA CronStep ==
  ASSUME node \in AllTypes, node' = node, CronInv, [Next]_vars
  PROVE  CronInv'
<1> SUFFICES ASSUME node.type = "cron" PROVE CronInv'
  BY DEF CronInv
<1>1. /\ pc \in {"none", "loop"} /\ starts \in Nat
      /\ DOMAIN pipe = {"minute"} /\ IsSeq(pipe["minute"])
      /\ starts # 0 => DOMAIN mem = {"last"} /\ CronKept(out, mem.last, Minutes, starts)
      /\ starts = 0 => NotYet
  BY DEF CronInv
<1>2. SourceChange
  BY <1>1, SourceNext DEF SourceRetry, Raising, SourceNames
<1>3. Minutes \in Nat
  BY <1>1, AppendSeq DEF Minutes
<1>4. ASSUME pc' \in {"none", "loop"}, starts' \in Nat \ {0}, pipe' = pipe, DOMAIN mem' = {"last"},
             CronKept(out', mem'.last, Minutes, starts')
      PROVE  CronInv'
  BY <1>1, <1>4 DEF CronInv, CronKept, Fired, IsSeq, Minutes
<1>5. CASE Aside
  <2>1. CASE pipe' = pipe
    <3>1. CASE starts = 0
      BY <1>1, <1>5, <2>1, <3>1 DEF Aside, lifeVars, CronInv, NotYet, IsSeq
    <3>2. CASE starts # 0
      BY <1>1, <1>4, <1>5, <2>1, <3>2 DEF Aside, lifeVars
    <3> QED
      BY <3>1, <3>2
  <2>2. ASSUME NEW p \in NodePorts, NEW ok \in BOOLEAN, Send(p, ok) PROVE CronInv'
    <3>1. NodePorts = {"minute"}
      <4>1. node.ports = <<"minute">>
        BY SourceOptions DEF SourceNames
      <4> QED
        BY <4>1 DEF NodePorts, ToSet
    <3>2. p = "minute" /\ \E e : pipe' = [pipe EXCEPT !["minute"] = Append(@, e)]
      BY <2>2, <3>1 DEF Send
    <3>3. \E e : pipe'["minute"] = Append(pipe["minute"], e) /\ DOMAIN pipe' = {"minute"}
      BY <1>1, <3>2
    <3>4. IsSeq(pipe'["minute"]) /\ Len(pipe'["minute"]) = Minutes + 1
      BY <1>1, <3>3, AppendSeq DEF Minutes
    <3>5. UNCHANGED <<pc, starts, out, mem, life>>
      BY <2>2 DEF Send, lifeVars, loopVars
    <3>6. ASSUME starts # 0 PROVE CronKept(out, mem.last, Minutes + 1, starts)
      <4>1. CronKept(out, mem.last, Minutes, starts)
        BY <1>1, <3>6
      <4>2. \A k : k \in 0..Minutes => k \in 0..(Minutes + 1)
        BY <1>3
      <4>3. \A m \in Nat : m >= Minutes + 1 => m >= Minutes
        BY <1>3
      <4> HIDE DEF Minutes
      <4> QED
        BY <4>1, <4>2, <4>3 DEF CronKept
    <3> QED
      BY <1>1, <3>3, <3>4, <3>5, <3>6 DEF CronInv, CronKept, Fired, IsSeq, Minutes, NotYet
  <2> QED
    BY <1>5, <2>1, <2>2 DEF Aside
<1>6. CASE Start(SourceMem, SourceLocal)
  <2>1. mem' = [last |-> <<>>] /\ pc' = "loop" /\ starts' = starts + 1 /\ out' = out /\ pipe' = pipe
    BY <1>6, SourceFresh DEF Start, Enter
  <2>2. CASE starts = 0
    <3>1. out = <<>> /\ \A m : Fired(out, m) = {}
      BY <1>1, <2>2 DEF NotYet, Fired
    <3>2. CronKept(out, <<>>, Minutes, 1)
      <4>1. /\ \A m : IsFiniteSet(Fired(out, m)) /\ Cardinality(Fired(out, m)) = 0
            /\ IsSeq(out) /\ DOMAIN out = {}
        BY <3>1, NoneIsSeq, FS_EmptySet
      <4> QED
        BY <4>1 DEF CronKept
    <3> QED
      BY <1>4, <2>1, <2>2, <3>2
  <2>3. CASE starts # 0
    <3>1. CronKept(out, mem.last, Minutes, starts)
      BY <1>1, <2>3
    <3>2. \A m \in Nat : Cardinality(Fired(out, m)) \in Nat
      BY <3>1, FS_CardinalityType DEF CronKept
    <3>3. \A m \in Nat : Cardinality(Fired(out, m)) <= starts
      BY <3>1 DEF CronKept
    <3>4. \A m \in Nat : /\ Cardinality(Fired(out, m)) <= starts + 1
                         /\ Cardinality(Fired(out, m)) + 1 <= starts + 1
      BY <1>1, <3>2, <3>3
    <3>5. CronKept(out, <<>>, Minutes, starts + 1)
      BY <3>1, <3>4 DEF CronKept
    <3> QED
      BY <1>1, <1>4, <2>1, <3>5
  <2> QED
    BY <2>2, <2>3
<1>7. CASE Resume(SourceLocal)
  BY <1>1, <1>4, <1>7 DEF Resume, Enter, dataVars, NotYet
<1>8. CASE Pause \/ Stop
  BY <1>1, <1>4, <1>8 DEF Pause, Stop, Cancel, Leave, dataVars, NotYet
<1>9. CASE SourceStep
  <2>1. Cron
    BY <1>1, <1>9, SourceSteps
  <2>2. pc = "loop" /\ starts' = starts /\ starts # 0 /\ pipe' = pipe
    BY <1>1, <2>1 DEF Cron, Turn, lifeVars, NotYet
  <2>3. DOMAIN mem = {"last"} /\ CronKept(out, mem.last, Minutes, starts)
    BY <1>1, <2>2
  <2>4. CASE mem.last # <<Minutes>> /\ CronMatches(node.opt)
    <3>1. /\ pc' = "loop" /\ DOMAIN mem' = {"last"} /\ mem'.last = <<Minutes>>
          /\ \E e : e.item = Minutes /\ out' = Append(out, e)
      BY <2>1, <2>2, <2>3, <2>4 DEF Cron, Turn, Becomes, Says, Give, Self, Emission
    <3>2. CronKept(out', <<Minutes>>, Minutes, starts)
      BY <1>1, <1>3, <2>3, <2>4, <3>1, CronFires
    <3> QED
      BY <1>1, <1>4, <2>2, <3>1, <3>2
  <2>5. CASE ~(mem.last # <<Minutes>> /\ CronMatches(node.opt))
    BY <1>1, <1>4, <2>1, <2>2, <2>3, <2>5 DEF Cron, Turn, Becomes, Self
  <2> QED
    BY <2>4, <2>5
<1> QED
  BY <1>2, <1>5, <1>6, <1>7, <1>8, <1>9 DEF SourceChange

LEMMA CronMeaning == ASSUME CronInv PROVE FiresOncePerMinute
<1> SUFFICES ASSUME node.type = "cron"
             PROVE  /\ \A j, k \in DOMAIN out : j < k => Numbers[j] <= Numbers[k]
                    /\ \A m \in 0..MaxItems :
                         Cardinality({k \in DOMAIN out : Numbers[k] = m}) <= starts
  BY DEF FiresOncePerMinute
<1>1. \A k \in DOMAIN out : Numbers[k] = out[k].item
  BY DEF Numbers
<1>2. \A m : {k \in DOMAIN out : Numbers[k] = m} = Fired(out, m)
  BY <1>1 DEF Fired
<1>3. CASE starts = 0
  <2>1. DOMAIN out = {} /\ \A m : Fired(out, m) = {}
    BY <1>3 DEF CronInv, NotYet, Fired
  <2> QED
    BY <1>2, <1>3, <2>1, FS_EmptySet
<1>4. CASE starts # 0
  <2>1. CronKept(out, mem.last, Minutes, starts)
    BY <1>4 DEF CronInv
  <2>2. \A m \in 0..MaxItems : m \in Nat
    BY NodeLoopAssumption
  <2> QED
    BY <1>1, <1>2, <2>1, <2>2 DEF CronKept
<1> QED
  BY <1>3, <1>4

-----------------------------------------------------------------------------
(* Files and directories.                                                  *)

ItemsOf(o) == UNION {o[k].item : k \in DOMAIN o}
Tailed == {"file_input", "json_input"}

\* What was there when the size was last taken has been emitted, or is about to.
ReadKept(l, p, o, c) ==
  p \in {"loop", "read"} =>
    /\ l \in [size : Nat, stat : Nat]
    /\ l.size <= Len(c)
    /\ p = "read" => l.stat <= Len(c)
    /\ \A k \in 1..l.size : c[k] \in ItemsOf(o)

FilesInv ==
  /\ node.type \in Tailed \cup {"directory"} =>
       /\ DOMAIN pipe = {"file"} /\ IsSeq(Content)
       /\ IsSeq(out)
  /\ node.type \in Tailed => pc \in {"none", "loop", "read"} /\ ReadKept(local, pc, out, Content)
  /\ node.type = "directory" =>
       pc \in {"none", "loop"} /\ (pc = "loop" => DOMAIN local = {"seen"} /\ local.seen \subseteq Emitted)

LEMMA ItemsGrow ==
  ASSUME NEW o, IsSeq(o), NEW e, NEW t, t = Append(o, e)
  PROVE  IsSeq(t) /\ ItemsOf(o) \subseteq ItemsOf(t) /\ e.item \subseteq ItemsOf(t)
<1>1. /\ IsSeq(t)
      /\ DOMAIN o = 1..Len(o) /\ Len(o) \in Nat
      /\ DOMAIN t = 1..(Len(o) + 1)
      /\ \A k \in 1..Len(o) : t[k] = o[k]
      /\ t[Len(o) + 1] = e
  BY AppendSeq
<1>2. DOMAIN t = DOMAIN o \cup {Len(o) + 1}
  BY <1>1
<1>3. ItemsOf(o) \subseteq ItemsOf(t)
  BY <1>1, <1>2 DEF ItemsOf
<1>4. e.item \subseteq ItemsOf(t)
  BY <1>1, <1>2 DEF ItemsOf
<1>5. QED
  BY <1>1, <1>3, <1>4

LEMMA FilesStep ==
  ASSUME node \in AllTypes, node' = node, FilesInv, [Next]_vars
  PROVE  FilesInv'
<1> SUFFICES ASSUME node.type \in Tailed \cup {"directory"} PROVE FilesInv'
  BY DEF FilesInv, Tailed
<1>1. /\ DOMAIN pipe = {"file"} /\ IsSeq(pipe["file"])
      /\ IsSeq(out)
      /\ node.type \in Tailed => pc \in {"none", "loop", "read"} /\ ReadKept(local, pc, out, pipe["file"])
      /\ node.type = "directory" =>
           pc \in {"none", "loop"} /\ (pc = "loop" => DOMAIN local = {"seen"} /\ local.seen \subseteq ItemsOf(out))
  BY DEF FilesInv, Content, Emitted, ItemsOf
<1>2. SourceChange
  BY <1>1, SourceNext DEF SourceRetry, Raising, SourceNames, Tailed
<1>3. ASSUME DOMAIN pipe' = {"file"}, IsSeq(pipe'["file"]), IsSeq(out'),
             node.type \in Tailed => pc' \in {"none", "loop", "read"} /\ ReadKept(local', pc', out', pipe'["file"]),
             node.type = "directory" =>
               pc' \in {"none", "loop"} /\ (pc' = "loop" => DOMAIN local' = {"seen"} /\ local'.seen \subseteq ItemsOf(out'))
      PROVE  FilesInv'
  BY <1>3 DEF FilesInv, Content, Emitted, ItemsOf, ReadKept, IsSeq
<1>4. CASE Aside
  <2>1. CASE pipe' = pipe
    BY <1>1, <1>3, <1>4, <2>1 DEF Aside
  <2>2. ASSUME NEW p \in NodePorts, NEW ok \in BOOLEAN, Send(p, ok) PROVE FilesInv'
    <3>1. NodePorts = {"file"}
      <4>1. node.ports = <<"file">>
        BY SourceOptions DEF SourceNames, Tailed
      <4> QED
        BY <4>1 DEF NodePorts, ToSet
    <3>2. p = "file" /\ \E e : pipe' = [pipe EXCEPT !["file"] = Append(@, e)]
      BY <2>2, <3>1 DEF Send
    <3>3. \E e : pipe'["file"] = Append(pipe["file"], e) /\ DOMAIN pipe' = {"file"}
      BY <1>1, <3>2
    <3>4. /\ IsSeq(pipe'["file"]) /\ Len(pipe["file"]) \in Nat
          /\ Len(pipe'["file"]) = Len(pipe["file"]) + 1
          /\ \A k \in 1..Len(pipe["file"]) : pipe'["file"][k] = pipe["file"][k]
      BY <1>1, <3>3, AppendSeq
    <3>5. ReadKept(local, pc, out, pipe["file"]) => ReadKept(local, pc, out, pipe'["file"])
      <4>1. ASSUME NEW n \in Nat, n <= Len(pipe["file"])
            PROVE  n <= Len(pipe'["file"]) /\ \A k \in 1..n : pipe'["file"][k] = pipe["file"][k]
        BY <3>4, <4>1
      <4>2. local \in [size : Nat, stat : Nat] => local.size \in Nat /\ local.stat \in Nat
        OBVIOUS
      <4> QED
        BY <4>1, <4>2 DEF ReadKept
    <3> QED
      BY <1>1, <1>3, <1>4, <3>3, <3>4, <3>5 DEF Aside
  <2> QED
    BY <1>4, <2>1, <2>2 DEF Aside
<1>5. ASSUME local' = SourceLocal, pc' = "loop", UNCHANGED <<pipe, out>> PROVE FilesInv'
  <2>1. node.type \in Tailed => local' = [size |-> 0, stat |-> 0]
    BY <1>5, SourceFresh DEF Tailed
  <2>2. node.type = "directory" => local' = [seen |-> {}]
    BY <1>5, SourceFresh DEF Tailed
  <2>3. node.type \in Tailed => ReadKept(local', pc', out', pipe'["file"])
    <3>1. Len(pipe["file"]) \in Nat
      BY <1>1, AppendSeq
    <3> QED
      BY <1>5, <2>1, <3>1 DEF ReadKept
  <2> QED
    BY <1>1, <1>3, <1>5, <2>2, <2>3
<1>6. CASE Start(SourceMem, SourceLocal)
  BY <1>5, <1>6 DEF Start, Enter
<1>7. CASE Resume(SourceLocal)
  BY <1>5, <1>7 DEF Resume, Enter, dataVars
<1>8. CASE Pause \/ Stop
  BY <1>1, <1>3, <1>8 DEF Pause, Stop, Cancel, Leave, dataVars, ReadKept
<1>9. CASE SourceStep
  <2>1. node.type \in Tailed => FileStat \/ FileRead
    BY <1>1, <1>9, SourceSteps DEF Tailed
  <2>2. node.type = "directory" => Directory
    BY <1>1, <1>9, SourceSteps
  <2>3. ASSUME node.type \in Tailed, FileStat PROVE FilesInv'
    <3>1. /\ pc = "loop" /\ pc' = "read" /\ local' = [local EXCEPT !.stat = Len(pipe["file"])]
          /\ UNCHANGED <<pipe, out>>
      BY <2>3 DEF FileStat, dataVars, Content
    <3>2. Len(pipe["file"]) \in Nat
      BY <1>1, AppendSeq
    <3>3. ReadKept(local', pc', out', pipe'["file"])
      BY <1>1, <2>3, <3>1, <3>2 DEF ReadKept
    <3> QED
      BY <1>1, <1>3, <2>3, <3>1, <3>3 DEF Tailed
  <2>4. ASSUME node.type \in Tailed, FileRead PROVE FilesInv'
    <3> DEFINE c == pipe["file"]
               new == {c[k] : k \in (local.size + 1)..Len(c)}
               e == Emission(new, <<"out">>, "data")
    <3>1. /\ pc = "read" /\ pc' = "loop" /\ local' = [local EXCEPT !.size = local.stat]
          /\ pipe' = pipe /\ out' = Append(out, e)
      BY <2>4 DEF FileRead, Reading, Content
    <3>2. /\ local \in [size : Nat, stat : Nat] /\ local.size <= Len(c) /\ local.stat <= Len(c)
          /\ \A k \in 1..local.size : c[k] \in ItemsOf(out)
      BY <1>1, <2>4, <3>1 DEF ReadKept
    <3>3. IsSeq(out') /\ ItemsOf(out) \subseteq ItemsOf(out') /\ new \subseteq ItemsOf(out')
      <4>1. e.item = new
        BY DEF Emission
      <4> HIDE DEF e
      <4> QED
        BY <1>1, <3>1, <4>1, ItemsGrow
    <3>4. ASSUME NEW k \in 1..local.stat PROVE c[k] \in ItemsOf(out')
      <4>1. CASE k <= local.size
        BY <3>2, <3>3, <3>4, <4>1
      <4>2. CASE ~(k <= local.size)
        <5>1. Len(c) \in Nat /\ local.size \in Nat /\ local.stat \in Nat
          BY <1>1, <3>2, AppendSeq
        <5>2. k \in (local.size + 1)..Len(c)
          BY <3>2, <3>4, <4>2, <5>1
        <5> QED
          BY <3>3, <5>2
      <4> QED
        BY <4>1, <4>2
    <3>5. ReadKept(local', pc', out', pipe'["file"])
      BY <3>1, <3>2, <3>4 DEF ReadKept
    <3> QED
      BY <1>1, <1>3, <2>4, <3>1, <3>3, <3>5 DEF Tailed
  <2>5. ASSUME node.type = "directory", Directory PROVE FilesInv'
    <3>1. PICK new : /\ pc = "loop" /\ pc' = "loop" /\ pipe' = pipe
                     /\ local' = [local EXCEPT !.seen = @ \cup new]
                     /\ out' = Append(out, Emission(new, <<"out">>, "data"))
      BY <2>5 DEF Directory, Turn, Becomes, Says, Give, Self
    <3>2. IsSeq(out') /\ ItemsOf(out) \subseteq ItemsOf(out') /\ new \subseteq ItemsOf(out')
      <4> DEFINE e == Emission(new, <<"out">>, "data")
      <4>1. e.item = new /\ out' = Append(out, e)
        BY <3>1 DEF Emission
      <4> HIDE DEF e
      <4> QED
        BY <1>1, <4>1, ItemsGrow
    <3> QED
      BY <1>1, <1>3, <2>5, <3>1, <3>2 DEF Tailed
  <2> QED
    BY <2>1, <2>2, <2>3, <2>4, <2>5
<1> QED
  BY <1>2, <1>4, <1>6, <1>7, <1>8, <1>9 DEF SourceChange

\* The emissions that begin the file c anew.
BegunAt(o, c) == {k \in DOMAIN o : c[1] \in o[k].item}

\* A process that has emitted nothing yet, and one that is still to come, will
\* begin the file once more.
Past(l, c) ==
  IF node.type = "directory" THEN c # <<>> /\ c[1] \in l.seen ELSE l.size > 0
Due(lf, l, c) == IF lf = "stopped" \/ (lf = "running" /\ Past(l, c)) THEN 0 ELSE 1

LEMMA DueStays ==
  ASSUME NEW a, NEW b, a = 0, b = 0, NEW d \in {0, 1}, NEW e \in {0, 1}, d = 1 \/ d = e,
         NEW m \in Nat, NEW n \in Nat, a + d <= m + n
  PROVE  b + e <= m + n
OBVIOUS

\* The lines are numbered as they were sent.
LinesRead(c) == IsSeq(c) /\ Len(c) = sent /\ \A k \in DOMAIN c : c[k].n = k

BegunKept(lf, p, l, o, c, n) ==
  /\ IsSeq(o) /\ (c = <<>> => o = <<>>)
  /\ \/ lf \in {"stopped", "paused"} /\ p = "none"
     \/ lf = "running" /\ p \in {"loop", "read"}
  /\ p # "none" /\ node.type \in Tailed => l \in [size : Nat, stat : Nat]
  /\ p # "none" /\ node.type = "directory" => DOMAIN l = {"seen"}
  /\ p = "read" => node.type \in Tailed /\ l.stat > l.size /\ l.stat <= Len(c)
  /\ IsFiniteSet(BegunAt(o, c))
  /\ Cardinality(BegunAt(o, c)) + Due(lf, l, c) <= n

BegunInv ==
  node.type \in Files =>
    /\ DOMAIN pipe = {"file"} /\ LinesRead(Content)
    /\ starts \in Nat /\ cuts \in Nat
    /\ BegunKept(life, pc, local, out, Content, starts + cuts)

\* What a task that begins, or goes on, has begun.
LEMMA BegunAgain ==
  ASSUME NEW lf, NEW p, NEW l, NEW o, NEW c, NEW n \in Nat, BegunKept(lf, p, l, o, c, n),
         NEW lf2, NEW p2, NEW l2, NEW n2 \in Nat,
         (lf2 \in {"stopped", "paused"} /\ p2 = "none") \/ (lf2 = "running" /\ p2 = "loop"),
         p2 = "loop" /\ node.type \in Tailed => l2 \in [size : Nat, stat : Nat],
         p2 = "loop" /\ node.type = "directory" => DOMAIN l2 = {"seen"},
         n2 = n + 1 \/ (n2 = n /\ lf # "stopped" /\ ~(lf = "running" /\ Past(l, c)))
  PROVE  BegunKept(lf2, p2, l2, o, c, n2)
<1>1. /\ IsSeq(o) /\ (c = <<>> => o = <<>>) /\ IsFiniteSet(BegunAt(o, c))
      /\ Cardinality(BegunAt(o, c)) + Due(lf, l, c) <= n
  BY DEF BegunKept
<1>2. Cardinality(BegunAt(o, c)) \in Nat
  BY <1>1, FS_CardinalityType
<1>3. Due(lf, l, c) \in {0, 1} /\ Due(lf2, l2, c) \in {0, 1}
  BY DEF Due
<1>4. n2 = n => Due(lf, l, c) = 1
  BY DEF Due
<1>5. Cardinality(BegunAt(o, c)) + Due(lf2, l2, c) <= n2
  BY <1>1, <1>2, <1>3, <1>4
<1> QED
  BY <1>1, <1>5 DEF BegunKept

\* A turn emits lines or entries: with the first of them, it begins.
LEMMA BegunEmits ==
  ASSUME NEW p, NEW l, NEW o, NEW c, NEW n \in Nat, BegunKept("running", p, l, o, c, n),
         NEW e, NEW l2, c # <<>>,
         node.type \in Tailed => l2 \in [size : Nat, stat : Nat],
         node.type = "directory" => DOMAIN l2 = {"seen"},
         Past(l2, c), Past(l, c) => c[1] \notin e.item
  PROVE  BegunKept("running", "loop", l2, Append(o, e), c, n)
<1> DEFINE t == Append(o, e)
<1>1. /\ IsSeq(o) /\ IsFiniteSet(BegunAt(o, c))
      /\ Cardinality(BegunAt(o, c)) + Due("running", l, c) <= n
  BY DEF BegunKept
<1>2. /\ IsSeq(t)
      /\ DOMAIN o = 1..Len(o) /\ Len(o) \in Nat
      /\ DOMAIN t = 1..(Len(o) + 1)
      /\ \A k \in 1..Len(o) : t[k] = o[k]
      /\ t[Len(o) + 1] = e
  BY <1>1, AppendSeq
<1> HIDE DEF t
<1>3. /\ BegunAt(t, c) \subseteq BegunAt(o, c) \cup {Len(o) + 1}
      /\ c[1] \notin e.item => BegunAt(t, c) \subseteq BegunAt(o, c)
  BY <1>2 DEF BegunAt
<1> DEFINE S == BegunAt(o, c)
           T == BegunAt(t, c)
<1>4. IsFiniteSet(S) /\ T \subseteq S \cup {Len(o) + 1} /\ (c[1] \notin e.item => T \subseteq S)
  BY <1>1, <1>3
<1>5. Cardinality(S) + Due("running", l, c) <= n
  BY <1>1
<1> HIDE DEF S, T
<1>6. /\ IsFiniteSet(T) /\ Cardinality(T) \in Nat /\ Cardinality(S) \in Nat
      /\ Cardinality(T) <= Cardinality(S) + 1
      /\ T \subseteq S => Cardinality(T) <= Cardinality(S)
  BY <1>4, AddedOne
<1>7. Due("running", l2, c) = 0 /\ Due("running", l, c) = IF Past(l, c) THEN 0 ELSE 1
  BY DEF Due
<1>8. Cardinality(T) <= n
  BY <1>4, <1>5, <1>6, <1>7
<1>9. Cardinality(T) + Due("running", l2, c) <= n
  BY <1>6, <1>7, <1>8
<1> QED
  BY <1>2, <1>6, <1>9 DEF BegunKept, T, t

LEMMA BegunStep ==
  ASSUME node \in AllTypes, node' = node, BegunInv, [Next]_vars
  PROVE  BegunInv'
<1> SUFFICES ASSUME node.type \in Files PROVE BegunInv'
  BY DEF BegunInv
<1>1. /\ DOMAIN pipe = {"file"} /\ LinesRead(Content)
      /\ starts \in Nat /\ cuts \in Nat /\ starts + cuts \in Nat
      /\ BegunKept(life, pc, local, out, Content, starts + cuts)
  BY DEF BegunInv
<1>2. /\ (life \in {"stopped", "paused"} /\ pc = "none")
         \/ (life = "running" /\ pc \in {"loop", "read"})
      /\ pc \in {"none", "loop", "read"}
      /\ pc # "none" /\ node.type \in Tailed => local \in [size : Nat, stat : Nat]
      /\ pc # "none" /\ node.type = "directory" => DOMAIN local = {"seen"}
      /\ pc = "read" => node.type \in Tailed /\ local.stat > local.size /\ local.stat <= Len(Content)
      /\ IsSeq(out) /\ (Content = <<>> => out = <<>>)
  BY <1>1 DEF BegunKept
<1>3. SourceChange
  BY <1>2, SourceNext DEF SourceRetry, Raising, SourceNames, Files
<1>4. ASSUME DOMAIN pipe' = {"file"}, LinesRead(Content)', starts' \in Nat, cuts' \in Nat,
             BegunKept(life', pc', local', out', Content', starts' + cuts')
      PROVE  BegunInv'
  <2>1. \A lf, p, l, o, c, n : BegunKept(lf, p, l, o, c, n)' <=> BegunKept(lf, p, l, o, c, n)
    BY DEF BegunKept, BegunAt, Due, Past, IsSeq
  <2> QED
    BY <1>4, <2>1 DEF BegunInv, BegunKept, BegunAt, Due, Past
<1>5. ASSUME pipe' = pipe, sent' = sent PROVE DOMAIN pipe' = {"file"} /\ LinesRead(Content)' /\ Content' = Content
  BY <1>1, <1>5 DEF LinesRead, Content, IsSeq
<1>6. SourceLocal \in [size : Nat, stat : Nat] \/ node.type \notin Tailed
  BY SourceFresh DEF Tailed
<1>7. node.type = "directory" => DOMAIN SourceLocal = {"seen"}
  BY SourceFresh
<1>8. CASE Aside
  <2>1. UNCHANGED <<lifeVars, pc, local, out>>
    BY <1>8 DEF Aside
  <2>2. CASE pipe' = pipe /\ sent' = sent
    BY <1>1, <1>4, <1>5, <2>1, <2>2 DEF lifeVars
  <2>3. ASSUME NEW p \in NodePorts, NEW ok \in BOOLEAN, Send(p, ok) PROVE BegunInv'
    <3>1. NodePorts = {"file"}
      <4>1. node.ports = <<"file">>
        BY SourceOptions DEF SourceNames, Files
      <4> QED
        BY <4>1 DEF NodePorts, ToSet
    <3> DEFINE e == [port |-> p, n |-> sent + 1, ok |-> ok]
    <3>2. e.n = sent + 1 /\ pipe' = [pipe EXCEPT !["file"] = Append(@, e)] /\ sent' = sent + 1
      BY <2>3, <3>1 DEF Send
    <3> HIDE DEF e
    <3>3. Content' = Append(Content, e) /\ DOMAIN pipe' = {"file"}
      BY <1>1, <3>2 DEF Content
    <3>4. IsSeq(Content) /\ Len(Content) = sent /\ \A k \in DOMAIN Content : Content[k].n = k
      BY <1>1 DEF LinesRead
    <3>5. /\ IsSeq(Content') /\ DOMAIN Content = 1..sent /\ sent \in Nat
          /\ DOMAIN Content' = 1..(sent + 1) /\ Len(Content') = sent + 1
          /\ \A k \in 1..sent : Content'[k] = Content[k]
          /\ Content'[sent + 1] = e
      BY <3>3, <3>4, AppendSeq
    <3>6. LinesRead(Content)'
      <4>1. \A k \in 1..(sent + 1) : k \in 1..sent \/ k = sent + 1
        BY <3>5
      <4>2. \A k \in DOMAIN Content' : Content'[k].n = k
        BY <3>2, <3>4, <3>5, <4>1
      <4> QED
        BY <3>2, <3>5, <4>2 DEF LinesRead, IsSeq
    <3>7. Content' # <<>>
      BY <3>5
    <3>8. CASE Content = <<>>
      <4>1. out = <<>> /\ BegunAt(out, Content) = {} /\ BegunAt(out, Content') = {}
        BY <1>2, <3>8 DEF BegunAt
      <4>2. Due(life, local, Content) = 1 \/ Due(life, local, Content) = Due(life, local, Content')
        <5>1. CASE node.type = "directory"
          BY <3>8, <5>1 DEF Due, Past
        <5>2. CASE node.type # "directory"
          BY <5>2 DEF Due, Past
        <5> QED
          BY <5>1, <5>2
      <4>3. Due(life, local, Content') \in {0, 1}
        BY DEF Due
      <4>4. Cardinality({}) = 0 /\ IsFiniteSet({})
        BY FS_EmptySet
      <4>5. Cardinality(BegunAt(out, Content)) + Due(life, local, Content) <= starts + cuts
        BY <1>1 DEF BegunKept
      <4>6. Cardinality(BegunAt(out, Content')) + Due(life, local, Content') <= starts + cuts
        <5>1. Cardinality(BegunAt(out, Content)) = 0 /\ Cardinality(BegunAt(out, Content')) = 0
          BY <4>1, <4>4, Zenon
        <5>2. Due(life, local, Content) \in {0, 1}
          BY DEF Due
        <5> QED
          BY <1>1, <4>2, <4>3, <4>5, <5>1, <5>2, DueStays
      <4>7. local.stat <= Len(Content) /\ local.stat \in Nat => local.stat <= Len(Content')
        BY <3>4, <3>5
      <4>8. pc = "read" => local.stat \in Nat
        BY <1>2
      <4>9. BegunKept(life, pc, local, out, Content', starts + cuts)
        BY <1>2, <3>7, <4>1, <4>4, <4>6, <4>7, <4>8 DEF BegunKept
      <4> QED
        BY <1>1, <1>4, <2>1, <3>3, <3>6, <4>9 DEF lifeVars
    <3>9. CASE Content # <<>>
      <4>1. Content'[1] = Content[1]
        <5>1. sent # 0
          <6>1. Len(Content) # 0
            BY <3>4, <3>9 DEF IsSeq
          <6> QED
            BY <3>4, <6>1
        <5> QED
          BY <3>5, <5>1
      <4>2. /\ BegunAt(out, Content') = BegunAt(out, Content)
            /\ Due(life, local, Content') = Due(life, local, Content)
        BY <3>7, <3>9, <4>1 DEF BegunAt, Due, Past
      <4>3. local.stat <= Len(Content) /\ local.stat \in Nat => local.stat <= Len(Content')
        BY <3>4, <3>5
      <4>4. pc = "read" => local.stat \in Nat
        BY <1>2
      <4>5. BegunKept(life, pc, local, out, Content', starts + cuts)
        BY <1>1, <3>7, <4>2, <4>3, <4>4 DEF BegunKept
      <4> QED
        BY <1>1, <1>4, <2>1, <3>3, <3>6, <4>5 DEF lifeVars
    <3> QED
      BY <3>8, <3>9
  <2>4. \/ pipe' = pipe /\ sent' = sent
        \/ \E p \in NodePorts, ok \in BOOLEAN : Send(p, ok)
    BY <1>8 DEF Aside, Wake, Wire, envVars, dataVars
  <2> QED
    BY <2>2, <2>3, <2>4
<1>9. CASE Start(SourceMem, SourceLocal)
  <2>1. /\ life = "stopped" /\ life' = "running" /\ pc' = "loop" /\ local' = SourceLocal
        /\ starts' = starts + 1 /\ cuts' = cuts /\ pipe' = pipe /\ out' = out /\ sent' = sent
    BY <1>9 DEF Start, Enter, envVars
  <2>2. /\ starts + cuts \in Nat /\ starts + 1 + cuts \in Nat /\ starts + 1 \in Nat
        /\ starts + 1 + cuts = (starts + cuts) + 1
    BY <1>1
  <2>3. BegunKept("running", "loop", SourceLocal, out, Content, starts + 1 + cuts)
    BY <1>1, <1>6, <1>7, <2>2, BegunAgain
  <2> QED
    BY <1>1, <1>4, <1>5, <2>1, <2>2, <2>3
<1>10. CASE Resume(SourceLocal)
  <2>1. /\ life = "paused" /\ life' = "running" /\ pc' = "loop" /\ local' = SourceLocal
        /\ starts' = starts /\ cuts' = cuts /\ pipe' = pipe /\ out' = out /\ sent' = sent
    BY <1>10 DEF Resume, Enter, envVars, dataVars
  <2>2. BegunKept("running", "loop", SourceLocal, out, Content, starts + cuts)
    BY <1>1, <1>6, <1>7, <2>1, BegunAgain
  <2> QED
    BY <1>1, <1>4, <1>5, <2>1, <2>2
<1>11. CASE Pause \/ Stop
  <2>1. /\ life' \in {"stopped", "paused"} /\ pc' = "none"
        /\ starts' = starts /\ cuts' = cuts + 1 /\ pipe' = pipe /\ out' = out /\ sent' = sent
    BY <1>11 DEF Pause, Stop, Cancel, Leave, envVars, dataVars
  <2>2. /\ starts + (cuts + 1) \in Nat /\ cuts + 1 \in Nat
        /\ starts + (cuts + 1) = (starts + cuts) + 1
    BY <1>1
  <2>3. BegunKept(life', "none", local', out, Content, starts + (cuts + 1))
    BY <1>1, <2>1, <2>2, BegunAgain
  <2> QED
    BY <1>1, <1>4, <1>5, <2>1, <2>2, <2>3
<1>12. CASE SourceStep
  <2>1. node.type \in Tailed => FileStat \/ FileRead
    BY <1>2, <1>12, SourceSteps DEF Tailed
  <2>2. node.type = "directory" => Directory
    BY <1>2, <1>12, SourceSteps DEF Tailed
  <2>3. IsSeq(Content) /\ Len(Content) \in Nat /\ DOMAIN Content = 1..Len(Content)
        /\ \A k \in DOMAIN Content : Content[k].n = k
    BY <1>1, AppendSeq DEF LinesRead
  <2>4. ASSUME node.type \in Tailed, FileStat PROVE BegunInv'
    <3>1. /\ pc = "loop" /\ pc' = "read" /\ local' = [local EXCEPT !.stat = Len(Content)]
          /\ UNCHANGED <<pipe, out, lifeVars, sent>> /\ Len(Content) > local.size
      BY <2>4 DEF FileStat, dataVars, envVars
    <3>2. local \in [size : Nat, stat : Nat]
      BY <1>2, <2>4, <3>1
    <3>3. /\ local' \in [size : Nat, stat : Nat] /\ local'.size = local.size
          /\ local'.stat = Len(Content)
      BY <2>3, <3>1, <3>2
    <3>4. Due(life, local', Content) = Due(life, local, Content)
      BY <2>4, <3>3 DEF Due, Past, Tailed
    <3>5. local'.stat > local'.size /\ local'.stat <= Len(Content)
      BY <2>3, <3>1, <3>3
    <3>6. BegunKept(life, "read", local', out, Content, starts + cuts)
      BY <1>1, <1>2, <2>4, <3>1, <3>3, <3>4, <3>5 DEF BegunKept, Tailed
    <3> QED
      BY <1>1, <1>4, <1>5, <3>1, <3>6 DEF lifeVars
  <2>5. ASSUME node.type \in Tailed, FileRead PROVE BegunInv'
    <3> DEFINE new == {Content[k] : k \in (local.size + 1)..Len(Content)}
    <3>1. /\ pc = "read" /\ pc' = "loop" /\ local' = [local EXCEPT !.size = local.stat]
          /\ UNCHANGED <<pipe, lifeVars, sent>> /\ out' = Append(out, Emission(new, <<"out">>, "data"))
      BY <2>5 DEF FileRead, Reading, envVars
    <3>2. /\ local \in [size : Nat, stat : Nat] /\ local.stat > local.size
          /\ local.stat <= Len(Content) /\ life = "running"
      BY <1>2, <2>5, <3>1
    <3>3. /\ local' \in [size : Nat, stat : Nat] /\ local'.size > 0
      BY <3>1, <3>2
    <3>4. Past(local', Content) /\ (Past(local, Content) <=> local.size > 0)
      BY <2>5, <3>3 DEF Past, Tailed
    <3>5. Content # <<>>
      <4>1. Len(Content) # 0
        BY <2>3, <3>2
      <4> QED
        BY <4>1
    <3>6. Past(local, Content) => Content[1] \notin new
      <4> SUFFICES ASSUME local.size > 0, NEW k \in (local.size + 1)..Len(Content),
                          Content[k] = Content[1]
                   PROVE  FALSE
        BY <3>4
      <4>1. k \in DOMAIN Content /\ 1 \in DOMAIN Content /\ k # 1
        BY <2>3, <3>2
      <4> QED
        BY <2>3, <4>1
    <3>7. Emission(new, <<"out">>, "data").item = new
      BY DEF Emission
    <3> HIDE DEF new
    <3>8. BegunKept("running", pc, local, out, Content, starts + cuts)
      BY <1>1, <3>2
    <3>9. BegunKept("running", "loop", local', out', Content, starts + cuts)
      BY <1>1, <2>5, <3>1, <3>3, <3>4, <3>5, <3>6, <3>7, <3>8, BegunEmits DEF Tailed
    <3> QED
      BY <1>1, <1>4, <1>5, <3>1, <3>2, <3>9 DEF lifeVars
  <2>6. ASSUME node.type = "directory", Directory PROVE BegunInv'
    <3> DEFINE new == ToSet(Content) \ local.seen
    <3>1. /\ pc = "loop" /\ pc' = "loop" /\ local' = [local EXCEPT !.seen = @ \cup new]
          /\ UNCHANGED <<pipe, lifeVars, sent>> /\ out' = Append(out, Emission(new, <<"out">>, "data"))
          /\ new # {}
      BY <2>6 DEF Directory, Turn, Becomes, Says, Give, Self, envVars
    <3>2. DOMAIN local = {"seen"} /\ life = "running"
      BY <1>2, <2>6, <3>1
    <3>3. DOMAIN local' = {"seen"} /\ local'.seen = local.seen \cup new
      BY <3>1, <3>2
    <3>4. Content # <<>> /\ Content[1] \in ToSet(Content)
      <4>1. PICK k \in DOMAIN Content : TRUE
        BY <3>1 DEF ToSet
      <4>2. Len(Content) # 0 /\ 1 \in DOMAIN Content
        BY <2>3, <4>1
      <4> QED
        BY <4>2 DEF ToSet
    <3>5. Past(local', Content) /\ (Past(local, Content) => Content[1] \notin new)
      BY <2>6, <3>3, <3>4 DEF Past
    <3>7. Emission(new, <<"out">>, "data").item = new
      BY DEF Emission
    <3> HIDE DEF new
    <3>8. BegunKept("running", pc, local, out, Content, starts + cuts)
      BY <1>1, <3>2
    <3>9. BegunKept("running", "loop", local', out', Content, starts + cuts)
      BY <1>1, <2>6, <3>1, <3>3, <3>4, <3>5, <3>7, <3>8, BegunEmits DEF Tailed
    <3> QED
      BY <1>1, <1>4, <1>5, <3>1, <3>2, <3>9 DEF lifeVars
  <2>7. node.type \in Tailed \/ node.type = "directory"
    BY DEF Files, Tailed
  <2> QED
    BY <2>1, <2>2, <2>4, <2>5, <2>6, <2>7
<1> QED
  BY <1>3, <1>8, <1>9, <1>10, <1>11, <1>12 DEF SourceChange

LEMMA FilesMeaning == ASSUME FilesInv, BegunInv PROVE NothingSkipped
<1>1. node.type \in Files => Cardinality(Beginnings) <= starts + cuts
  <2> SUFFICES ASSUME node.type \in Files PROVE Cardinality(Beginnings) <= starts + cuts
    OBVIOUS
  <2>1. BegunKept(life, pc, local, out, Content, starts + cuts) /\ starts + cuts \in Nat
    BY DEF BegunInv
  <2>2. Beginnings = BegunAt(out, Content)
    BY DEF Beginnings, BegunAt
  <2>3. Cardinality(BegunAt(out, Content)) \in Nat /\ Due(life, local, Content) \in {0, 1}
    BY <2>1, FS_CardinalityType DEF BegunKept, Due
  <2>4. Cardinality(BegunAt(out, Content)) + Due(life, local, Content) <= starts + cuts
    BY <2>1 DEF BegunKept
  <2> QED
    BY <2>1, <2>2, <2>3, <2>4
<1> QED
  BY <1>1 DEF FilesInv, NothingSkipped, ReadKept, Emitted, ItemsOf, Tailed, Files

-----------------------------------------------------------------------------
(* Pulses.                                                                 *)

RoundsOf(o) == {k \in DOMAIN o : o[k].to = <<"out">>}

\* How many pulses a trigger that has sent n may still send.
PulsesLeft(n, p) == IF n < 2 THEN 2 - n ELSE IF p = "ended" THEN 0 ELSE 1

PulseInv ==
  node.type = "pulse" /\ node.opt.count = 2 =>
    /\ pc \in {"none", "loop", "trigger", "ended", "failed"}
    /\ starts \in Nat /\ cuts \in Nat
    /\ life # "running" => pc = "none"
    /\ IF starts = 0 THEN NotYet
       ELSE /\ DOMAIN mem = {"n"} /\ mem.n \in Nat
            /\ IsSeq(out) /\ IsFiniteSet(RoundsOf(out))
            /\ pc = "trigger" =>
                 DOMAIN local = {"item", "action", "left"} /\ local.left \in Seq({"c"})
            /\ Cardinality(RoundsOf(out)) + PulsesLeft(mem.n, pc) <= 2 * starts + cuts

LEMMA RoundsGrow ==
  ASSUME NEW o, IsSeq(o), IsFiniteSet(RoundsOf(o)), NEW e, NEW t, t = Append(o, e)
  PROVE  /\ IsSeq(t)
         /\ IsFiniteSet(RoundsOf(t))
         /\ Cardinality(RoundsOf(t)) \in Nat /\ Cardinality(RoundsOf(o)) \in Nat
         /\ Cardinality(RoundsOf(t)) <= Cardinality(RoundsOf(o)) + 1
         /\ e.to # <<"out">> => RoundsOf(t) = RoundsOf(o)
         /\ e.to = <<"out">> => RoundsOf(t) = RoundsOf(o) \cup {Len(t)}
         /\ Len(t) \in Nat /\ Len(t) = Len(o) + 1 /\ Len(t) \notin RoundsOf(o)
<1>1. /\ IsSeq(t)
      /\ DOMAIN o = 1..Len(o) /\ Len(o) \in Nat
      /\ DOMAIN t = 1..(Len(o) + 1) /\ Len(t) = Len(o) + 1
      /\ \A k \in 1..Len(o) : t[k] = o[k]
      /\ t[Len(o) + 1] = e
  BY AppendSeq
<1>2. DOMAIN t = DOMAIN o \cup {Len(t)} /\ Len(t) \notin DOMAIN o
  BY <1>1
<1>3. e.to # <<"out">> => RoundsOf(t) = RoundsOf(o)
  BY <1>1, <1>2 DEF RoundsOf
<1>4. e.to = <<"out">> => RoundsOf(t) = RoundsOf(o) \cup {Len(t)}
  BY <1>1, <1>2 DEF RoundsOf
<1>5. Len(t) \notin RoundsOf(o)
  BY <1>2 DEF RoundsOf
<1>6. RoundsOf(t) \subseteq RoundsOf(o) \cup {Len(t)}
  BY <1>3, <1>4
<1> HIDE DEF RoundsOf
<1>7. /\ IsFiniteSet(RoundsOf(t)) /\ Cardinality(RoundsOf(t)) \in Nat
      /\ Cardinality(RoundsOf(o)) \in Nat
      /\ Cardinality(RoundsOf(t)) <= Cardinality(RoundsOf(o)) + 1
  BY <1>6, AddedOne
<1> QED
  BY <1>1, <1>3, <1>4, <1>5, <1>7

LEMMA PulseStep ==
  ASSUME node \in AllTypes, node' = node, PulseInv, [Next]_vars
  PROVE  PulseInv'
<1> SUFFICES ASSUME node.type = "pulse", node.opt.count = 2 PROVE PulseInv'
  BY DEF PulseInv
<1> DEFINE Card(o) == Cardinality(RoundsOf(o))
<1>1. /\ pc \in {"none", "loop", "trigger", "ended", "failed"}
      /\ starts \in Nat /\ cuts \in Nat
      /\ life # "running" => pc = "none"
      /\ starts = 0 => NotYet
      /\ starts # 0 =>
           /\ DOMAIN mem = {"n"} /\ mem.n \in Nat
           /\ IsSeq(out) /\ IsFiniteSet(RoundsOf(out))
           /\ pc = "trigger" =>
                DOMAIN local = {"item", "action", "left"} /\ local.left \in Seq({"c"})
           /\ Card(out) + PulsesLeft(mem.n, pc) <= 2 * starts + cuts
  BY DEF PulseInv
<1>2. SourceChange \/ Retry(SourceMem, SourceLocal)
  BY <1>1, SourceNext DEF SourceNames, SourceRetry
<1>3. ASSUME pc' \in {"none", "loop", "trigger", "ended", "failed"}, starts' \in Nat \ {0}, cuts' \in Nat,
             life' # "running" => pc' = "none",
             DOMAIN mem' = {"n"}, mem'.n \in Nat,
             IsSeq(out'), IsFiniteSet(RoundsOf(out')),
             pc' = "trigger" => DOMAIN local' = {"item", "action", "left"} /\ local'.left \in Seq({"c"}),
             Card(out') + PulsesLeft(mem'.n, pc') <= 2 * starts' + cuts'
      PROVE  PulseInv'
  BY <1>3 DEF PulseInv, IsSeq, RoundsOf, PulsesLeft
<1>4. starts # 0 => Card(out) \in Nat
  BY <1>1, FS_CardinalityType
<1>5. CASE Aside
  BY <1>1, <1>3, <1>5 DEF Aside, lifeVars, PulseInv, NotYet
<1>6. CASE Start(SourceMem, SourceLocal) \/ Retry(SourceMem, SourceLocal)
  <2>1. /\ mem' = [n |-> 0] /\ pc' = "loop" /\ starts' = starts + 1 /\ out' = out
        /\ cuts' \in {cuts, cuts + 1} /\ life' = "running"
    BY <1>1, <1>6, SourceFresh DEF Start, Retry, Enter
  <2>2. /\ IsSeq(out) /\ IsFiniteSet(RoundsOf(out)) /\ Card(out) \in Nat
        /\ Card(out) <= 2 * starts + cuts
    <3>1. CASE starts = 0
      <4>1. out = <<>> /\ RoundsOf(out) = {}
        BY <1>1, <3>1 DEF NotYet, RoundsOf
      <4>2. IsFiniteSet(RoundsOf(out)) /\ Card(out) = 0 /\ IsSeq(out)
        BY <4>1, NoneIsSeq, FS_EmptySet
      <4>3. 0 <= 2 * starts + cuts
        BY <1>1
      <4> QED
        BY <4>2, <4>3
    <3>2. CASE starts # 0
      BY <1>1, <1>4, <3>2 DEF PulsesLeft
    <3> QED
      BY <3>1, <3>2
  <2>3. Card(out) + 2 <= 2 * (starts + 1) + cuts' /\ cuts' \in Nat
    BY <1>1, <2>1, <2>2
  <2>4. PulsesLeft(0, "loop") = 2
    BY DEF PulsesLeft
  <2> QED
    BY <1>1, <1>3, <2>1, <2>2, <2>3, <2>4
<1>7. CASE Resume(SourceLocal)
  <2>1. /\ pc' = "loop" /\ UNCHANGED <<mem, out, starts, cuts>> /\ starts # 0
        /\ life # "running" /\ life' = "running"
    BY <1>1, <1>7 DEF Resume, Enter, dataVars, NotYet
  <2>2. pc # "ended" => PulsesLeft(mem.n, "loop") = PulsesLeft(mem.n, pc)
    BY DEF PulsesLeft
  <2>3. pc # "ended"
    BY <1>1, <2>1
  <2> QED
    BY <1>1, <1>3, <2>1, <2>2, <2>3
<1>8. CASE Pause \/ Stop
  <2>1. /\ pc' = "none" /\ UNCHANGED <<mem, out, starts>> /\ starts # 0 /\ cuts' = cuts + 1
    BY <1>1, <1>8 DEF Pause, Stop, Cancel, Leave, dataVars, NotYet
  <2>2. PulsesLeft(mem.n, "none") <= PulsesLeft(mem.n, pc) + 1 /\ PulsesLeft(mem.n, pc) \in Nat
        /\ PulsesLeft(mem.n, "none") \in Nat
    BY <1>1, <2>1 DEF PulsesLeft
  <2>3. Card(out) + PulsesLeft(mem.n, "none") <= 2 * starts + (cuts + 1)
    BY <1>1, <1>4, <2>1, <2>2
  <2> QED
    BY <1>1, <1>3, <2>1, <2>3
<1>9. CASE SourceStep
  <2>1. Pulse \/ TellTarget \/ TargetFails \/ PulseDone
    BY <1>1, <1>9, SourceSteps
  <2>2. starts' = starts /\ cuts' = cuts /\ starts # 0 /\ life = "running" /\ life' = life
    BY <1>1, <2>1
       DEF Pulse, Turn, TellTarget, TargetFails, PulseDone, Again, lifeVars, NotYet
  <2>3. CASE Pulse
    <3>1. /\ pc = "loop" /\ pc' = "trigger" /\ UNCHANGED <<mem, out>>
          /\ local' = [item |-> mem.n, action |-> "start", left |-> Targets]
      BY <2>3 DEF Pulse, Turn, Becomes, Fires, Self
    <3>2. Targets = <<"c">>
      BY SourceOptions DEF SourceNames, Targets
    <3>3. PulsesLeft(mem.n, "trigger") = PulsesLeft(mem.n, "loop")
      BY DEF PulsesLeft
    <3> QED
      BY <1>1, <1>3, <2>2, <3>1, <3>2, <3>3
  <2>4. CASE TellTarget
    <3>1. /\ pc = "trigger" /\ pc' = "trigger" /\ mem' = mem
          /\ local' = [local EXCEPT !.left = Tail(@)] /\ local.left # <<>>
          /\ out' = out \/ \E e : e.to = <<Head(local.left)>> /\ out' = Append(out, e)
      BY <2>4 DEF TellTarget, Emission
    <3>2. DOMAIN local = {"item", "action", "left"} /\ local.left \in Seq({"c"})
      BY <1>1, <2>2, <3>1
    <3>3. Head(local.left) = "c" /\ Tail(local.left) \in Seq({"c"})
      BY <3>1, <3>2
    <3>4. DOMAIN local' = {"item", "action", "left"} /\ local'.left \in Seq({"c"})
      BY <3>1, <3>2, <3>3
    <3>5. IsSeq(out') /\ RoundsOf(out') = RoundsOf(out)
      <4>1. CASE out' = out
        BY <1>1, <2>2, <4>1
      <4>2. ASSUME NEW e, e.to = <<Head(local.left)>>, out' = Append(out, e)
            PROVE  IsSeq(out') /\ RoundsOf(out') = RoundsOf(out)
        <5>1. e.to # <<"out">>
          BY <3>3, <4>2
        <5> QED
          BY <1>1, <2>2, <4>2, <5>1, RoundsGrow
      <4> QED
        BY <3>1, <4>1, <4>2
    <3> QED
      BY <1>1, <1>3, <2>2, <3>1, <3>4, <3>5
  <2>5. CASE TargetFails
    <3>1. pc = "trigger" /\ pc' = "failed" /\ UNCHANGED <<mem, out>>
      BY <2>5 DEF TargetFails, dataVars
    <3>2. PulsesLeft(mem.n, "failed") = PulsesLeft(mem.n, "trigger")
      BY DEF PulsesLeft
    <3> QED
      BY <1>1, <1>3, <2>2, <3>1, <3>2
  <2>6. CASE PulseDone
    <3>1. /\ pc = "trigger"
          /\ \E e : out' = Append(out, e)
          /\ mem' = [mem EXCEPT !.n = mem.n + 1]
          /\ pc' = IF mem.n + 1 >= 2 THEN "ended" ELSE "loop"
      BY <2>6 DEF PulseDone, Becomes, Again, Enter, Self
    <3>2. /\ IsSeq(out') /\ IsFiniteSet(RoundsOf(out')) /\ Card(out') \in Nat /\ Card(out) \in Nat
          /\ Card(out') <= Card(out) + 1
      <4>1. PICK e : out' = Append(out, e)
        BY <3>1
      <4> QED
        BY <1>1, <2>2, <4>1, RoundsGrow
    <3>3. DOMAIN mem' = {"n"} /\ mem'.n = mem.n + 1
      BY <1>1, <2>2, <3>1
    <3>4. /\ PulsesLeft(mem.n + 1, pc') + 1 <= PulsesLeft(mem.n, "trigger")
          /\ PulsesLeft(mem.n + 1, pc') \in Nat /\ PulsesLeft(mem.n, "trigger") \in Nat
      BY <1>1, <2>2, <3>1 DEF PulsesLeft
    <3>5. Card(out') + PulsesLeft(mem.n + 1, pc') <= 2 * starts + cuts
      BY <1>1, <2>2, <3>1, <3>2, <3>4
    <3>6. pc' \in {"loop", "ended"}
      BY <3>1
    <3> QED
      BY <1>1, <1>3, <2>2, <3>2, <3>3, <3>5, <3>6
  <2> QED
    BY <2>1, <2>3, <2>4, <2>5, <2>6
<1> QED
  BY <1>2, <1>5, <1>6, <1>7, <1>8, <1>9 DEF SourceChange

LEMMA PulseMeaning == ASSUME PulseInv, node \in AllTypes PROVE PulsesBounded
<1> SUFFICES ASSUME node.type = "pulse", node.opt.count > 0
             PROVE  Cardinality(Rounds) <= starts * node.opt.count + cuts
  BY DEF PulsesBounded
<1>1. node.opt.count = 2
  BY SourceOptions DEF SourceNames
<1>2. Rounds = RoundsOf(out) /\ starts \in Nat /\ cuts \in Nat
  BY <1>1 DEF Rounds, RoundsOf, PulseInv
<1>3. CASE starts = 0
  <2>1. RoundsOf(out) = {}
    BY <1>1, <1>3 DEF PulseInv, NotYet, RoundsOf
  <2> QED
    BY <1>1, <1>2, <1>3, <2>1, FS_EmptySet
<1>4. CASE starts # 0
  <2>1. /\ Cardinality(RoundsOf(out)) + PulsesLeft(mem.n, pc) <= 2 * starts + cuts
        /\ mem.n \in Nat /\ Cardinality(RoundsOf(out)) \in Nat
    BY <1>1, <1>4, FS_CardinalityType DEF PulseInv
  <2>2. PulsesLeft(mem.n, pc) \in Nat
    BY <2>1 DEF PulsesLeft
  <2>3. Cardinality(RoundsOf(out)) <= 2 * starts + cuts
    BY <1>2, <2>1, <2>2
  <2>4. starts * node.opt.count = 2 * starts
    BY <1>1, <1>2
  <2> QED
    BY <1>2, <2>3, <2>4
<1> QED
  BY <1>3, <1>4

-----------------------------------------------------------------------------
(* The round robin.                                                        *)

Count == node.opt.count
RobinQuiet == UNCHANGED <<node, life, starts, pc, mem, out, got, base>>

\* What it holds and gave, for the n items since its counter was set.
Dealt(m, o, n) ==
  /\ DOMAIN m = {"next"}
  /\ m.next = n % Count
  /\ n > 0 => o # <<>> /\ o[Len(o)].to = <<Outs[((n - 1) % Count) + 1]>>

RobinInv ==
  node.type = "round_robin" =>
    /\ starts \in Nat
    /\ base \in Nat /\ base <= Len(got)
    /\ IF starts = 0 THEN NotYet /\ got = <<>> ELSE Dealt(mem, out, Len(got) - base)

LEMMA RobinNode ==
  ASSUME node \in AllTypes, node.type = "round_robin"
  PROVE  /\ Plain /\ Relays /\ node \in StreamTypes
         /\ node \notin BufferTypes /\ node \notin DeviceTypes /\ node \notin WebTypes
         /\ node \notin SourceTypes
         /\ node.opt.count \in {1, 2, 3}
         /\ FreshMem = [next |-> 0] /\ StreamMem = [next |-> 0] /\ FreshLocal = <<>>
<1>1. Plain /\ node.type \in StreamNames
  BY DEF Plain, StreamNames
<1>2. /\ node \in StreamTypes
      /\ node \notin BufferTypes /\ node \notin DeviceTypes /\ node \notin WebTypes
      /\ node \notin SourceTypes
  BY <1>1, Families
     DEF StreamNames, LogicNames, BufferNames, SourceNames, DeviceNames, OutputNames, InputNames
<1>3. node.opt.count \in {1, 2, 3}
  BY <1>2 DEF StreamTypes, StreamType
<1> QED
  BY <1>1, <1>2, <1>3 DEF FreshMem, FreshLocal, StreamMem, Relays

LEMMA RobinNext ==
  ASSUME LoopTyped, node.type = "round_robin", [Next]_vars
  PROVE  \/ RobinQuiet
         \/ Start(StreamMem, <<>>) \/ Resume(<<>>) \/ Pause \/ Stop \/ Reset(StreamMem)
         \/ RoundRobin
<1>1. CASE UNCHANGED vars
  BY <1>1 DEF vars, lifeVars, loopVars, dataVars, RobinQuiet
<1> SUFFICES ASSUME Next
             PROVE  \/ RobinQuiet
                    \/ Start(StreamMem, <<>>) \/ Resume(<<>>) \/ Pause \/ Stop \/ Reset(StreamMem)
                    \/ RoundRobin
  BY <1>1
<1>2. node \in AllTypes /\ Len(pass) \in Nat /\ pc \in {"none", "loop"} /\ Plain
  BY RobinNode DEF LoopTyped
<1>3. CASE Others
  <2>1. \E p \in NodePorts : Wire(p) \/ \E ok \in BOOLEAN : Send(p, ok)
    BY <1>2, <1>3, RobinNode, Zenon DEF Others, NodePorts
  <2> QED
    BY <2>1 DEF Wire, Send, lifeVars, loopVars, dataVars, RobinQuiet
<1>4. CASE Control
  <2>1. ASSUME NEW next, Cut(next) PROVE Pause \/ Stop
    BY <1>2, <2>1, RobinNode, Zenon DEF Cut
  <2>2. node.type \notin Raising
    BY DEF Raising
  <2> QED
    BY <1>2, <1>4, <2>1, <2>2, RobinNode, Zenon DEF Control
<1>5. CASE Process
  <2>1. CASE Wake
    BY <2>1 DEF Wake, lifeVars, dataVars, RobinQuiet
  <2>2. CASE StreamStep
    BY <2>2, <1>2
       DEF StreamStep, RunScript, Transform, JSONExtract, Math, EncodingConvert, Template, Not, TrimString,
           HTMLScraper, Display, LogOutput, JSONModify, JSONOutput, Base64Encode, Base64Decode,
           Script, ScriptedOutput, Grep, Tokenizer, Compare, Fork, Merge, LedActivity,
           SplitByValue, FileOutput, OnOut, Each
  <2>3. ~WebStep
    BY <1>2, WebPolls DEF OutputNames
  <2>4. ~BufferStep
    BY OnlyBuffers DEF BufferNames, LogicNames
  <2> QED
    BY <1>2, <1>5, <2>1, <2>2, <2>3, <2>4, NoSourceStep, NoDeviceStep DEF Process
<1> QED
  BY <1>3, <1>4, <1>5 DEF Next

LEMMA NextTurnOf ==
  ASSUME NEW n \in Nat, NEW c \in {1, 2, 3}
  PROVE  /\ ((n % c) + 1) % c = (n + 1) % c /\ n % c \in 0..2
<1>1. CASE c = 1
  BY <1>1
<1>2. CASE c = 2
  BY <1>2
<1>3. CASE c = 3
  BY <1>3
<1> QED
  BY <1>1, <1>2, <1>3

LEMMA RobinStep ==
  ASSUME LoopTyped, LoopTyped', node' = node, RobinInv, [Next]_vars
  PROVE  RobinInv'
<1> SUFFICES ASSUME node.type = "round_robin" PROVE RobinInv'
  BY DEF RobinInv
<1>1. /\ Plain /\ Count \in {1, 2, 3} /\ StreamMem = [next |-> 0] /\ 0 % Count = 0
      /\ node \in AllTypes
  BY RobinNode DEF LoopTyped, Count
<1>2. got \in Seq(Item) /\ IsSeq(out) /\ Len(got) \in Nat /\ Len(pass) \in Nat
  BY <1>1 DEF LoopTyped
<1>3. /\ starts \in Nat /\ base \in Nat /\ base <= Len(got)
      /\ starts = 0 => NotYet /\ got = <<>>
      /\ starts # 0 => Dealt(mem, out, Len(got) - base)
  BY DEF RobinInv
<1>4. /\ Len(got) - base \in Nat
      /\ Len(got) - Len(got) = 0
      /\ node.type' = node.type
  BY <1>2, <1>3
<1>5. Dealt([next |-> 0], out, 0)
  BY <1>1 DEF Dealt
<1>6. ASSUME starts' \in Nat \ {0}, base' \in Nat, base' <= Len(got'),
             Dealt(mem', out', Len(got') - base')
      PROVE  RobinInv'
  BY <1>6 DEF RobinInv, Dealt, Count
<1>7. CASE RobinQuiet
  BY <1>3, <1>7 DEF RobinQuiet, RobinInv, NotYet, Dealt, Count
<1>8. CASE Start(StreamMem, <<>>)
  <2>1. mem' = [next |-> 0] /\ out' = out /\ got' = got /\ base' = Len(got) /\ starts' = starts + 1
    BY <1>1, <1>8 DEF Start
  <2> QED
    BY <1>2, <1>3, <1>4, <1>5, <1>6, <2>1
<1>9. CASE Resume(<<>>) \/ Pause \/ Stop
  <2>1. UNCHANGED <<mem, out, got, base, starts>> /\ starts # 0
    BY <1>3, <1>9 DEF Resume, Pause, Stop, Cancel, dataVars, NotYet
  <2> QED
    BY <1>3, <1>6, <2>1
<1>10. CASE Reset(StreamMem)
  <2>1. /\ mem' = [next |-> 0] /\ out' = out /\ got' = got /\ base' = Len(got) /\ starts' = starts
        /\ starts # 0
    BY <1>1, <1>3, <1>10 DEF Reset, NotYet
  <2> QED
    BY <1>2, <1>3, <1>4, <1>5, <1>6, <2>1
<1>11. CASE RoundRobin
  <2>1. /\ starts' = starts /\ base' = base /\ pc = "loop"
        /\ \/ UNCHANGED <<mem, out, got>>
           \/ /\ \E i : got' = Append(got, i)
              /\ \E e : e.to = <<Outs[mem.next + 1]>> /\ out' = Append(out, e)
              /\ mem' = [mem EXCEPT !.next = (@ + 1) % Count]
    BY <1>11, <1>2 DEF RoundRobin, Each, Poll, Becomes, Self, Give, Emission, lifeVars, Count
  <2>2. starts # 0
    BY <1>3, <2>1 DEF NotYet
  <2>3. CASE UNCHANGED <<mem, out, got>>
    BY <1>3, <1>6, <2>1, <2>2, <2>3
  <2>4. ASSUME NEW i, got' = Append(got, i),
               NEW e, e.to = <<Outs[mem.next + 1]>>, out' = Append(out, e),
               mem' = [mem EXCEPT !.next = (@ + 1) % Count]
        PROVE  RobinInv'
    <3> DEFINE n == Len(got) - base
    <3>1. n \in Nat /\ DOMAIN mem = {"next"} /\ mem.next = n % Count
      BY <1>3, <1>4, <2>2 DEF Dealt
    <3>2. Len(got') = Len(got) + 1
      <4>1. IsSeq(got)
        BY <1>2 DEF IsSeq, ToSet
      <4> QED
        BY <4>1, <2>4, AppendSeq
    <3>3. Len(got') - base' = n + 1 /\ base' <= Len(got')
      BY <1>2, <1>3, <2>1, <3>2
    <3>4. out' # <<>> /\ out'[Len(out')].to = <<Outs[(n % Count) + 1]>>
      BY <1>2, <2>4, <3>1, AppendSeq
    <3>5. DOMAIN mem' = {"next"} /\ mem'.next = ((n % Count) + 1) % Count
      BY <2>4, <3>1
    <3> HIDE DEF n
    <3>6. ((n % Count) + 1) % Count = (n + 1) % Count
      BY <1>1, <3>1, NextTurnOf
    <3>7. (n + 1) - 1 = n
      BY <3>1
    <3>8. Dealt(mem', out', n + 1)
      BY <3>4, <3>5, <3>6, <3>7 DEF Dealt
    <3> QED
      BY <1>3, <1>6, <2>1, <2>2, <3>3, <3>8
  <2> QED
    BY <2>1, <2>3, <2>4
<1> QED
  BY <1>7, <1>8, <1>9, <1>10, <1>11, RobinNext

LEMMA RobinMeaning == ASSUME LoopTyped, RobinInv PROVE TakesTurns
<1> SUFFICES ASSUME node.type = "round_robin", Fresh # <<>>
             PROVE  Last(out).to = <<Outs[((Len(Fresh) - 1) % node.opt.count) + 1]>>
  BY DEF TakesTurns
<1>1. got \in Seq(Item) /\ base \in Nat /\ base <= Len(got)
  BY RobinNode DEF LoopTyped, RobinInv
<1>2. Len(Fresh) = Len(got) - base /\ Len(Fresh) > 0
  BY <1>1 DEF Fresh
<1>3. starts # 0
  BY <1>1, <1>2 DEF RobinInv
<1> QED
  BY <1>2, <1>3 DEF RobinInv, Dealt, Last, Count

-----------------------------------------------------------------------------
(* What goes on after a pause.                                             *)

GoesInv ==
  /\ LoopTyped /\ CountInv /\ PlayedInv /\ CronInv
  /\ FilesInv /\ BegunInv /\ PulseInv /\ RobinInv

LEMMA GoesInit == ASSUME NodeInit PROVE GoesInv
<1>1. /\ NotYet /\ cuts = 0 /\ starts = 0 /\ base = 0 /\ got = <<>> /\ Len(got) = 0
      /\ life = "stopped" /\ pc = "none" /\ out = <<>> /\ mem = <<>> /\ local = <<>> /\ sent = 0
  BY DEF NodeInit, Init, NotYet
<1>2. LoopTyped
  BY LoopInit
<1>3. CountInv /\ PlayedInv /\ PulseInv /\ RobinInv
  BY <1>1 DEF CountInv, PlayedInv, PulseInv, RobinInv
<1>4. \A p \in NodePorts : pipe[p] = <<>>
  BY DEF NodeInit, Init, NodePorts
<1>5. CronInv
  <2> SUFFICES ASSUME node.type = "cron" PROVE DOMAIN pipe = {"minute"} /\ pipe["minute"] = <<>>
    BY <1>1, NoneIsSeq DEF CronInv
  <2>1. NodePorts = {"minute"}
    BY <1>2, SourceOptions DEF LoopTyped, SourceNames, NodePorts, ToSet
  <2> QED
    BY <1>4, <2>1 DEF NodeInit, Init, NodePorts
<1>6. FilesInv
  <2> SUFFICES ASSUME node.type \in Tailed \cup {"directory"}
               PROVE  DOMAIN pipe = {"file"} /\ pipe["file"] = <<>>
    BY <1>1, NoneIsSeq DEF FilesInv, ReadKept, Content
  <2>1. NodePorts = {"file"}
    BY <1>2, SourceOptions DEF LoopTyped, SourceNames, NodePorts, ToSet, Tailed
  <2> QED
    BY <1>4, <2>1 DEF NodeInit, Init, NodePorts
<1>7. BegunInv
  <2> SUFFICES ASSUME node.type \in Files
               PROVE  /\ DOMAIN pipe = {"file"} /\ LinesRead(Content)
                      /\ BegunKept(life, pc, local, out, Content, starts + cuts)
    BY <1>1 DEF BegunInv
  <2>1. NodePorts = {"file"}
    BY <1>2, SourceOptions DEF LoopTyped, SourceNames, NodePorts, ToSet, Files
  <2>2. DOMAIN pipe = {"file"} /\ Content = <<>>
    BY <1>4, <2>1 DEF NodeInit, Init, NodePorts, Content
  <2>3. BegunAt(out, Content) = {} /\ Cardinality({}) = 0 /\ IsFiniteSet({})
    BY <1>1, FS_EmptySet DEF BegunAt
  <2>4. Due(life, local, Content) = 0 /\ Len(<<>>) = 0
    BY <1>1 DEF Due
  <2>5. LinesRead(Content)
    BY <1>1, <2>2, <2>4, NoneIsSeq DEF LinesRead
  <2>6. Cardinality(BegunAt(out, Content)) + Due(life, local, Content) <= starts + cuts
    BY <1>1, <2>3, <2>4
  <2>7. BegunKept(life, pc, local, out, Content, starts + cuts)
    BY <1>1, <2>3, <2>6, NoneIsSeq DEF BegunKept
  <2> QED
    BY <2>2, <2>5, <2>7
<1> QED
  BY <1>2, <1>3, <1>5, <1>6, <1>7 DEF GoesInv

LEMMA GoesStep == ASSUME GoesInv, [Next]_vars PROVE GoesInv'
<1>1. node \in AllTypes /\ LoopTyped /\ LoopTyped'
  BY LoopStep DEF GoesInv, LoopTyped
<1>2. node' = node
  BY NextStays DEF GoesInv, vars, Stays
<1> QED
  BY <1>1, <1>2, CountStep, PlayedStep, CronStep, FilesStep, BegunStep, PulseStep, RobinStep, Zenon
     DEF GoesInv

\* A node that is paused, resumed, stopped, restarted or reset at any moment
\* goes on where it was: the timers and the generator count on, the strings
\* are played in full, cron fires once per minute, a pulse tells its targets
\* no more often than its count allows, and the round robin skips and repeats
\* no output.  Of a file or a directory nothing is skipped, but each process
\* begins it again: it is read from its beginning at most once for each init()
\* and each cut.  For any number of items, calls and emissions.
THEOREM GoesOnAlways == Spec => []GoesOn
<1>1. NodeInit => GoesInv
  BY GoesInit
<1>2. GoesInv /\ [Next]_vars => GoesInv'
  BY GoesStep
<1>3. GoesInv => GoesOn
  BY CountMeaning, PlayedMeaning, CronMeaning, FilesMeaning, PulseMeaning, RobinMeaning
     DEF GoesInv, GoesOn, LoopTyped
<1> QED
  BY <1>1, <1>2, <1>3, PTL DEF Spec
-----------------------------------------------------------------------------
(* What triggers tell.                                                     *)

LEMMA TriggerNode ==
  ASSUME node \in AllTypes, node.type \in ItemTriggers
  PROVE  /\ node.type \in SourceNames
         /\ NodePorts = {"in"} /\ node.polls = "first"
         /\ wired \in Seq({"in"}) => Polled \in Seq({"in"}) /\ NextTurn = Polled
         /\ Targets \in {<<"a", "b">>, <<"c">>}
         /\ node.type = "threshold" => node.opt.threshold \in {1, 2} /\ node.opt.resets \in BOOLEAN
<1>1. node.type \in SourceNames
  BY DEF ItemTriggers, SourceNames
<1>2. node \in SourceTypes
  BY <1>1, Families
<1>3. node.ports = <<"in">> /\ node.polls = "first"
  BY <1>2 DEF SourceTypes, SourceType, ItemTriggers
<1>4. Targets \in {<<"a", "b">>, <<"c">>}
  <2>1. /\ node.opt.graph \in {<<"a", "b">>, <<>>}
        /\ node.opt.own = <<"c">>
    BY <1>2 DEF SourceTypes, SourceType, ItemTriggers
  <2> QED
    BY <2>1 DEF Targets
<1>5. node.type = "threshold" => node.opt.threshold \in {1, 2} /\ node.opt.resets \in BOOLEAN
  BY <1>2 DEF SourceTypes, SourceType
<1>6. wired \in Seq({"in"}) => Polled \in Seq({"in"}) /\ NextTurn = Polled
  <2>1. wired # <<>> /\ wired \in Seq({"in"}) => <<Head(wired)>> \in Seq({"in"})
    OBVIOUS
  <2> QED
    BY <1>3, <2>1 DEF Polled, NextTurn
<1> QED
  BY <1>1, <1>3, <1>4, <1>5, <1>6 DEF NodePorts, ToSet

\* The number of the last item that was read.
Low(g) == IF g = <<>> THEN 0 ELSE g[Len(g)].n

\* What a trigger keeps.
Kept(m) ==
  /\ node.type = "threshold" => DOMAIN m = {"n"} /\ m.n \in Nat
  /\ node.type = "trigger_toggle" => DOMAIN m = {"on"} /\ m.on \in BOOLEAN
  /\ node.type = "debounce" =>
       /\ DOMAIN m = {"timers", "current", "deaf"}
       /\ \A t \in m.timers : DOMAIN t = {"id", "left", "asleep"} /\ t.left # <<>>

\* The items that wait are newer, and in order.
TriggerTyped ==
  node.type \in ItemTriggers =>
    /\ wired \in Seq({"in"}) /\ turn \in Seq({"in"}) /\ pass \in Seq({"in"})
    /\ pipe \in [{"in"} -> Seq(Item)] /\ got \in Seq(Item)
    /\ sent \in 0..MaxItems /\ Low(got) <= sent
    /\ \A k \in DOMAIN pipe["in"] :
         /\ Low(got) < pipe["in"][k].n /\ pipe["in"][k].n <= sent
         /\ \A j \in DOMAIN pipe["in"] : j < k => pipe["in"][j].n < pipe["in"][k].n
    /\ pc \in {"none", "loop", "delay", "trigger", "failed"}
    /\ life # "running" => pc = "none"
    /\ pc \in {"delay", "trigger"} => DOMAIN local = {"item", "action", "left"}
    /\ starts \in Nat /\ cuts \in Nat
    /\ IF starts = 0 THEN NotYet ELSE Kept(mem)

\* A debounce that takes item i: of its latest timer those in deaf go on.
CurrentTimer(m) == {t \in m.timers : t.id = m.current}
WithTimer(m, i, deaf) ==
  [m EXCEPT !.timers = (@ \ CurrentTimer(m)) \cup deaf \cup {TimerOf(i)},
            !.current = i.n,
            !.deaf = @ + Cardinality(deaf)]

Begins(i, a) ==
  /\ pc' \in {"trigger", "delay"}
  /\ local' = [item |-> i, action |-> a, left |-> Targets]
  /\ out' = out

\* What a trigger does with an item.
TakesIn(i) ==
  /\ node.type \in {"trigger", "trigger_on"} => Begins(i, "start")
  /\ node.type = "trigger_if" =>
       \/ Begins(i, "start")
       \/ UNCHANGED <<pc, local>> /\ out' = Append(out, Emission(i, <<"out">>, "skip"))
  /\ node.type = "trigger_toggle" =>
       /\ Begins(i, IF mem.on THEN "stop" ELSE "start")
       /\ pc' = "trigger" /\ mem' = [mem EXCEPT !.on = ~@]
  /\ node.type = "threshold" =>
       /\ mem' = [mem EXCEPT !.n = @ + 1]
       /\ IF mem.n + 1 >= node.opt.threshold
          THEN Begins(i, "start") /\ pc' = "trigger"
          ELSE UNCHANGED <<pc, local, out>>
  /\ node.type = "debounce" =>
       /\ UNCHANGED <<pc, local, out>>
       /\ \E deaf \in SUBSET CurrentTimer(mem) : mem' = WithTimer(mem, i, deaf)

ReadsIn ==
  /\ pc = "loop"
  /\ UNCHANGED <<node, envVars, lifeVars, base>>
  /\ turn' \in Seq({"in"}) /\ pass' \in Seq({"in"})
  /\ \/ UNCHANGED <<pc, local, mem, out, pipe, got>>
     \/ /\ pipe["in"] # <<>>
        /\ pipe' = [pipe EXCEPT !["in"] = Tail(@)]
        /\ got' = Append(got, Head(pipe["in"]))
        /\ TakesIn(Head(pipe["in"]))

TriggerStep ==
  \/ ReadsIn
  \/ Delay \/ TellTarget \/ TargetFails \/ TriggerDone
  \/ \E t \in Timers : DelayedTrigger(t)

LEMMA TriggerSteps ==
  ASSUME node \in AllTypes, node.type \in ItemTriggers, TriggerTyped, SourceStep
  PROVE  TriggerStep
<1>1. /\ turn \in Seq({"in"}) /\ pass \in Seq({"in"})
      /\ pc \in {"none", "loop", "delay", "trigger", "failed"}
      /\ NextTurn \in Seq({"in"}) /\ <<>> \in Seq({"in"})
      /\ Tail(pass) \in Seq({"in"}) \/ pass = <<>>
      /\ pass # <<>> => Head(pass) = "in"
      /\ pc # "none" /\ node.type = "threshold" => DOMAIN mem = {"n"}
  BY TriggerNode DEF TriggerTyped, Kept, NotYet
<1>2. ASSUME Trigger \/ TriggerOn PROVE ReadsIn
  BY <1>1, <1>2 DEF Trigger, TriggerOn, Poll, Self, Becomes, ReadsIn, TakesIn, Begins, Fires
<1>3. ASSUME TriggerIf PROVE ReadsIn
  BY <1>1, <1>3 DEF TriggerIf, Poll, Self, Becomes, ReadsIn, TakesIn, Begins, Fires, Says, Give
<1>4. ASSUME TriggerToggle PROVE ReadsIn
  BY <1>1, <1>4 DEF TriggerToggle, Poll, Self, Becomes, ReadsIn, TakesIn, Begins, Fires
<1>5. ASSUME Threshold PROVE ReadsIn
  BY <1>1, <1>5 DEF Threshold, Poll, Self, Becomes, ReadsIn, TakesIn, Begins, Fires
<1>6. ASSUME Debounce PROVE ReadsIn
  <2>1. PICK swallowed \in BOOLEAN :
          Poll(LAMBDA s, p, i : DebounceTake(s, i, swallowed), LAMBDA s : s)
    BY <1>6 DEF Debounce
  <2>2. node.type = "debounce" /\ pc = "loop"
    BY <1>6, <2>1 DEF Debounce, Poll
  <2> DEFINE i == Head(pipe["in"])
             deaf == {t \in CurrentTimer(mem) : swallowed /\ ~t.asleep}
  <2>3. /\ UNCHANGED <<node, envVars, lifeVars, base>>
        /\ turn' \in Seq({"in"}) /\ pass' \in Seq({"in"})
    BY <1>1, <2>1 DEF Poll, Becomes
  <2>4. \/ UNCHANGED <<pc, local, mem, out, pipe, got>>
        \/ /\ pipe["in"] # <<>>
           /\ pipe' = [pipe EXCEPT !["in"] = Tail(@)]
           /\ got' = Append(got, i)
           /\ UNCHANGED <<pc, local, out>>
           /\ mem' = DebounceTake(Self, i, swallowed).mem
    BY <1>1, <2>1 DEF Poll, Self, Becomes, DebounceTake
  <2>5. DebounceTake(Self, i, swallowed).mem = WithTimer(mem, i, deaf)
    BY DEF DebounceTake, Self, WithTimer, CurrentTimer
  <2>6. deaf \in SUBSET CurrentTimer(mem)
    OBVIOUS
  <2> HIDE DEF deaf
  <2> QED
    BY <2>2, <2>3, <2>4, <2>5, <2>6 DEF ReadsIn, TakesIn, ItemTriggers
<1>7. ~(Timer \/ Clock \/ Generator \/ Constant \/ ListStrings \/ UrlInput \/ Cron)
  BY DEF Timer, Clock, Generator, Constant, ListStrings, UrlInput, Cron, Turn, ItemTriggers
<1>8. ~(FileStat \/ FileRead \/ Directory \/ TimerTrigger \/ Pulse \/ PulseDone)
  BY <1>1 DEF FileStat, FileRead, Reading, Directory, TimerTrigger, Pulse, PulseDone, Turn,
              ItemTriggers
<1> QED
  BY <1>2, <1>3, <1>4, <1>5, <1>6, <1>7, <1>8, Zenon DEF TriggerStep, SourceStep

LEMMA ReadTyped ==
  ASSUME node \in AllTypes, node.type \in ItemTriggers, TriggerTyped, pipe["in"] # <<>>
  PROVE  /\ Head(pipe["in"]) \in Item /\ Head(pipe["in"]).n \in 1..MaxItems
         /\ Low(got) \in Nat /\ Low(got) < Head(pipe["in"]).n
<1>1. pipe["in"] \in Seq(Item) /\ got \in Seq(Item)
  BY DEF TriggerTyped
<1>2. Head(pipe["in"]) \in Item /\ Head(pipe["in"]) = pipe["in"][1] /\ 1 \in DOMAIN pipe["in"]
  BY <1>1
<1>3. \A i \in Item : i.n \in 1..MaxItems
  BY DEF Item
<1>4. Low(got) \in Nat
  <2>1. got # <<>> => got[Len(got)] \in Item
    BY <1>1
  <2> QED
    BY <1>3, <2>1, NodeLoopAssumption DEF Low
<1> QED
  BY <1>2, <1>3, <1>4 DEF TriggerTyped

\* Whatever others do, what waits stays in order.
LEMMA TypedAside ==
  ASSUME node \in AllTypes, node.type \in ItemTriggers, node' = node, TriggerTyped, Aside
  PROVE  TriggerTyped'
<1>1. /\ NodePorts = {"in"} /\ Item' = Item /\ NodePorts' = NodePorts /\ Polled \in Seq({"in"})
  BY TriggerNode DEF TriggerTyped, NodePorts, Item
<1>2. \A i \in Item : i.n \in Nat
  BY NodeLoopAssumption DEF Item
<1>3. /\ UNCHANGED <<life, starts, cuts, pc, local, mem, out, got>>
  BY DEF Aside, lifeVars
<1>4. ASSUME wired' \in Seq({"in"}), turn' \in Seq({"in"}), pass' \in Seq({"in"}),
             pipe' \in [{"in"} -> Seq(Item)], sent' \in 0..MaxItems, Low(got) <= sent',
             \A k \in DOMAIN pipe'["in"] :
               /\ Low(got) < pipe'["in"][k].n /\ pipe'["in"][k].n <= sent'
               /\ \A j \in DOMAIN pipe'["in"] : j < k => pipe'["in"][j].n < pipe'["in"][k].n
      PROVE  TriggerTyped'
  BY <1>1, <1>3, <1>4 DEF TriggerTyped, Kept, NotYet, Low
<1>5. CASE UNCHANGED <<envVars, turn, pass, pipe>>
  BY <1>4, <1>5 DEF TriggerTyped, envVars
<1>6. CASE Wake
  BY <1>1, <1>4, <1>6 DEF TriggerTyped, Wake, envVars, dataVars
<1>7. ASSUME Wire("in") PROVE TriggerTyped'
  <2>1. wired' \in Seq({"in"})
    <3>1. node.polls = "first"
      BY TriggerNode
    <3>2. wired' = Append(wired, "in")
      BY <1>7, <3>1, Zenon DEF Wire
    <3>3. wired \in Seq({"in"})
      BY DEF TriggerTyped
    <3> QED
      BY <3>2, <3>3
  <2> QED
    BY <1>4, <1>7, <2>1 DEF TriggerTyped, Wire, loopVars, dataVars
<1>8. ASSUME NEW ok \in BOOLEAN, Send("in", ok) PROVE TriggerTyped'
  <2> DEFINE i == [port |-> "in", n |-> sent + 1, ok |-> ok]
             s == pipe["in"]
             t == Append(s, i)
  <2>1. /\ pipe' = [pipe EXCEPT !["in"] = t] /\ sent' = sent + 1 /\ sent' \in 0..MaxItems
        /\ UNCHANGED <<wired, turn, pass>> /\ pipe'["in"] = t
    BY <1>8, NodeLoopAssumption DEF Send, loopVars, TriggerTyped
  <2>2. i \in Item /\ i.n = sent + 1 /\ s \in Seq(Item)
    BY <1>1, <1>8, NodeLoopAssumption DEF Send, TriggerTyped, Item
  <2> HIDE DEF i
  <2>3. /\ t \in Seq(Item) /\ DOMAIN t = 1..(Len(s) + 1) /\ DOMAIN s = 1..Len(s)
        /\ Len(s) \in Nat /\ t[Len(s) + 1] = i /\ \A k \in 1..Len(s) : t[k] = s[k]
    BY <2>2
  <2>4. \A k \in 1..Len(s) : s[k].n \in Nat
    <3>1. \A k \in 1..Len(s) : s[k] \in Item
      BY <2>2, <2>3
    <3> QED
      BY <1>2, <3>1
  <2>5. Low(got) \in Int /\ sent \in Int /\ Low(got) <= sent
    <3>1. got # <<>> => got[Len(got)].n \in Nat
      <4>1. got \in Seq(Item)
        BY DEF TriggerTyped
      <4>2. got # <<>> => got[Len(got)] \in Item
        BY <4>1
      <4> QED
        BY <1>2, <4>2
    <3> QED
      BY <3>1 DEF TriggerTyped, Low
  <2>6. \A k \in 1..Len(s) : Low(got) < s[k].n /\ s[k].n <= sent
    BY <2>3 DEF TriggerTyped
  <2>7. \A j, k \in 1..Len(s) : j < k => s[j].n < s[k].n
    BY <2>3 DEF TriggerTyped
  <2> HIDE DEF t, s
  <2>8. \A k \in DOMAIN t :
          /\ Low(got) < t[k].n /\ t[k].n <= sent + 1
          /\ \A j \in DOMAIN t : j < k => t[j].n < t[k].n
    BY <2>2, <2>3, <2>4, <2>5, <2>6, <2>7
  <2>9. pipe' \in [{"in"} -> Seq(Item)]
    BY <2>1, <2>3 DEF TriggerTyped
  <2> QED
    BY <1>4, <2>1, <2>5, <2>8, <2>9 DEF TriggerTyped
<1> QED
  BY <1>1, <1>5, <1>6, <1>7, <1>8 DEF Aside

\* What a step of the node's own makes of its pipe.
LEMMA TailOrdered ==
  ASSUME NEW S, \A i \in S : i.n \in Nat, NEW s \in Seq(S), s # <<>>, NEW b \in Nat,
         \A k \in DOMAIN s :
           s[k].n <= b /\ \A j \in DOMAIN s : j < k => s[j].n < s[k].n
  PROVE  /\ Tail(s) \in Seq(S)
         /\ \A k \in DOMAIN Tail(s) :
              /\ Head(s).n < Tail(s)[k].n /\ Tail(s)[k].n <= b
              /\ \A j \in DOMAIN Tail(s) : j < k => Tail(s)[j].n < Tail(s)[k].n
<1>1. /\ Len(s) \in Nat \ {0} /\ DOMAIN s = 1..Len(s) /\ Head(s) = s[1]
      /\ Tail(s) \in Seq(S) /\ DOMAIN Tail(s) = 1..(Len(s) - 1)
      /\ \A k \in 1..(Len(s) - 1) : Tail(s)[k] = s[k + 1]
  OBVIOUS
<1>2. \A k \in 1..(Len(s) - 1) : k + 1 \in 1..Len(s) /\ 1 \in 1..Len(s) /\ 1 < k + 1
  BY <1>1
<1>3. ASSUME NEW k \in 1..(Len(s) - 1)
      PROVE  Head(s).n < Tail(s)[k].n /\ Tail(s)[k].n <= b
  BY <1>1, <1>2, <1>3
<1>4. ASSUME NEW k \in 1..(Len(s) - 1), NEW j \in 1..(Len(s) - 1), j < k
      PROVE  Tail(s)[j].n < Tail(s)[k].n
  <2>1. j + 1 < k + 1 /\ j + 1 \in 1..Len(s) /\ k + 1 \in 1..Len(s)
    BY <1>1, <1>4
  <2> QED
    BY <1>1, <1>4, <2>1
<1> QED
  BY <1>1, <1>3, <1>4

LEMMA TypedStep ==
  ASSUME node \in AllTypes, node' = node, TriggerTyped, [Next]_vars
  PROVE  TriggerTyped'
<1> SUFFICES ASSUME node.type \in ItemTriggers PROVE TriggerTyped'
  BY DEF TriggerTyped
<1>1. /\ wired \in Seq({"in"}) /\ turn \in Seq({"in"}) /\ pass \in Seq({"in"})
      /\ pipe \in [{"in"} -> Seq(Item)] /\ got \in Seq(Item)
      /\ sent \in 0..MaxItems /\ Low(got) <= sent
      /\ \A k \in DOMAIN pipe["in"] :
           /\ Low(got) < pipe["in"][k].n /\ pipe["in"][k].n <= sent
           /\ \A j \in DOMAIN pipe["in"] : j < k => pipe["in"][j].n < pipe["in"][k].n
      /\ pc \in {"none", "loop", "delay", "trigger", "failed"}
      /\ life # "running" => pc = "none"
      /\ pc \in {"delay", "trigger"} => DOMAIN local = {"item", "action", "left"}
      /\ starts \in Nat /\ cuts \in Nat
      /\ starts = 0 => NotYet
      /\ starts # 0 => Kept(mem)
  BY DEF TriggerTyped
<1>2. SourceChange \/ SourceRetry
  BY <1>1, TriggerNode, SourceNext
<1>3. /\ NodePorts = {"in"} /\ Item' = Item /\ Polled \in Seq({"in"}) /\ <<>> \in Seq({"in"})
      /\ node.type # "cron"
  BY <1>1, TriggerNode DEF NodePorts, Item, ItemTriggers
<1>4. ASSUME UNCHANGED <<wired, sent>>, pipe' \in [{"in"} -> Seq(Item)], got' \in Seq(Item),
              Low(got') <= sent,
              \A k \in DOMAIN pipe'["in"] :
                /\ Low(got') < pipe'["in"][k].n /\ pipe'["in"][k].n <= sent
                /\ \A j \in DOMAIN pipe'["in"] : j < k => pipe'["in"][j].n < pipe'["in"][k].n,
              turn' \in Seq({"in"}), pass' \in Seq({"in"}),
              pc' \in {"none", "loop", "delay", "trigger", "failed"},
              life' # "running" => pc' = "none",
              pc' \in {"delay", "trigger"} => DOMAIN local' = {"item", "action", "left"},
              starts' \in Nat \ {0}, cuts' \in Nat, Kept(mem')
       PROVE  TriggerTyped'
  BY <1>1, <1>3, <1>4, Zenon DEF TriggerTyped, Low, Kept
<1>5. ASSUME UNCHANGED <<wired, sent, pipe, got>>,
             turn' \in Seq({"in"}), pass' \in Seq({"in"}),
             pc' \in {"none", "loop", "delay", "trigger", "failed"},
             life' # "running" => pc' = "none",
             pc' \in {"delay", "trigger"} => DOMAIN local' = {"item", "action", "left"},
             starts' \in Nat \ {0}, cuts' \in Nat, Kept(mem')
      PROVE  TriggerTyped'
  BY <1>1, <1>3, <1>5 DEF TriggerTyped, Low, Kept
<1>6. CASE Aside
  BY <1>6, TypedAside
<1>7. ASSUME Start(SourceMem, SourceLocal) \/ SourceRetry PROVE TriggerTyped'
  <2>1. Kept(SourceMem)
    <3>1. node.type = "debounce" =>
            \A t \in SourceMem.timers : DOMAIN t = {"id", "left", "asleep"} /\ t.left # <<>>
      <4>1. node.type = "debounce" => SourceMem.timers = Timers
        BY SourceFresh
      <4>2. node.type = "debounce" =>
              \A t \in Timers : DOMAIN t = {"id", "left", "asleep"} /\ t.left # <<>>
        BY <1>1 DEF Timers, NotYet, Kept
      <4> QED
        BY <4>1, <4>2
    <3>2. node.type = "debounce" => DOMAIN SourceMem = {"timers", "current", "deaf"}
      BY SourceFresh
    <3>3. node.type = "threshold" => SourceMem \in [n : Nat]
      BY SourceFresh
    <3>4. node.type = "trigger_toggle" => DOMAIN SourceMem = {"on"} /\ SourceMem.on \in BOOLEAN
      <4>1. node.type = "trigger_toggle" => SourceMem = [on |-> FALSE]
        BY SourceFresh
      <4>2. DOMAIN [on |-> FALSE] = {"on"} /\ [on |-> FALSE].on = FALSE
        OBVIOUS
      <4> QED
        BY <4>1, <4>2
    <3> QED
      BY <3>1, <3>2, <3>3, <3>4 DEF Kept
  <2>2. /\ UNCHANGED <<wired, sent, pipe, got>> /\ turn' = Polled /\ pass' = Polled /\ pc' = "loop"
        /\ starts' = starts + 1 /\ cuts' \in {cuts, cuts + 1} /\ mem' = SourceMem
        /\ life' = "running"
    BY <1>1, <1>7 DEF Start, SourceRetry, Retry, Enter, envVars
  <2> QED
    BY <1>1, <1>3, <1>5, <2>1, <2>2
<1>8. CASE Resume(SourceLocal)
  BY <1>1, <1>3, <1>5, <1>8 DEF Resume, Enter, envVars, dataVars, NotYet
<1>9. CASE Pause \/ Stop
  <2>1. /\ UNCHANGED <<wired, sent, pipe, got, mem, starts>> /\ turn' = <<>> /\ pass' = <<>>
        /\ pc' = "none" /\ cuts' = cuts + 1 /\ starts # 0
    BY <1>1, <1>9 DEF Pause, Stop, Cancel, Leave, envVars, dataVars, NotYet
  <2> QED
    BY <1>1, <1>3, <1>5, <2>1
<1>10. CASE SourceStep
  <2>1. TriggerStep
    BY <1>10, TriggerSteps
  <2>2. starts # 0 /\ Kept(mem)
    BY <1>1, <2>1
       DEF TriggerStep, ReadsIn, Delay, TellTarget, TargetFails, TriggerDone, Timers, NotYet
  <2>3. CASE ReadsIn
    <3>1. CASE UNCHANGED <<pc, local, mem, out, pipe, got>>
      BY <1>1, <1>5, <2>2, <2>3, <3>1 DEF ReadsIn, envVars, lifeVars
    <3>2. CASE pipe["in"] # <<>> /\ TakesIn(Head(pipe["in"])) /\ pipe' = [pipe EXCEPT !["in"] = Tail(@)]
               /\ got' = Append(got, Head(pipe["in"]))
      <4> DEFINE i == Head(pipe["in"])
      <4>1. i \in Item /\ i.n \in 1..MaxItems /\ Low(got) \in Nat /\ Low(got) < i.n
        BY <3>2, ReadTyped
      <4>2. got' \in Seq(Item) /\ Low(got') = i.n
        BY <1>1, <3>2, <4>1 DEF Low
      <4>3. /\ pipe' \in [{"in"} -> Seq(Item)] /\ pipe'["in"] = Tail(pipe["in"])
        BY <1>1, <3>2
      <4>4. /\ \A k \in DOMAIN pipe'["in"] :
                 /\ Low(got') < pipe'["in"][k].n /\ pipe'["in"][k].n <= sent
                 /\ \A j \in DOMAIN pipe'["in"] : j < k => pipe'["in"][j].n < pipe'["in"][k].n
            /\ i.n <= sent
        <5>1. \A x \in Item : x.n \in Nat
          BY NodeLoopAssumption DEF Item
        <5>2. pipe["in"] \in Seq(Item) /\ i = pipe["in"][1] /\ 1 \in DOMAIN pipe["in"]
          BY <1>1, <3>2
        <5>3. sent \in Nat /\ pipe["in"] # <<>>
          BY <1>1, <3>2, NodeLoopAssumption
        <5>4. \A k \in DOMAIN pipe["in"] :
                /\ pipe["in"][k].n <= sent
                /\ \A j \in DOMAIN pipe["in"] : j < k => pipe["in"][j].n < pipe["in"][k].n
          BY <1>1
        <5>5. \A k \in DOMAIN Tail(pipe["in"]) :
                /\ i.n < Tail(pipe["in"])[k].n /\ Tail(pipe["in"])[k].n <= sent
                /\ \A j \in DOMAIN Tail(pipe["in"]) :
                     j < k => Tail(pipe["in"])[j].n < Tail(pipe["in"])[k].n
          BY <5>1, <5>2, <5>3, <5>4, TailOrdered
        <5> QED
          BY <4>2, <4>3, <5>2, <5>4, <5>5
      <4> HIDE DEF i
      <4>5. TakesIn(i)
        BY <3>2 DEF i
      <4>6. /\ pc' \in {"none", "loop", "delay", "trigger", "failed"}
            /\ pc' \in {"delay", "trigger"} => DOMAIN local' = {"item", "action", "left"}
        BY <1>1, <2>3, <4>5 DEF TakesIn, Begins, ReadsIn, ItemTriggers
      <4>7. Kept(mem')
        <5>1. node.type = "threshold" => DOMAIN mem' = {"n"} /\ mem'.n \in Nat
          BY <2>2, <4>5 DEF TakesIn, Kept
        <5>2. node.type = "trigger_toggle" => DOMAIN mem' = {"on"} /\ mem'.on \in BOOLEAN
          <6> SUFFICES ASSUME node.type = "trigger_toggle"
                       PROVE  DOMAIN mem' = {"on"} /\ mem'.on \in BOOLEAN
            OBVIOUS
          <6>1. DOMAIN mem = {"on"} /\ mem' = [mem EXCEPT !.on = ~@]
            BY <2>2, <4>5 DEF TakesIn, Kept
          <6>2. DOMAIN mem' = {"on"} /\ mem'.on = ~mem.on
            BY <6>1
          <6> QED
            BY <6>2
        <5>3. node.type = "debounce" =>
                /\ DOMAIN mem' = {"timers", "current", "deaf"}
                /\ \A t \in mem'.timers : DOMAIN t = {"id", "left", "asleep"} /\ t.left # <<>>
          <6> SUFFICES ASSUME node.type = "debounce"
                       PROVE  /\ DOMAIN mem' = {"timers", "current", "deaf"}
                              /\ \A t \in mem'.timers :
                                   DOMAIN t = {"id", "left", "asleep"} /\ t.left # <<>>
            OBVIOUS
          <6> DEFINE new == TimerOf(i)
          <6>1. PICK deaf \in SUBSET CurrentTimer(mem) : mem' = WithTimer(mem, i, deaf)
            BY <4>5 DEF TakesIn
          <6>2. /\ DOMAIN mem = {"timers", "current", "deaf"}
                /\ \A t \in mem.timers : DOMAIN t = {"id", "left", "asleep"} /\ t.left # <<>>
            BY <2>2 DEF Kept
          <6>3. DOMAIN new = {"id", "left", "asleep"} /\ new.left # <<>>
            BY TriggerNode DEF TimerOf
          <6> HIDE DEF new
          <6>4. DOMAIN mem' = {"timers", "current", "deaf"} /\ mem'.timers \subseteq mem.timers \cup {new}
            BY <6>1, <6>2 DEF WithTimer, CurrentTimer, new
          <6> QED
            BY <6>2, <6>3, <6>4
        <5> QED
          BY <5>1, <5>2, <5>3 DEF Kept
      <4>8. /\ UNCHANGED <<wired, sent, life, starts, cuts>> /\ pc = "loop"
            /\ turn' \in Seq({"in"}) /\ pass' \in Seq({"in"})
        BY <2>3 DEF ReadsIn, envVars, lifeVars
      <4>9. life = "running" /\ Low(got') <= sent
        BY <1>1, <4>2, <4>4, <4>8
      <4> QED
        BY <1>1, <1>4, <2>2, <4>2, <4>3, <4>4, <4>6, <4>7, <4>8, <4>9
    <3> QED
      BY <2>3, <3>1, <3>2 DEF ReadsIn
  <2>4. CASE Delay \/ TellTarget \/ TargetFails \/ TriggerDone
    <3>1. /\ UNCHANGED <<wired, sent, pipe, got, life, starts, cuts>>
          /\ pc' \in {"loop", "trigger", "failed"}
          /\ pc \in {"delay", "trigger"}
          /\ turn' \in Seq({"in"}) /\ pass' \in Seq({"in"})
      BY <1>1, <1>3, <2>4
         DEF Delay, TellTarget, TargetFails, TriggerDone, Again, Enter, envVars, lifeVars, dataVars
    <3>2. pc' \in {"delay", "trigger"} => DOMAIN local' = {"item", "action", "left"}
      BY <1>1, <2>4 DEF Delay, TellTarget, TargetFails, TriggerDone, Again, Enter
    <3>3. Kept(mem')
      BY <2>2, <2>4 DEF Delay, TellTarget, TargetFails, TriggerDone, Again, dataVars, Kept
    <3> QED
      BY <1>1, <1>5, <2>2, <3>1, <3>2, <3>3
  <2>5. ASSUME NEW t \in Timers, DelayedTrigger(t) PROVE TriggerTyped'
    <3>1. /\ UNCHANGED <<wired, sent, pipe, got, life, starts, cuts, pc, turn, pass, local>>
          /\ node.type = "debounce" /\ t \in mem.timers
      BY <2>5 DEF DelayedTrigger, TimerWakes, TimerTells, TimerFails, TimerStep, envVars, lifeVars,
                  loopVars, Timers
    <3>2. DOMAIN mem = {"timers", "current", "deaf"} /\ DOMAIN t = {"id", "left", "asleep"} /\ t.left # <<>>
      BY <2>2, <3>1 DEF Kept
    <3>3. Kept(mem')
      <4>1. CASE mem' = [mem EXCEPT !.timers = (@ \ {t}) \cup {[t EXCEPT !.asleep = FALSE]}]
        BY <2>2, <3>1, <3>2, <4>1 DEF Kept
      <4>2. CASE Tail(t.left) # <<>> /\ mem' = [mem EXCEPT !.timers = (@ \ {t}) \cup {[t EXCEPT !.left = Tail(@)]}]
        BY <2>2, <3>1, <3>2, <4>2 DEF Kept
      <4>3. CASE mem' = [mem EXCEPT !.timers = @ \ {t}, !.current = 0]
        BY <2>2, <3>1, <3>2, <4>3 DEF Kept
      <4>4. CASE mem' = [mem EXCEPT !.timers = @ \ {t}]
        BY <2>2, <3>1, <3>2, <4>4 DEF Kept
      <4> QED
        BY <2>5, <4>1, <4>2, <4>3, <4>4 DEF DelayedTrigger, TimerWakes, TimerTells, TimerFails, TimerStep
    <3> QED
      BY <1>1, <1>5, <2>2, <3>1, <3>3
  <2> QED
    BY <2>1, <2>3, <2>4, <2>5 DEF TriggerStep
<1> QED
  BY <1>2, <1>6, <1>7, <1>8, <1>9, <1>10 DEF SourceChange

-----------------------------------------------------------------------------
(* Each target once for an item, in order.                                 *)

TargetsOf(n) == IF n.opt.graph # <<>> THEN n.opt.graph ELSE n.opt.own

\* The number of the item an emission is about, and its place in the round.
Number(n, e) == IF n.type = "debounce" THEN e.item ELSE e.item.n
PlaceAt(n, to) == IF to = <<"out">> THEN Len(TargetsOf(n)) + 1
               ELSE CHOOSE j \in DOMAIN TargetsOf(n) : to = <<TargetsOf(n)[j]>>

\* A round r that has told its targets up to the Done(n, r)-th, of a round.
Done(n, r) == Len(TargetsOf(n)) - Len(r.left)
Fits(n, r, high) ==
  /\ r.id \in Nat /\ r.id <= high
  /\ r.left \in Seq({"a", "b", "c"}) /\ Len(r.left) <= Len(TargetsOf(n))
  /\ \A i \in 1..Len(r.left) : r.left[i] = TargetsOf(n)[Done(n, r) + i]

\* What was told, with the rounds under way, and the last item read.
Told(n, o, live, low) ==
  /\ IsSeq(o)
  /\ \A k \in DOMAIN o : /\ Number(n, o[k]) \in Nat /\ Number(n, o[k]) <= low
                         /\ PlaceAt(n, o[k].to) \in Nat
  /\ \A j, k \in DOMAIN o : j < k /\ Number(n, o[j]) = Number(n, o[k]) =>
       PlaceAt(n, o[j].to) < PlaceAt(n, o[k].to)
  /\ \A r \in live : /\ Fits(n, r, low)
                     /\ \A k \in DOMAIN o : Number(n, o[k]) = r.id =>
                          PlaceAt(n, o[k].to) <= Done(n, r)
  /\ \A r, s \in live : r.id = s.id => r = s

LEMMA Places ==
  ASSUME node \in AllTypes, node.type \in ItemTriggers
  PROVE  /\ Len(TargetsOf(node)) \in 1..2 /\ TargetsOf(node) \in Seq({"a", "b", "c"})
         /\ DOMAIN TargetsOf(node) = 1..Len(TargetsOf(node))
         /\ PlaceAt(node, <<"out">>) = Len(TargetsOf(node)) + 1
         /\ \A m \in 1..Len(TargetsOf(node)) : PlaceAt(node, <<TargetsOf(node)[m]>>) = m
<1>1. TargetsOf(node) \in {<<"a", "b">>, <<"c">>}
  BY TriggerNode DEF Targets, TargetsOf
<1>2. CASE TargetsOf(node) = <<"c">>
  <2>1. TargetsOf(node)[1] = "c" /\ DOMAIN TargetsOf(node) = {1} /\ Len(TargetsOf(node)) = 1
    BY <1>2
  <2>2. PlaceAt(node, <<"c">>) = 1
    <3>1. <<"c">> # <<"out">>
      OBVIOUS
    <3> QED
      BY <2>1, <3>1 DEF PlaceAt
  <2> QED
    BY <1>2, <2>1, <2>2 DEF PlaceAt
<1>3. CASE TargetsOf(node) = <<"a", "b">>
  <2>1. /\ TargetsOf(node)[1] = "a" /\ TargetsOf(node)[2] = "b"
        /\ DOMAIN TargetsOf(node) = {1, 2} /\ Len(TargetsOf(node)) = 2
        /\ DOMAIN TargetsOf(node) = 1..2
    BY <1>3
  <2>2. PlaceAt(node, <<"a">>) = 1 /\ PlaceAt(node, <<"b">>) = 2
    <3>1. <<"a">> # <<"out">> /\ <<"b">> # <<"out">> /\ <<"a">> # <<"b">>
      OBVIOUS
    <3> QED
      BY <2>1, <3>1 DEF PlaceAt
  <2> QED
    BY <1>3, <2>1, <2>2 DEF PlaceAt
<1> QED
  BY <1>1, <1>2, <1>3

\* One more emission.
LEMMA ToldOneMore ==
  ASSUME NEW o, NEW low \in Nat, NEW live, Told(node, o, live, low),
         NEW e, NEW t, t = Append(o, e), NEW high \in Nat, low <= high,
         Number(node, e) \in Nat, Number(node, e) <= high, PlaceAt(node, e.to) \in Nat,
         \A k \in DOMAIN o : Number(node, o[k]) = Number(node, e) =>
           PlaceAt(node, o[k].to) < PlaceAt(node, e.to),
         NEW rest,
         \A r \in rest : /\ Fits(node, r, high)
                         /\ \A k \in DOMAIN o : Number(node, o[k]) = r.id =>
                              PlaceAt(node, o[k].to) <= Done(node, r)
                         /\ Number(node, e) = r.id => PlaceAt(node, e.to) <= Done(node, r),
         \A r, s \in rest : r.id = s.id => r = s
  PROVE  Told(node, t, rest, high)
<1>1. /\ IsSeq(t)
      /\ DOMAIN o = 1..Len(o) /\ Len(o) \in Nat
      /\ DOMAIN t = 1..(Len(o) + 1)
      /\ \A k \in 1..Len(o) : t[k] = o[k]
      /\ t[Len(o) + 1] = e
  BY AppendSeq DEF Told
<1> DEFINE N(x) == Number(node, x)
           P(x) == PlaceAt(node, x.to)
<1>2. \A k \in DOMAIN o : N(o[k]) \in Nat /\ N(o[k]) <= low /\ P(o[k]) \in Nat
  BY DEF Told
<1>3. \A j, k \in DOMAIN o : j < k /\ N(o[j]) = N(o[k]) => P(o[j]) < P(o[k])
  BY DEF Told
<1>4. /\ N(e) \in Nat /\ N(e) <= high /\ P(e) \in Nat
      /\ \A k \in DOMAIN o : N(o[k]) = N(e) => P(o[k]) < P(e)
  OBVIOUS
<1>5. \A r \in rest : /\ Fits(node, r, high)
                      /\ \A k \in DOMAIN o : N(o[k]) = r.id => P(o[k]) <= Done(node, r)
                      /\ N(e) = r.id => P(e) <= Done(node, r)
  OBVIOUS
<1> HIDE DEF N, P
<1>6. \A k \in DOMAIN t : N(t[k]) \in Nat /\ N(t[k]) <= high /\ P(t[k]) \in Nat
  BY <1>1, <1>2, <1>4
<1>7. \A j, k \in DOMAIN t : j < k /\ N(t[j]) = N(t[k]) => P(t[j]) < P(t[k])
  BY <1>1, <1>2, <1>3, <1>4
<1>8. \A r \in rest : /\ Fits(node, r, high)
                      /\ \A k \in DOMAIN t : N(t[k]) = r.id => P(t[k]) <= Done(node, r)
  BY <1>1, <1>5
<1> QED
  BY <1>1, <1>6, <1>7, <1>8 DEF Told, N, P

LEMMA FitsLater ==
  ASSUME NEW r, NEW low \in Nat, NEW high \in Nat, low <= high, Fits(node, r, low)
  PROVE  Fits(node, r, high)
BY DEF Fits

\* One round an item; and rounds that go on, with a new one for an item read just now.
OneEach(rest) == \A r, s \in rest : r.id = s.id => r = s
Stems(n, rest, live, low, high) ==
  \A r \in rest : \/ \E u \in live : u.id = r.id /\ u.left = r.left
                  \/ low < high /\ r.id = high /\ r.left = TargetsOf(n)

LEMMA ToldBegins ==
  ASSUME node \in AllTypes, node.type \in ItemTriggers,
         NEW o, NEW low \in Nat, NEW live, Told(node, o, live, low),
         NEW high \in Nat, low <= high,
         NEW rest, Stems(node, rest, live, low, high), OneEach(rest)
  PROVE  Told(node, o, rest, high)
<1>1. /\ IsSeq(o)
      /\ \A k \in DOMAIN o : /\ Number(node, o[k]) \in Nat /\ Number(node, o[k]) <= low
                             /\ PlaceAt(node, o[k].to) \in Nat
      /\ \A j, k \in DOMAIN o : j < k /\ Number(node, o[j]) = Number(node, o[k]) =>
           PlaceAt(node, o[j].to) < PlaceAt(node, o[k].to)
      /\ \A r \in live : /\ Fits(node, r, low)
                         /\ \A k \in DOMAIN o : Number(node, o[k]) = r.id =>
                              PlaceAt(node, o[k].to) <= Done(node, r)
      /\ \A r, s \in live : r.id = s.id => r = s
  BY DEF Told
<1>2. ASSUME NEW r \in rest, low < high /\ r.id = high /\ r.left = TargetsOf(node)
      PROVE  /\ Fits(node, r, high)
             /\ \A k \in DOMAIN o : Number(node, o[k]) = r.id =>
                  PlaceAt(node, o[k].to) <= Done(node, r)
  <2>1. Done(node, r) = 0
    BY <1>2, Places DEF Done
  <2>2. Fits(node, r, high)
    BY <1>2, <2>1, Places DEF Fits
  <2>3. \A k \in DOMAIN o : Number(node, o[k]) # r.id
    BY <1>1, <1>2
  <2> QED
    BY <2>2, <2>3
<1>3. ASSUME NEW r \in rest, NEW u \in live, u.id = r.id, u.left = r.left
      PROVE  /\ Fits(node, r, high)
             /\ \A k \in DOMAIN o : Number(node, o[k]) = r.id =>
                  PlaceAt(node, o[k].to) <= Done(node, r)
  <2>1. Done(node, r) = Done(node, u)
    BY <1>3 DEF Done
  <2>2. Fits(node, u, high)
    BY <1>1, FitsLater
  <2> QED
    BY <1>1, <1>3, <2>1, <2>2 DEF Fits
<1>4. \A r \in rest : /\ Fits(node, r, high)
                      /\ \A k \in DOMAIN o : Number(node, o[k]) = r.id =>
                           PlaceAt(node, o[k].to) <= Done(node, r)
  BY <1>2, <1>3 DEF Stems
<1>5. \A k \in DOMAIN o : Number(node, o[k]) <= high
  BY <1>1
<1> QED
  BY <1>1, <1>4, <1>5 DEF Told, OneEach

LEMMA ToldFewer ==
  ASSUME node \in AllTypes, node.type \in ItemTriggers,
         NEW o, NEW low \in Nat, NEW live, Told(node, o, live, low),
         NEW high \in Nat, low <= high, NEW rest, rest \subseteq live
  PROVE  Told(node, o, rest, high)
<1>1. /\ IsSeq(o)
      /\ \A k \in DOMAIN o : /\ Number(node, o[k]) \in Nat /\ Number(node, o[k]) <= high
                             /\ PlaceAt(node, o[k].to) \in Nat
  BY DEF Told
<1>2. \A r \in rest : Fits(node, r, high)
  BY FitsLater DEF Told
<1> QED
  BY <1>1, <1>2 DEF Told

\* The next target is told, or is not there.
LEMMA ToldTells ==
  ASSUME node \in AllTypes, node.type \in ItemTriggers,
         NEW o, NEW low \in Nat, NEW live, Told(node, o, live, low),
         NEW r \in live, r.left # <<>>, NEW s, s.id = r.id, s.left = Tail(r.left),
         NEW t, t = o \/ \E e : Number(node, e) = r.id /\ e.to = <<Head(r.left)>> /\ t = Append(o, e)
  PROVE  Told(node, t, (live \ {r}) \cup {s}, low)
<1> DEFINE rest == (live \ {r}) \cup {s}
<1>1. /\ IsSeq(o)
      /\ \A k \in DOMAIN o : /\ Number(node, o[k]) \in Nat /\ Number(node, o[k]) <= low
                             /\ PlaceAt(node, o[k].to) \in Nat
      /\ \A j, k \in DOMAIN o : j < k /\ Number(node, o[j]) = Number(node, o[k]) =>
           PlaceAt(node, o[j].to) < PlaceAt(node, o[k].to)
      /\ \A u \in live : /\ Fits(node, u, low)
                         /\ \A k \in DOMAIN o : Number(node, o[k]) = u.id =>
                              PlaceAt(node, o[k].to) <= Done(node, u)
      /\ \A u, v \in live : u.id = v.id => u = v
  BY DEF Told
<1>2. /\ r.id \in Nat /\ r.id <= low
      /\ r.left \in Seq({"a", "b", "c"}) /\ Len(r.left) <= Len(TargetsOf(node))
      /\ \A i \in 1..Len(r.left) : r.left[i] = TargetsOf(node)[Done(node, r) + i]
  BY <1>1 DEF Fits
<1>3. /\ Len(r.left) \in Nat \ {0} /\ Head(r.left) = r.left[1]
      /\ Tail(r.left) \in Seq({"a", "b", "c"})
      /\ Len(Tail(r.left)) = Len(r.left) - 1
      /\ \A i \in 1..(Len(r.left) - 1) : Tail(r.left)[i] = r.left[i + 1]
  BY <1>2
<1>4. /\ Done(node, r) \in Nat /\ Done(node, s) = Done(node, r) + 1
      /\ Done(node, s) \in 1..Len(TargetsOf(node))
  <2>1. /\ Done(node, r) = Len(TargetsOf(node)) - Len(r.left)
        /\ Done(node, s) = Len(TargetsOf(node)) - (Len(r.left) - 1)
    BY <1>3 DEF Done
  <2>2. Len(TargetsOf(node)) \in 1..2 /\ Len(r.left) \in 1..Len(TargetsOf(node))
    BY <1>2, <1>3, Places
  <2> QED
    BY <2>1, <2>2
<1>5. Fits(node, s, low)
  <2>1. ASSUME NEW i \in 1..(Len(r.left) - 1) PROVE Tail(r.left)[i] = TargetsOf(node)[Done(node, s) + i]
    <3>1. i + 1 \in 1..Len(r.left) /\ Done(node, r) + (i + 1) = Done(node, s) + i
      <4>1. i \in Nat /\ i + 1 \in 1..Len(r.left)
        BY <1>3, <2>1
      <4> DEFINE a == Done(node, r)
                 b == Done(node, s)
      <4>2. a \in Nat /\ b = a + 1
        BY <1>4
      <4> HIDE DEF a, b
      <4>3. a + (i + 1) = b + i
        BY <4>1, <4>2
      <4> QED
        BY <4>1, <4>3 DEF a, b
    <3> QED
      BY <1>2, <1>3, <2>1, <3>1
  <2> QED
    BY <1>2, <1>3, <2>1, Places DEF Fits
<1>6. PlaceAt(node, <<Head(r.left)>>) = Done(node, s)
  <2>1. Head(r.left) = TargetsOf(node)[Done(node, s)]
    BY <1>2, <1>3, <1>4
  <2> QED
    BY <1>4, <2>1, Places
<1>7. \A k \in DOMAIN o : Number(node, o[k]) = s.id => PlaceAt(node, o[k].to) < Done(node, s)
  BY <1>1, <1>4
<1>8. \A u, v \in rest : u.id = v.id => u = v
  BY <1>1
<1>9. \A u \in live \ {r} : u.id # r.id
  BY <1>1
<1>10. CASE t = o
  <2>1. \A k \in DOMAIN o : Number(node, o[k]) = s.id => PlaceAt(node, o[k].to) <= Done(node, s)
    BY <1>1, <1>4, <1>7
  <2> QED
    BY <1>1, <1>5, <1>8, <1>10, <2>1 DEF Told
<1>11. ASSUME NEW e, Number(node, e) = r.id, e.to = <<Head(r.left)>>, t = Append(o, e)
       PROVE  Told(node, t, rest, low)
  <2>1. /\ Number(node, e) \in Nat /\ Number(node, e) <= low
        /\ PlaceAt(node, e.to) = Done(node, s) /\ PlaceAt(node, e.to) \in Nat
        /\ \A k \in DOMAIN o : Number(node, o[k]) = Number(node, e) =>
             PlaceAt(node, o[k].to) < PlaceAt(node, e.to)
    BY <1>2, <1>4, <1>6, <1>7, <1>11
  <2>2. \A u \in rest : /\ Fits(node, u, low)
                        /\ \A k \in DOMAIN o : Number(node, o[k]) = u.id =>
                             PlaceAt(node, o[k].to) <= Done(node, u)
                        /\ Number(node, e) = u.id => PlaceAt(node, e.to) <= Done(node, u)
    BY <1>1, <1>4, <1>5, <1>7, <1>9, <1>11, <2>1
  <2> HIDE DEF rest
  <2>3. low <= low
    OBVIOUS
  <2> QED
    BY <1>8, <1>11, <2>1, <2>2, <2>3, ToldOneMore
<1> QED
  BY <1>10, <1>11

\* The report that ends a round, or that an item begins none.
LEMMA ToldReports ==
  ASSUME node \in AllTypes, node.type \in ItemTriggers,
         NEW o, NEW low \in Nat, NEW live, Told(node, o, live, low),
         NEW e, e.to = <<"out">>, NEW t, t = Append(o, e), NEW high \in Nat, low <= high,
         \/ Number(node, e) = high /\ low < high
         \/ Number(node, e) <= high /\ \E r \in live : r.left = <<>> /\ r.id = Number(node, e),
         NEW rest, rest \subseteq live, \A r \in rest : r.id # Number(node, e)
  PROVE  Told(node, t, rest, high)
<1>1. /\ \A k \in DOMAIN o : /\ Number(node, o[k]) \in Nat /\ Number(node, o[k]) <= low
                             /\ PlaceAt(node, o[k].to) \in Nat
      /\ \A u \in live : /\ Fits(node, u, low)
                         /\ \A k \in DOMAIN o : Number(node, o[k]) = u.id =>
                              PlaceAt(node, o[k].to) <= Done(node, u)
      /\ \A u, v \in live : u.id = v.id => u = v
  BY DEF Told
<1>2. /\ PlaceAt(node, e.to) = Len(TargetsOf(node)) + 1 /\ PlaceAt(node, e.to) \in Nat
      /\ Len(TargetsOf(node)) \in Nat
  BY Places
<1>3. Number(node, e) \in Nat /\ Number(node, e) <= high
  BY <1>1 DEF Fits
<1>4. \A k \in DOMAIN o : Number(node, o[k]) = Number(node, e) =>
        PlaceAt(node, o[k].to) < PlaceAt(node, e.to)
  <2>1. CASE Number(node, e) = high /\ low < high
    BY <1>1, <2>1
  <2>2. ASSUME NEW r \in live, r.left = <<>>, r.id = Number(node, e)
        PROVE  \A k \in DOMAIN o : Number(node, o[k]) = Number(node, e) =>
                 PlaceAt(node, o[k].to) < PlaceAt(node, e.to)
    <3>1. Done(node, r) = Len(TargetsOf(node))
      BY <1>2, <2>2 DEF Done
    <3> QED
      BY <1>1, <1>2, <2>2, <3>1
  <2> QED
    BY <2>1, <2>2
<1>5. \A r \in rest : /\ Fits(node, r, high)
                      /\ \A k \in DOMAIN o : Number(node, o[k]) = r.id =>
                           PlaceAt(node, o[k].to) <= Done(node, r)
                      /\ Number(node, e) = r.id => PlaceAt(node, e.to) <= Done(node, r)
  BY <1>1, FitsLater
<1>6. \A r, s \in rest : r.id = s.id => r = s
  BY <1>1
<1> QED
  BY <1>2, <1>3, <1>4, <1>5, <1>6, ToldOneMore

\* The rounds under way: that of the task, or of each timer.
Live ==
  IF node.type = "debounce" THEN Timers
  ELSE IF pc \in {"delay", "trigger"} THEN {[id |-> local.item.n, left |-> local.left]}
  ELSE {}

ToldInv ==
  node.type \in ItemTriggers =>
    /\ node.type = "debounce" => pc \notin {"delay", "trigger"}
    /\ Told(node, out, Live, Low(got))

LEMMA LowTyped ==
  ASSUME node \in AllTypes, node.type \in ItemTriggers, TriggerTyped PROVE Low(got) \in Nat
<1>1. got \in Seq(Item)
  BY DEF TriggerTyped
<1>2. got # <<>> => got[Len(got)] \in Item
  BY <1>1
<1>3. \A i \in Item : i.n \in Nat
  BY NodeLoopAssumption DEF Item
<1> QED
  BY <1>2, <1>3 DEF Low

LEMMA ToldStep ==
  ASSUME node \in AllTypes, node' = node, TriggerTyped, ToldInv, [Next]_vars
  PROVE  ToldInv'
<1> SUFFICES ASSUME node.type \in ItemTriggers PROVE ToldInv'
  BY DEF ToldInv
<1>1. /\ node.type = "debounce" => pc \notin {"delay", "trigger"}
      /\ Told(node, out, Live, Low(got))
      /\ Low(got) \in Nat /\ Low(got) <= Low(got)
      /\ pc \in {"none", "loop", "delay", "trigger", "failed"}
      /\ pc \in {"delay", "trigger"} => DOMAIN local = {"item", "action", "left"}
      /\ node.type # "cron"
  BY LowTyped DEF ToldInv, TriggerTyped, ItemTriggers
<1>2. SourceChange \/ SourceRetry
  BY <1>1, TriggerNode, SourceNext
<1>3. ASSUME node.type = "debounce" => pc' \notin {"delay", "trigger"},
             NEW live, live = Live', NEW low, low = Low(got'), Told(node, out', live, low)
      PROVE  ToldInv'
  <2>1. Told(node, out, Live, Low(got))'
    BY <1>3
  <2> QED
    BY <1>3, <2>1 DEF ToldInv
<1>4. ASSUME UNCHANGED <<out, got>>, Live' \subseteq Live,
             node.type = "debounce" => pc' \notin {"delay", "trigger"}
      PROVE  ToldInv'
  BY <1>1, <1>3, <1>4, ToldFewer
<1>5. CASE Aside
  <2>1. UNCHANGED <<out, got, pc, local, mem>>
    BY <1>5 DEF Aside
  <2> QED
    BY <1>1, <1>4, <2>1 DEF Live, Timers
<1>6. ASSUME Start(SourceMem, SourceLocal) \/ SourceRetry PROVE ToldInv'
  <2>1. UNCHANGED <<out, got>> /\ pc' = "loop" /\ mem' = SourceMem
    BY <1>6 DEF Start, SourceRetry, Retry, Enter
  <2>2. node.type = "debounce" => Timers' = Timers
    <3>1. node.type = "debounce" =>
            SourceMem = [timers |-> Timers, current |-> 0, deaf |-> IF mem = <<>> THEN 0 ELSE mem.deaf]
      BY SourceFresh
    <3>2. node.type = "debounce" => mem' # <<>> /\ mem'.timers = Timers
      BY <2>1, <3>1
    <3>3. node.type = "debounce" /\ mem' # <<>> => Timers' = mem'.timers
      BY DEF Timers
    <3> QED
      BY <3>2, <3>3
  <2> QED
    BY <1>4, <2>1, <2>2 DEF Live
<1>7. CASE Resume(SourceLocal) \/ Pause \/ Stop
  <2>1. UNCHANGED <<out, got, mem>> /\ pc' \in {"loop", "none"}
    BY <1>7 DEF Resume, Pause, Stop, Cancel, Leave, Enter, dataVars
  <2> QED
    BY <1>4, <2>1 DEF Live, Timers
<1>8. ASSUME ReadsIn PROVE ToldInv'
  <2>1. CASE UNCHANGED <<pc, local, mem, out, pipe, got>>
    BY <1>1, <1>4, <2>1 DEF Live, Timers
  <2>2. CASE pipe["in"] # <<>> /\ TakesIn(Head(pipe["in"])) /\ got' = Append(got, Head(pipe["in"]))
    <3> DEFINE i == Head(pipe["in"])
    <3>1. i \in Item /\ i.n \in 1..MaxItems /\ Low(got) < i.n
      BY <2>2, ReadTyped
    <3>2. Low(got') = i.n
      <4>1. got \in Seq(Item)
        BY DEF TriggerTyped
      <4> QED
        BY <2>2, <3>1, <4>1 DEF Low
    <3>3. TakesIn(i) /\ pc = "loop"
      BY <1>8, <2>2 DEF ReadsIn
    <3> HIDE DEF i
    <3>4. i.n \in Nat /\ Low(got) <= i.n
      BY <1>1, <3>1, NodeLoopAssumption
    <3>5. TargetsOf(node) = Targets
      BY DEF TargetsOf, Targets
    <3>6. ASSUME NEW a, Begins(i, a), node.type # "debounce" PROVE ToldInv'
      <4> DEFINE r == [id |-> i.n, left |-> Targets]
      <4>1. Live' = {r} /\ out' = out
        BY <3>6 DEF Begins, Live
      <4>2. r.id = i.n /\ r.left = TargetsOf(node)
        BY <3>5
      <4> HIDE DEF r
      <4>3. Stems(node, {r}, Live, Low(got), i.n) /\ OneEach({r})
        BY <3>1, <4>2 DEF Stems, OneEach
      <4>4. Told(node, out, {r}, i.n)
        BY <1>1, <3>4, <4>3, ToldBegins
      <4> QED
        BY <1>3, <3>2, <3>6, <4>1, <4>4
    <3>7. CASE node.type \in {"trigger", "trigger_on", "trigger_toggle"}
      BY <3>3, <3>6, <3>7 DEF TakesIn
    <3>8. CASE node.type = "trigger_if"
      <4>1. CASE Begins(i, "start")
        BY <3>6, <3>8, <4>1
      <4>2. CASE UNCHANGED <<pc, local>> /\ out' = Append(out, Emission(i, <<"out">>, "skip"))
        <5> DEFINE e == Emission(i, <<"out">>, "skip")
        <5>1. e.to = <<"out">> /\ Number(node, e) = i.n
          BY <3>8 DEF Emission, Number
        <5>2. Live' = {}
          BY <3>3, <3>8, <4>2 DEF Live
        <5> HIDE DEF e
        <5>3. out' = Append(out, e)
          BY <4>2 DEF e
        <5>4. Told(node, out', {}, i.n)
          BY <1>1, <3>1, <3>4, <5>1, <5>3, ToldReports
        <5> QED
          BY <1>3, <3>2, <3>8, <5>2, <5>4
      <4> QED
        BY <3>3, <3>8, <4>1, <4>2 DEF TakesIn
    <3>9. CASE node.type = "threshold"
      <4>1. CASE Begins(i, "start")
        BY <3>6, <3>9, <4>1
      <4>2. CASE UNCHANGED <<pc, local, out>>
        <5>1. Live' = {}
          BY <3>3, <3>9, <4>2 DEF Live
        <5>2. Told(node, out, {}, i.n)
          BY <1>1, <3>4, ToldFewer
        <5> QED
          BY <1>3, <3>2, <3>9, <4>2, <5>1, <5>2
      <4> QED
        BY <3>3, <3>9, <4>1, <4>2 DEF TakesIn
    <3>10. CASE node.type = "debounce"
      <4> DEFINE r == TimerOf(i)
      <4>1. PICK deaf \in SUBSET CurrentTimer(mem) : UNCHANGED <<pc, out>> /\ mem' = WithTimer(mem, i, deaf)
        BY <3>3, <3>10 DEF TakesIn
      <4> DEFINE rest == (Live \ CurrentTimer(mem)) \cup deaf \cup {r}
      <4>2. r.id = i.n /\ r.left = TargetsOf(node)
        BY <3>5 DEF TimerOf
      <4>3. DOMAIN mem = {"timers", "current", "deaf"} /\ mem # <<>>
        BY <3>3, <3>10 DEF TriggerTyped, Kept, NotYet
      <4> HIDE DEF r
      <4>4. Live = mem.timers /\ Live' = rest
        <5>1. Live = mem.timers
          BY <3>10, <4>3 DEF Live, Timers
        <5>2. mem'.timers = rest /\ DOMAIN mem' = {"timers", "current", "deaf"}
          BY <4>1, <4>3, <5>1 DEF WithTimer, r
        <5>3. mem' # <<>>
          BY <5>2
        <5> QED
          BY <3>10, <5>1, <5>2, <5>3 DEF Live, Timers
      <4>5. \A s \in rest : s \in Live \/ s = r
        BY <4>4 DEF CurrentTimer
      <4> HIDE DEF rest
      <4>6. Stems(node, rest, Live, Low(got), i.n)
        BY <3>1, <4>2, <4>5 DEF Stems
      <4>8. OneEach(rest)
        <5>1. \A t \in Live : t.id \in Nat /\ t.id <= Low(got)
          BY <1>1 DEF Told, Fits
        <5>2. \A t \in Live : t.id # i.n
          BY <1>1, <3>1, <3>4, <5>1
        <5>3. \A s, u \in Live : s.id = u.id => s = u
          BY <1>1 DEF Told
        <5> QED
          BY <4>2, <4>5, <5>2, <5>3 DEF OneEach
      <4>7. Told(node, out, rest, i.n)
        BY <1>1, <3>4, <4>6, <4>8, ToldBegins
      <4> QED
        BY <1>1, <1>3, <3>2, <4>1, <4>4, <4>7
    <3> QED
      BY <3>7, <3>8, <3>9, <3>10 DEF ItemTriggers
  <2> QED
    BY <1>8, <2>1, <2>2 DEF ReadsIn
<1>9. ASSUME Delay \/ TellTarget \/ TargetFails \/ TriggerDone PROVE ToldInv'
  <2> DEFINE r == [id |-> local.item.n, left |-> local.left]
  <2>1. /\ node.type # "debounce" /\ pc \in {"delay", "trigger"} /\ got' = got
        /\ DOMAIN local = {"item", "action", "left"} /\ Live = {r}
    BY <1>1, <1>9 DEF Delay, TellTarget, TargetFails, TriggerDone, Again, dataVars, Live
  <2>2. CASE Delay
    <3>1. Live' = Live /\ UNCHANGED <<out, got>>
      BY <2>1, <2>2 DEF Delay, dataVars, Live
    <3> QED
      BY <1>4, <2>1, <3>1
  <2>3. CASE TellTarget
    <3> DEFINE s == [id |-> local.item.n, left |-> Tail(local.left)]
    <3>1. /\ pc' = pc /\ local' = [local EXCEPT !.left = Tail(@)]
          /\ r.left # <<>> /\ s.id = r.id /\ s.left = Tail(r.left)
      BY <2>3 DEF TellTarget
    <3>2. local'.item = local.item /\ local'.left = Tail(local.left)
      BY <2>1, <3>1
    <3>3. Live' = {s}
      BY <2>1, <3>1, <3>2 DEF Live
    <3>4. out' = out \/ \E e : Number(node, e) = r.id /\ e.to = <<Head(r.left)>> /\ out' = Append(out, e)
      <4> DEFINE e == Emission(local.item, <<Head(local.left)>>, local.action)
      <4>1. out' = out \/ out' = Append(out, e)
        BY <2>3 DEF TellTarget
      <4>2. Number(node, e) = r.id /\ e.to = <<Head(r.left)>>
        BY <2>1 DEF Emission, Number
      <4> HIDE DEF e
      <4> QED
        BY <4>1, <4>2
    <3> HIDE DEF r, s
    <3>5. Told(node, out', (Live \ {r}) \cup {s}, Low(got))
      BY <1>1, <2>1, <3>1, <3>4, ToldTells
    <3>6. Live' = (Live \ {r}) \cup {s}
      BY <2>1, <3>3
    <3> QED
      BY <1>3, <2>1, <3>5, <3>6
  <2>4. CASE TargetFails
    <3>1. Live' = {} /\ UNCHANGED <<out, got>> /\ pc' \in {"loop", "failed"}
      BY <2>1, <2>4 DEF TargetFails, Again, Enter, dataVars, Live
    <3> QED
      BY <1>4, <3>1
  <2>5. CASE TriggerDone
    <3>1. Live' = {} /\ pc' = "loop" /\ r.left = <<>>
      BY <2>1, <2>5 DEF TriggerDone, Again, Enter, Live
    <3>2. CASE out' = out
      BY <1>4, <2>1, <3>1, <3>2
    <3>3. CASE out' = Append(out, Emission(local.item, <<"out">>, local.action))
      <4> DEFINE e == Emission(local.item, <<"out">>, local.action)
      <4>1. e.to = <<"out">> /\ Number(node, e) = r.id
        BY <2>1 DEF Emission, Number
      <4>2. out' = Append(out, e)
        BY <3>3
      <4> HIDE DEF e, r
      <4>3. r \in Live /\ Number(node, e) <= Low(got)
        BY <1>1, <2>1, <4>1 DEF Told, Fits
      <4>4. Told(node, out', {}, Low(got))
        BY <1>1, <3>1, <4>1, <4>2, <4>3, ToldReports
      <4> QED
        BY <1>3, <2>1, <3>1, <4>4
    <3> QED
      BY <2>5, <3>2, <3>3 DEF TriggerDone, Again
  <2> QED
    BY <1>9, <2>2, <2>3, <2>4, <2>5
<1>10. ASSUME NEW t \in Timers, DelayedTrigger(t) PROVE ToldInv'
  <2>1. /\ node.type = "debounce" /\ UNCHANGED <<pc, got>>
        /\ t \in mem.timers /\ Timers = mem.timers /\ Live = mem.timers
        /\ DOMAIN mem = {"timers", "current", "deaf"}
        /\ DOMAIN t = {"id", "left", "asleep"} /\ t.left # <<>>
    BY <1>10 DEF DelayedTrigger, TimerWakes, TimerTells, TimerFails, TimerStep, loopVars, Timers, Live,
                 TriggerTyped, Kept, NotYet
  <2>2. ASSUME NEW new, DOMAIN mem' = {"timers", "current", "deaf"}, mem'.timers = new PROVE Live' = new
    <3>1. mem' # <<>>
      BY <2>2
    <3> QED
      BY <2>1, <2>2, <3>1 DEF Live, Timers
  <2>3. CASE mem' = [mem EXCEPT !.timers = (@ \ {t}) \cup {[t EXCEPT !.asleep = FALSE]}] /\ out' = out
    <3> DEFINE s == [t EXCEPT !.asleep = FALSE]
               rest == (Live \ {t}) \cup {s}
    <3>1. s.id = t.id /\ s.left = t.left
      BY <2>1
    <3> HIDE DEF s
    <3>2. Live' = rest
      BY <2>1, <2>2, <2>3 DEF s
    <3>3. \A u, v \in Live : u.id = v.id => u = v
      BY <1>1 DEF Told
    <3>4. OneEach(rest)
      BY <2>1, <3>1, <3>3 DEF OneEach
    <3>5. Stems(node, rest, Live, Low(got), Low(got))
      <4>1. \A u \in rest : u \in Live \/ (t \in Live /\ u = s)
        BY <2>1
      <4> HIDE DEF rest
      <4> QED
        BY <3>1, <4>1 DEF Stems
    <3> HIDE DEF rest
    <3>6. Told(node, out, rest, Low(got))
      BY <1>1, <3>4, <3>5, ToldBegins
    <3> QED
      BY <1>1, <1>3, <2>1, <2>3, <3>2, <3>6
  <2>4. ASSUME NEW o \in {out, Append(out, Emission(t.id, <<Head(t.left)>>, "start"))},
               IF Tail(t.left) # <<>>
               THEN /\ mem' = [mem EXCEPT !.timers = (@ \ {t}) \cup {[t EXCEPT !.left = Tail(@)]}]
                    /\ out' = o
               ELSE /\ mem' = [mem EXCEPT !.timers = @ \ {t}, !.current = 0]
                    /\ out' = Append(o, Emission(t.id, <<"out">>, "start"))
        PROVE  ToldInv'
    <3> DEFINE s == [t EXCEPT !.left = Tail(@)]
               e == Emission(t.id, <<Head(t.left)>>, "start")
               f == Emission(t.id, <<"out">>, "start")
    <3>1. s.id = t.id /\ s.left = Tail(t.left)
      BY <2>1
    <3>2. Number(node, e) = t.id /\ e.to = <<Head(t.left)>> /\ Number(node, f) = t.id /\ f.to = <<"out">>
      BY <2>1 DEF Emission, Number
    <3>3. (o = out \/ o = Append(out, e)) /\ t.left # <<>>
      BY <2>1, <2>4
    <3>4. /\ Tail(t.left) # <<>> => mem' = [mem EXCEPT !.timers = (@ \ {t}) \cup {s}] /\ out' = o
          /\ Tail(t.left) = <<>> => mem' = [mem EXCEPT !.timers = @ \ {t}, !.current = 0]
                                   /\ out' = Append(o, f)
      BY <2>4
    <3> HIDE DEF s, e, f
    <3> DEFINE told == (Live \ {t}) \cup {s}
    <3>5. Told(node, o, told, Low(got))
      <4>1. t \in Live
        BY <2>1
      <4>2. o = out \/ \E x : Number(node, x) = t.id /\ x.to = <<Head(t.left)>> /\ o = Append(out, x)
        BY <3>2, <3>3
      <4> QED
        BY <1>1, <2>1, <3>1, <4>1, <4>2, ToldTells
    <3>6. CASE Tail(t.left) # <<>>
      <4>1. Live' = told
        BY <2>1, <2>2, <3>4, <3>6
      <4> HIDE DEF told
      <4> QED
        BY <1>1, <1>3, <2>1, <3>4, <3>5, <3>6, <4>1
    <3>7. CASE Tail(t.left) = <<>>
      <4> DEFINE rest == Live \ {t}
      <4>1. Live' = rest
        BY <2>1, <2>2, <3>4, <3>7
      <4>2. s \in told /\ s.left = <<>> /\ Number(node, f) <= Low(got) /\ s.id = Number(node, f)
        BY <1>1, <2>1, <3>1, <3>2, <3>7 DEF Told, Fits
      <4>3. rest \subseteq told /\ \A u \in rest : u.id # Number(node, f)
        BY <1>1, <2>1, <3>2 DEF Told
      <4> HIDE DEF rest, told
      <4>4. Told(node, Append(o, f), rest, Low(got))
        BY <1>1, <3>2, <3>5, <4>2, <4>3, ToldReports
      <4>5. Told(node, out', rest, Low(got')) /\ pc' = pc
        BY <2>1, <3>4, <3>7, <4>4
      <4> QED
        BY <1>1, <1>3, <4>1, <4>5
    <3> QED
      BY <3>6, <3>7
  <2>5. CASE mem' = [mem EXCEPT !.timers = @ \ {t}] /\ out' = out
    <3>1. Live' = Live \ {t}
      BY <2>1, <2>2, <2>5
    <3> QED
      BY <1>1, <1>4, <2>1, <2>5, <3>1
  <2>6. CASE TimerWakes(t)
    BY <2>3, <2>6 DEF TimerWakes, TimerStep
  <2>7. CASE TimerTells(t)
    BY <2>4, <2>7 DEF TimerTells, TimerStep
  <2>8. CASE TimerFails(t)
    BY <2>5, <2>8 DEF TimerFails, TimerStep
  <2> QED
    BY <1>10, <2>6, <2>7, <2>8 DEF DelayedTrigger
<1>11. CASE SourceStep
  BY <1>8, <1>9, <1>10, <1>11, TriggerSteps DEF TriggerStep
<1> QED
  BY <1>2, <1>5, <1>6, <1>7, <1>11 DEF SourceChange

LEMMA ToldMeaning == ASSUME node \in AllTypes, ToldInv PROVE ToldOnceInOrder
<1> SUFFICES ASSUME node.type \in ItemTriggers,
                    NEW j \in DOMAIN out, NEW k \in DOMAIN out, j < k, out[j].item = out[k].item
             PROVE  Place(j) < Place(k)
  BY DEF ToldOnceInOrder
<1>1. Place(j) = PlaceAt(node, out[j].to) /\ Place(k) = PlaceAt(node, out[k].to)
  BY Zenon DEF Place, PlaceAt, Targets, TargetsOf
<1>2. Number(node, out[j]) = Number(node, out[k])
  BY DEF Number
<1>3. Told(node, out, Live, Low(got))
  BY DEF ToldInv
<1> QED
  BY <1>1, <1>2, <1>3 DEF Told

-----------------------------------------------------------------------------
(* The timers of a debounce.                                               *)

\* One timer for an init(), and one for each that goes on after its cancel, with
\* the next item's among them, unless one is current.
Awaited(m) == IF \E t \in m.timers : t.id = m.current THEN 0 ELSE 1
TimersKept(m, n) ==
  /\ IsFiniteSet(m.timers)
  /\ \A t \in m.timers : t.id # 0
  /\ m.deaf \in Nat
  /\ Cardinality(m.timers) + Awaited(m) <= n + m.deaf

TimersInv == node.type = "debounce" /\ starts # 0 => TimersKept(mem, starts)

LEMMA OneReplaced ==
  ASSUME NEW S, IsFiniteSet(S), NEW t \in S, NEW s
  PROVE  /\ IsFiniteSet(S \ {t}) /\ Cardinality(S \ {t}) = Cardinality(S) - 1
         /\ IsFiniteSet((S \ {t}) \cup {s}) /\ Cardinality((S \ {t}) \cup {s}) <= Cardinality(S)
         /\ Cardinality(S) \in Nat /\ Cardinality((S \ {t}) \cup {s}) \in Nat
<1>1. /\ IsFiniteSet(S \ {t}) /\ Cardinality(S \ {t}) = Cardinality(S) - 1 /\ Cardinality(S) \in Nat
  BY FS_RemoveElement, FS_CardinalityType
<1> DEFINE T == S \ {t}
<1>2. IsFiniteSet(T) /\ Cardinality(T) = Cardinality(S) - 1
  BY <1>1
<1> HIDE DEF T
<1>3. /\ IsFiniteSet(T \cup {s}) /\ Cardinality(T \cup {s}) \in Nat
      /\ Cardinality(T \cup {s}) <= Cardinality(T) + 1
  BY <1>2, AddedOne
<1>4. Cardinality(T \cup {s}) <= Cardinality(S)
  BY <1>1, <1>2, <1>3
<1> QED
  BY <1>1, <1>3, <1>4 DEF T

\* The current timer leaves, or goes on, and another takes its place.
LEMMA OneMoreTimer ==
  ASSUME NEW m, IsFiniteSet(m.timers), NEW deaf \in SUBSET CurrentTimer(m), NEW s
  PROVE  LET rest == (m.timers \ CurrentTimer(m)) \cup deaf \cup {s}
         IN /\ IsFiniteSet(deaf) /\ Cardinality(deaf) \in Nat
            /\ IsFiniteSet(rest) /\ Cardinality(rest) \in Nat
            /\ Cardinality(rest) <= Cardinality(m.timers) + Awaited(m) + Cardinality(deaf)
<1> DEFINE old == CurrentTimer(m)
           kept == m.timers \ old
           both == kept \cup deaf
<1>1. old \subseteq m.timers /\ deaf \subseteq m.timers /\ kept \subseteq m.timers
  BY DEF CurrentTimer
<1>2. /\ IsFiniteSet(deaf) /\ Cardinality(deaf) \in Nat
      /\ IsFiniteSet(kept) /\ Cardinality(kept) \in Nat
      /\ Cardinality(kept) <= Cardinality(m.timers) /\ Cardinality(m.timers) \in Nat
  BY <1>1, FS_Subset, FS_CardinalityType
<1>3. Cardinality(kept) + 1 <= Cardinality(m.timers) + Awaited(m) /\ Awaited(m) \in {0, 1}
  <2>1. CASE \E t \in m.timers : t.id = m.current
    <3>1. PICK t \in m.timers : t.id = m.current
      BY <2>1
    <3>2. kept \subseteq m.timers \ {t}
      BY <3>1 DEF CurrentTimer
    <3> HIDE DEF kept
    <3>3. /\ IsFiniteSet(m.timers \ {t})
          /\ Cardinality(m.timers \ {t}) = Cardinality(m.timers) - 1
      BY <3>1, FS_RemoveElement
    <3>4. Cardinality(kept) <= Cardinality(m.timers) - 1
      BY <3>2, <3>3, FS_Subset
    <3>5. Awaited(m) = 0
      BY <2>1 DEF Awaited
    <3> QED
      BY <1>2, <3>4, <3>5
  <2>2. CASE ~\E t \in m.timers : t.id = m.current
    BY <1>2, <2>2 DEF Awaited
  <2> QED
    BY <2>1, <2>2
<1> HIDE DEF old, kept
<1>4. /\ IsFiniteSet(both) /\ Cardinality(both) \in Nat
      /\ Cardinality(both) <= Cardinality(kept) + Cardinality(deaf)
  <2>1. IsFiniteSet(kept \cap deaf) /\ Cardinality(kept \cap deaf) \in Nat
    BY <1>2, FS_Intersection, FS_CardinalityType
  <2>2. /\ IsFiniteSet(both)
        /\ Cardinality(both) = Cardinality(kept) + Cardinality(deaf) - Cardinality(kept \cap deaf)
    BY <1>2, FS_Union
  <2>3. Cardinality(both) \in Nat
    BY <2>2, FS_CardinalityType
  <2> QED
    BY <1>2, <2>1, <2>2, <2>3
<1> HIDE DEF both
<1>5. /\ IsFiniteSet(both \cup {s}) /\ Cardinality(both \cup {s}) \in Nat
      /\ Cardinality(both \cup {s}) <= Cardinality(both) + 1
  BY <1>4, AddedOne
<1>6. Cardinality(both \cup {s}) <= Cardinality(m.timers) + Awaited(m) + Cardinality(deaf)
  BY <1>2, <1>3, <1>4, <1>5
<1> QED
  BY <1>2, <1>5, <1>6 DEF both, kept, old

LEMMA TimersStep ==
  ASSUME node \in AllTypes, node' = node, TriggerTyped, TimersInv, [Next]_vars
  PROVE  TimersInv'
<1> SUFFICES ASSUME node.type = "debounce", starts' # 0 PROVE TimersKept(mem', starts')
  BY DEF TimersInv
<1>1. /\ node.type \in ItemTriggers /\ starts \in Nat
      /\ pc \in {"none", "loop", "delay", "trigger", "failed"}
      /\ starts # 0 => /\ TimersKept(mem, starts) /\ DOMAIN mem = {"timers", "current", "deaf"}
                       /\ \A t \in mem.timers : DOMAIN t = {"id", "left", "asleep"}
      /\ starts = 0 => NotYet
      /\ node.type # "cron"
  BY DEF ItemTriggers, TriggerTyped, TimersInv, Kept
<1>2. SourceChange
  BY <1>1, TriggerNode, SourceNext DEF SourceRetry, Raising
<1>3. CASE UNCHANGED <<mem, starts>>
  BY <1>1, <1>3
<1>4. CASE Aside
  BY <1>3, <1>4 DEF Aside, lifeVars
<1>5. CASE Start(SourceMem, SourceLocal)
  <2>1. /\ starts' = starts + 1
        /\ mem' = [timers |-> Timers, current |-> 0, deaf |-> IF mem = <<>> THEN 0 ELSE mem.deaf]
    BY <1>5, SourceFresh DEF Start
  <2>2. mem'.timers = Timers /\ mem'.current = 0 /\ mem'.deaf = (IF mem = <<>> THEN 0 ELSE mem.deaf)
    BY <2>1
  <2>3. CASE starts = 0
    <3>1. Timers = {} /\ mem = <<>>
      BY <1>1, <2>3 DEF Timers, NotYet
    <3> QED
      BY <2>1, <2>2, <2>3, <3>1, FS_EmptySet DEF TimersKept, Awaited
  <2>4. CASE starts # 0
    <3>1. Timers = mem.timers /\ mem'.deaf = mem.deaf
      <4>1. mem # <<>>
        BY <1>1, <2>4
      <4> QED
        BY <2>2, <4>1 DEF Timers
    <3>2. /\ IsFiniteSet(mem.timers) /\ Cardinality(mem.timers) \in Nat /\ Awaited(mem) \in {0, 1}
          /\ \A t \in mem.timers : t.id # 0
          /\ mem.deaf \in Nat /\ Cardinality(mem.timers) + Awaited(mem) <= starts + mem.deaf
      BY <1>1, <2>4, FS_CardinalityType DEF TimersKept, Awaited
    <3>3. Awaited(mem') = 1
      BY <2>2, <3>1, <3>2 DEF Awaited
    <3> QED
      BY <1>1, <2>1, <2>2, <3>1, <3>2, <3>3 DEF TimersKept
  <2> QED
    BY <2>3, <2>4
<1>6. CASE Resume(SourceLocal) \/ Pause \/ Stop
  BY <1>3, <1>6 DEF Resume, Pause, Stop, Cancel, dataVars
<1>7. CASE SourceStep
  <2>1. TriggerStep
    BY <1>1, <1>7, TriggerSteps
  <2>2. starts # 0 /\ starts' = starts
    BY <1>1, <2>1
       DEF TriggerStep, ReadsIn, Delay, TellTarget, TargetFails, TriggerDone, Again, Timers, NotYet,
           DelayedTrigger, TimerWakes, TimerTells, TimerFails, TimerStep, lifeVars
  <2>3. /\ IsFiniteSet(mem.timers) /\ Cardinality(mem.timers) \in Nat /\ Awaited(mem) \in {0, 1}
        /\ \A t \in mem.timers : t.id # 0
        /\ mem.deaf \in Nat /\ Cardinality(mem.timers) + Awaited(mem) <= starts + mem.deaf
        /\ DOMAIN mem = {"timers", "current", "deaf"}
        /\ \A t \in mem.timers : DOMAIN t = {"id", "left", "asleep"}
    BY <1>1, <2>2, FS_CardinalityType DEF TimersKept, Awaited
  <2>4. ASSUME ReadsIn PROVE TimersKept(mem', starts')
    <3>1. CASE mem' = mem
      BY <1>3, <2>2, <3>1
    <3>2. CASE pipe["in"] # <<>> /\ TakesIn(Head(pipe["in"]))
      <4> DEFINE i == Head(pipe["in"])
                 new == TimerOf(i)
      <4>1. i.n # 0
        BY <1>1, <3>2, ReadTyped, NodeLoopAssumption
      <4>2. new.id = i.n
        BY DEF TimerOf
      <4>3. PICK deaf \in SUBSET CurrentTimer(mem) : mem' = WithTimer(mem, i, deaf)
        BY <3>2 DEF TakesIn
      <4> DEFINE rest == (mem.timers \ CurrentTimer(mem)) \cup deaf \cup {new}
      <4>4. mem'.timers = rest /\ mem'.current = i.n /\ mem'.deaf = mem.deaf + Cardinality(deaf)
        BY <2>3, <4>3 DEF WithTimer
      <4> HIDE DEF i, new
      <4>5. Awaited(mem') = 0 /\ \A t \in mem'.timers : t.id # 0
        BY <2>3, <4>1, <4>2, <4>4 DEF Awaited, CurrentTimer
      <4>6. /\ IsFiniteSet(deaf) /\ Cardinality(deaf) \in Nat
            /\ IsFiniteSet(rest) /\ Cardinality(rest) \in Nat
            /\ Cardinality(rest) <= Cardinality(mem.timers) + Awaited(mem) + Cardinality(deaf)
        BY <2>3, OneMoreTimer
      <4> HIDE DEF rest
      <4> QED
        BY <1>1, <2>2, <2>3, <4>4, <4>5, <4>6 DEF TimersKept
    <3> QED
      BY <2>4, <3>1, <3>2 DEF ReadsIn
  <2>5. CASE Delay \/ TellTarget \/ TargetFails \/ TriggerDone
    BY <1>1, <1>3, <2>2, <2>5 DEF Delay, TellTarget, TargetFails, TriggerDone, Again, dataVars
  <2>6. ASSUME NEW t \in Timers, DelayedTrigger(t) PROVE TimersKept(mem', starts')
    <3>1. t \in mem.timers
      <4>1. mem # <<>>
        BY <2>3
      <4> QED
        BY <2>6, <4>1 DEF Timers
    <3>2. ASSUME NEW s, s.id = t.id, mem' = [mem EXCEPT !.timers = (@ \ {t}) \cup {s}]
          PROVE  TimersKept(mem', starts')
      <4>1. /\ mem'.timers = (mem.timers \ {t}) \cup {s} /\ mem'.current = mem.current
            /\ mem'.deaf = mem.deaf
        BY <2>3, <3>2
      <4>2. /\ IsFiniteSet(mem'.timers) /\ Cardinality(mem'.timers) \in Nat
            /\ Cardinality(mem'.timers) <= Cardinality(mem.timers)
        <5> DEFINE S == mem.timers
                   T == (S \ {t}) \cup {s}
        <5>1. IsFiniteSet(S) /\ t \in S
          BY <2>3, <3>1
        <5> HIDE DEF S
        <5>2. IsFiniteSet(T) /\ Cardinality(T) \in Nat /\ Cardinality(T) <= Cardinality(S)
          BY <5>1, OneReplaced
        <5>3. mem'.timers = T
          BY <4>1 DEF S
        <5> HIDE DEF T
        <5> QED
          BY <5>2, <5>3 DEF S
      <4>3. Awaited(mem') = Awaited(mem)
        <5>1. (\E u \in mem'.timers : u.id = mem'.current) <=> \E u \in mem.timers : u.id = mem.current
          BY <3>1, <3>2, <4>1
        <5> QED
          BY <5>1 DEF Awaited
      <4>4. \A u \in mem'.timers : u.id # 0
        BY <2>3, <3>1, <3>2, <4>1
      <4> QED
        <5>1. mem'.deaf = mem.deaf
          BY <4>1
        <5> QED
          BY <1>1, <2>2, <2>3, <4>2, <4>3, <4>4, <5>1 DEF TimersKept
    <3>3. CASE \/ mem' = [mem EXCEPT !.timers = @ \ {t}, !.current = 0]
               \/ mem' = [mem EXCEPT !.timers = @ \ {t}]
      <4>1. mem'.timers = mem.timers \ {t} /\ mem'.deaf = mem.deaf
        BY <2>3, <3>3
      <4>2. IsFiniteSet(mem'.timers) /\ Cardinality(mem'.timers) = Cardinality(mem.timers) - 1
        BY <2>3, <3>1, <4>1, FS_RemoveElement
      <4>3. Awaited(mem') \in {0, 1} /\ \A u \in mem'.timers : u.id # 0
        BY <2>3, <4>1 DEF Awaited
      <4> QED
        <5>1. mem'.deaf = mem.deaf
          BY <4>1
        <5> QED
          BY <1>1, <2>2, <2>3, <4>2, <4>3, <5>1 DEF TimersKept
    <3>4. [t EXCEPT !.asleep = FALSE].id = t.id /\ [t EXCEPT !.left = Tail(@)].id = t.id
      BY <2>3, <3>1
    <3> QED
      BY <2>6, <3>2, <3>3, <3>4 DEF DelayedTrigger, TimerWakes, TimerTells, TimerFails, TimerStep
  <2> QED
    BY <2>1, <2>4, <2>5, <2>6 DEF TriggerStep
<1> QED
  BY <1>2, <1>4, <1>5, <1>6, <1>7 DEF SourceChange

LEMMA TimersMeaning == ASSUME TriggerTyped, TimersInv PROVE OneTimerPerInit
<1> SUFFICES ASSUME node.type = "debounce", mem # <<>> PROVE Cardinality(Timers) <= starts + mem.deaf
  BY DEF OneTimerPerInit
<1>1. starts # 0
  BY DEF TriggerTyped, ItemTriggers, NotYet
<1>2. starts \in Nat /\ TimersKept(mem, starts)
  BY <1>1 DEF TimersInv, TriggerTyped, ItemTriggers
<1>3. Timers = mem.timers
  BY DEF Timers
<1>4. Cardinality(mem.timers) \in Nat /\ Awaited(mem) \in {0, 1}
  BY <1>2, FS_CardinalityType DEF TimersKept, Awaited
<1> QED
  BY <1>2, <1>3, <1>4 DEF TimersKept

-----------------------------------------------------------------------------
(* A threshold counts the items since init(), and starts again at each fire. *)

Limit == node.opt.threshold

\* What it has counted, of the n items since init().
Counted(m, where, n, limit) ==
  /\ where \in {"none", "loop", "trigger", "failed"}
  /\ where = "loop" => m.n < limit /\ m.n = n % limit
  /\ where = "trigger" => m.n = limit /\ n % limit = 0

ThresholdInv ==
  node.type = "threshold" /\ node.opt.resets =>
    /\ base \in Nat /\ base <= Len(got)
    /\ life = "paused" => cuts # 0
    /\ starts # 0 /\ cuts = 0 => Counted(mem, pc, Len(got) - base, Limit)

LEMMA NextCount ==
  ASSUME NEW n \in Nat, NEW c \in {1, 2}
  PROVE  /\ 0 % c = 0
         /\ (n % c) + 1 >= c => (n % c) + 1 = c /\ (n + 1) % c = 0
         /\ ~((n % c) + 1 >= c) => (n % c) + 1 = (n + 1) % c /\ (n % c) + 1 < c
<1>1. CASE c = 1
  BY <1>1
<1>2. CASE c = 2
  BY <1>2
<1> QED
  BY <1>1, <1>2

LEMMA ThresholdStep ==
  ASSUME node \in AllTypes, node' = node, TriggerTyped, ThresholdInv, [Next]_vars
  PROVE  ThresholdInv'
<1> SUFFICES ASSUME node.type = "threshold", node.opt.resets PROVE ThresholdInv'
  BY DEF ThresholdInv
<1>1. /\ node.type \in ItemTriggers /\ starts \in Nat /\ cuts \in Nat
      /\ pc \in {"none", "loop", "delay", "trigger", "failed"}
      /\ got \in Seq(Item) /\ Len(got) \in Nat
      /\ base \in Nat /\ base <= Len(got)
      /\ life = "paused" => cuts # 0
      /\ life # "running" => pc = "none"
      /\ starts # 0 => DOMAIN mem = {"n"}
      /\ starts = 0 => NotYet
      /\ starts # 0 /\ cuts = 0 => Counted(mem, pc, Len(got) - base, Limit)
      /\ node.type # "cron"
  BY DEF ItemTriggers, TriggerTyped, ThresholdInv, Kept
<1>2. (SourceChange \/ SourceRetry) /\ Limit \in {1, 2}
  BY <1>1, TriggerNode, SourceNext DEF Limit
<1>3. ASSUME UNCHANGED <<base, life, cuts>>, NEW n, n = Len(got'), n \in Nat, Len(got) <= n,
             starts' # 0 /\ cuts = 0 => Counted(mem', pc', n - base, Limit)
      PROVE  ThresholdInv'
  BY <1>1, <1>3 DEF ThresholdInv, Counted, Limit
<1>4. CASE Aside
  BY <1>1, <1>3, <1>4 DEF Aside, lifeVars
<1>5. CASE Start(SourceMem, SourceLocal)
  <2>1. /\ base' = Len(got) /\ got' = got /\ cuts' = cuts /\ pc' = "loop" /\ life' = "running"
        /\ mem' = [n |-> 0]
    BY <1>5, SourceFresh DEF Start, Enter
  <2>2. Len(got') - base' = 0 /\ mem'.n = 0 /\ 0 % Limit = 0 /\ 0 < Limit
    BY <1>1, <1>2, <2>1, NextCount
  <2>3. Counted(mem', pc', Len(got') - base', Limit)
    BY <2>1, <2>2 DEF Counted
  <2> QED
    BY <1>1, <2>1, <2>3 DEF ThresholdInv, Counted, Limit
<1>6. CASE Resume(SourceLocal)
  <2>1. UNCHANGED <<base, got, cuts>> /\ cuts # 0 /\ life' = "running"
    BY <1>1, <1>6 DEF Resume, dataVars
  <2> QED
    BY <1>1, <2>1 DEF ThresholdInv
<1>7. CASE SourceRetry
  <2>1. base' = Len(got) /\ got' = got /\ cuts' # 0 /\ life' = life /\ pc # "none"
    BY <1>1, <1>7 DEF SourceRetry, Retry
  <2> QED
    BY <1>1, <2>1 DEF ThresholdInv
<1>8. CASE Pause \/ Stop
  <2>1. UNCHANGED <<base, got>> /\ cuts' # 0
    BY <1>1, <1>8 DEF Pause, Stop, Cancel, dataVars
  <2> QED
    BY <1>1, <2>1 DEF ThresholdInv
<1>9. CASE SourceStep
  <2>1. TriggerStep
    BY <1>1, <1>9, TriggerSteps
  <2>2. starts # 0 /\ UNCHANGED <<base, life, cuts>>
    BY <1>1, <2>1
       DEF TriggerStep, ReadsIn, Delay, TellTarget, TargetFails, TriggerDone, Again, Timers, NotYet,
           DelayedTrigger, TimerWakes, TimerTells, TimerFails, TimerStep, lifeVars, dataVars
  <2>3. /\ Len(got) - base \in Nat
        /\ cuts = 0 => Counted(mem, pc, Len(got) - base, Limit)
    BY <1>1, <2>2
  <2>4. CASE cuts # 0
    <3>1. Len(got') \in Nat /\ Len(got) <= Len(got')
      BY <1>1, <2>1
         DEF TriggerStep, ReadsIn, Delay, TellTarget, TargetFails, TriggerDone, Again,
             DelayedTrigger, TimerWakes, TimerTells, TimerFails, TimerStep, dataVars
    <3> QED
      BY <1>3, <2>2, <2>4, <3>1
  <2>5. ASSUME cuts = 0, ReadsIn PROVE ThresholdInv'
    <3>1. pc = "loop" /\ mem.n < Limit /\ mem.n = (Len(got) - base) % Limit
      BY <2>3, <2>5 DEF ReadsIn, Counted
    <3>2. CASE UNCHANGED <<pc, mem, got>>
      BY <1>1, <1>3, <2>2, <2>3, <3>2
    <3>3. ASSUME NEW i, TakesIn(i), got' = Append(got, i) PROVE ThresholdInv'
      <4> DEFINE n == Len(got) - base
      <4>1. n \in Nat /\ Len(got') = Len(got) + 1 /\ Len(got') - base = n + 1
        BY <1>1, <2>3, <3>3
      <4> HIDE DEF n
      <4>2. mem.n = n % Limit
        BY <3>1 DEF n
      <4>3. mem'.n = (n % Limit) + 1
        BY <1>1, <2>2, <3>3, <4>2 DEF TakesIn
      <4>4. IF (n % Limit) + 1 >= Limit THEN pc' = "trigger" ELSE pc' = "loop"
        BY <3>1, <3>3, <4>2 DEF TakesIn, Limit
      <4>5. Counted(mem', pc', n + 1, Limit)
        BY <1>2, <4>1, <4>3, <4>4, NextCount DEF Counted
      <4> QED
        BY <1>1, <1>3, <2>2, <4>1, <4>5
    <3> QED
      BY <2>5, <3>2, <3>3 DEF ReadsIn
  <2>6. ASSUME cuts = 0, Delay \/ TellTarget \/ TargetFails \/ TriggerDone PROVE ThresholdInv'
    <3>1. got' = got /\ pc = "trigger" /\ (Len(got) - base) % Limit = 0
      BY <2>3, <2>6 DEF Delay, TellTarget, TargetFails, TriggerDone, Again, dataVars, Counted
    <3>2. CASE TellTarget
      BY <1>1, <1>3, <2>2, <2>3, <3>1, <3>2 DEF TellTarget
    <3>3. CASE TargetFails
      <4>1. pc' = "failed"
        BY <3>3 DEF TargetFails
      <4> QED
        BY <1>1, <1>3, <2>2, <3>1, <4>1 DEF Counted
    <3>4. CASE TriggerDone
      <4>1. mem' = [mem EXCEPT !.n = 0] /\ pc' = "loop"
        BY <3>4 DEF TriggerDone, Again, Enter
      <4>2. mem'.n = 0 /\ 0 < Limit
        BY <1>1, <1>2, <2>2, <4>1
      <4> QED
        BY <1>1, <1>3, <2>2, <3>1, <4>1, <4>2 DEF Counted
    <3> QED
      BY <2>6, <3>1, <3>2, <3>3, <3>4 DEF Delay
  <2>7. ~\E t \in Timers : DelayedTrigger(t)
    BY DEF Timers
  <2> QED
    BY <2>1, <2>4, <2>5, <2>6, <2>7 DEF TriggerStep
<1> QED
  BY <1>2, <1>4, <1>5, <1>6, <1>8, <1>9, <1>7 DEF SourceChange

LEMMA ThresholdMeaning == ASSUME TriggerTyped, ThresholdInv PROVE ThresholdIsReset
<1> SUFFICES ASSUME node.type = "threshold", node.opt.resets, pc = "loop", cuts = 0
             PROVE  mem.n < node.opt.threshold /\ mem.n = Len(Fresh) % node.opt.threshold
  BY DEF ThresholdIsReset
<1>1. got \in Seq(Item) /\ base \in Nat /\ base <= Len(got) /\ (starts = 0 => NotYet)
  BY DEF TriggerTyped, ItemTriggers, ThresholdInv
<1>2. Len(Fresh) = Len(got) - base
  BY <1>1 DEF Fresh
<1>3. starts # 0
  BY <1>1 DEF NotYet
<1> QED
  BY <1>2, <1>3 DEF ThresholdInv, Counted, Limit

-----------------------------------------------------------------------------
(* The rounds of a toggle.                                                 *)

Repeats(o) ==
  {k \in RoundsOf(o) : \E j \in RoundsOf(o) :
     j < k /\ o[j].form = o[k].form /\ \A i \in RoundsOf(o) : i <= j \/ k <= i}

\* The last round has the form f: another one of it would be a repetition.
LastIs(o, f) == \E j \in RoundsOf(o) : o[j].form = f /\ \A i \in RoundsOf(o) : i <= j

\* The form of the next round, and whether a repetition has been paid for
\* by a cut: a stopped node may begin with its first form again.
NextForm(where, doing, on) ==
  IF where = "trigger" THEN doing ELSE IF on THEN "stop" ELSE "start"
Owed(state, where, o, f) ==
  IF state = "stopped" THEN 1
  ELSE IF where # "failed" /\ LastIs(o, f) THEN 1 ELSE 0

ToggleInv ==
  node.type = "trigger_toggle" =>
    /\ pc # "delay"
    /\ IsSeq(out) /\ IsFiniteSet(Repeats(out))
    /\ pc = "trigger" => local.action = (IF mem.on THEN "start" ELSE "stop")
    /\ IF starts = 0 THEN Repeats(out) = {}
       ELSE Cardinality(Repeats(out)) + Owed(life, pc, out, NextForm(pc, local.action, mem.on))
              <= cuts

LEMMA RoundTold ==
  ASSUME NEW o, IsSeq(o), NEW e, e.to # <<"out">>, NEW t, t = Append(o, e)
  PROVE  IsSeq(t) /\ Repeats(t) = Repeats(o) /\ \A f : LastIs(t, f) = LastIs(o, f)
<1>1. /\ IsSeq(t)
      /\ DOMAIN o = 1..Len(o) /\ Len(o) \in Nat
      /\ DOMAIN t = 1..(Len(o) + 1) /\ Len(t) = Len(o) + 1
      /\ \A k \in 1..Len(o) : t[k] = o[k]
      /\ t[Len(o) + 1] = e
  BY AppendSeq
<1>2. RoundsOf(t) = RoundsOf(o)
  BY <1>1 DEF RoundsOf
<1>3. \A k \in RoundsOf(o) : t[k] = o[k]
  BY <1>1 DEF RoundsOf
<1> HIDE DEF RoundsOf
<1>4. Repeats(t) = Repeats(o)
  BY <1>2, <1>3 DEF Repeats
<1>5. \A f : LastIs(t, f) = LastIs(o, f)
  BY <1>2, <1>3 DEF LastIs
<1> QED
  BY <1>1, <1>4, <1>5

LEMMA RoundReported ==
  ASSUME NEW o, IsSeq(o), IsFiniteSet(Repeats(o)), NEW e, e.to = <<"out">>, NEW t, t = Append(o, e)
  PROVE  /\ IsSeq(t) /\ IsFiniteSet(Repeats(t))
         /\ Cardinality(Repeats(t)) \in Nat /\ Cardinality(Repeats(o)) \in Nat
         /\ Cardinality(Repeats(t)) <= Cardinality(Repeats(o)) + (IF LastIs(o, e.form) THEN 1 ELSE 0)
         /\ \A f : f # e.form => ~LastIs(t, f)
<1>1. /\ IsSeq(t)
      /\ DOMAIN o = 1..Len(o) /\ Len(o) \in Nat
      /\ DOMAIN t = 1..(Len(o) + 1) /\ Len(t) = Len(o) + 1
      /\ \A k \in 1..Len(o) : t[k] = o[k]
      /\ t[Len(o) + 1] = e
  BY AppendSeq
<1> DEFINE n == Len(o) + 1
<1>2. /\ RoundsOf(t) = RoundsOf(o) \cup {n} /\ t[n] = e
      /\ \A k \in RoundsOf(o) : t[k] = o[k] /\ k \in Int /\ k < n
      /\ n \in Nat
  BY <1>1 DEF RoundsOf
<1> HIDE DEF n
<1>3. \A k \in Repeats(t) : k \in Repeats(o) \/ (k = n /\ LastIs(o, e.form))
  <2> SUFFICES ASSUME NEW k \in Repeats(t)
               PROVE  k \in Repeats(o) \/ (k = n /\ LastIs(o, e.form))
    OBVIOUS
  <2>1. k \in RoundsOf(t)
    BY DEF Repeats
  <2>2. PICK j \in RoundsOf(t) :
          j < k /\ t[j].form = t[k].form /\ \A i \in RoundsOf(t) : i <= j \/ k <= i
    BY DEF Repeats
  <2>3. j \in RoundsOf(o)
    BY <1>2, <2>1, <2>2
  <2>4. CASE k = n
    <3>1. \A i \in RoundsOf(o) : i <= j
      BY <1>2, <2>2, <2>4
    <3> QED
      BY <1>2, <2>2, <2>3, <2>4, <3>1 DEF LastIs
  <2>5. CASE k # n
    <3>1. k \in RoundsOf(o)
      BY <1>2, <2>1, <2>5
    <3> QED
      BY <1>2, <2>2, <2>3, <3>1 DEF Repeats
  <2> QED
    BY <2>4, <2>5
<1>4. /\ Repeats(t) \subseteq Repeats(o) \cup {n}
      /\ ~LastIs(o, e.form) => Repeats(t) \subseteq Repeats(o)
  BY <1>3
<1>5. ASSUME NEW f, LastIs(t, f) PROVE f = e.form
  <2>1. PICK j \in RoundsOf(t) : t[j].form = f /\ \A i \in RoundsOf(t) : i <= j
    BY <1>5 DEF LastIs
  <2>2. j = n
    BY <1>2, <2>1
  <2> QED
    BY <1>2, <2>1, <2>2
<1> HIDE DEF Repeats, LastIs
<1>6. /\ IsFiniteSet(Repeats(t)) /\ Cardinality(Repeats(t)) \in Nat
      /\ Cardinality(Repeats(o)) \in Nat
      /\ Cardinality(Repeats(t)) <= Cardinality(Repeats(o)) + 1
      /\ Repeats(t) \subseteq Repeats(o) => Cardinality(Repeats(t)) <= Cardinality(Repeats(o))
  BY <1>4, AddedOne
<1> QED
  BY <1>1, <1>4, <1>5, <1>6

LEMMA ToggleStep ==
  ASSUME node \in AllTypes, node' = node, TriggerTyped, ToldInv, ToggleInv, [Next]_vars
  PROVE  ToggleInv'
<1> SUFFICES ASSUME node.type = "trigger_toggle" PROVE ToggleInv'
  BY DEF ToggleInv
<1> DEFINE OwedNow == Owed(life, pc, out, NextForm(pc, local.action, mem.on))
<1>1. /\ node.type \in ItemTriggers /\ starts \in Nat /\ cuts \in Nat
      /\ pc \in {"none", "loop", "trigger", "failed"}
      /\ life # "running" => pc = "none"
      /\ starts # 0 => DOMAIN mem = {"on"} /\ mem.on \in BOOLEAN
      /\ starts = 0 => NotYet
      /\ pc = "trigger" => /\ DOMAIN local = {"item", "action", "left"}
                           /\ local.action = (IF mem.on THEN "start" ELSE "stop")
      /\ node.type # "cron"
  BY DEF ItemTriggers, TriggerTyped, ToggleInv, Kept
<1>2. /\ IsSeq(out) /\ IsFiniteSet(Repeats(out)) /\ Cardinality(Repeats(out)) \in Nat
      /\ starts # 0 => Cardinality(Repeats(out)) + OwedNow <= cuts
      /\ starts = 0 => Repeats(out) = {}
      /\ OwedNow \in {0, 1}
  BY FS_CardinalityType DEF ToggleInv, Owed
<1>3. SourceChange \/ SourceRetry
  BY <1>1, TriggerNode, SourceNext
<1>4. ASSUME NEW o, o = out', NEW f, f = NextForm(pc', local'.action, mem'.on),
             pc' # "delay", IsSeq(o), IsFiniteSet(Repeats(o)),
             pc' = "trigger" => local'.action = (IF mem'.on THEN "start" ELSE "stop"),
             starts' # 0,
             Cardinality(Repeats(o)) + Owed(life', pc', o, f) <= cuts'
      PROVE  ToggleInv'
  BY <1>4 DEF ToggleInv
<1>5. CASE Aside
  BY <1>1, <1>2, <1>5 DEF Aside, lifeVars, ToggleInv
<1>6. CASE Start(SourceMem, SourceLocal)
  <2>1. /\ out' = out /\ cuts' = cuts /\ pc' = "loop" /\ starts' # 0 /\ life = "stopped"
        /\ life' # "stopped"
        /\ mem' = [on |-> FALSE]
    BY <1>1, <1>6, SourceFresh DEF Start, Enter
  <2>2. Cardinality(Repeats(out)) + Owed(life', pc', out, NextForm(pc', local'.action, mem'.on)) <= cuts
    <3>1. CASE starts = 0
      <4>1. out = <<>> /\ RoundsOf(out) = {}
        BY <1>1, <3>1 DEF NotYet, RoundsOf
      <4>2. Owed(life', pc', out, NextForm(pc', local'.action, mem'.on)) = 0
        BY <2>1, <4>1 DEF Owed, LastIs
      <4> QED
        BY <1>1, <1>2, <3>1, <4>2, FS_EmptySet
    <3>2. CASE starts # 0
      <4>1. OwedNow = 1
        BY <2>1 DEF Owed
      <4>2. Owed(life', pc', out, NextForm(pc', local'.action, mem'.on)) \in {0, 1}
        BY DEF Owed
      <4> HIDE DEF OwedNow
      <4> QED
        BY <1>1, <1>2, <3>2, <4>1, <4>2
    <3> QED
      BY <3>1, <3>2
  <2> QED
    BY <1>2, <1>4, <2>1, <2>2
<1>7. CASE SourceRetry
  <2>1. /\ out' = out /\ cuts' = cuts + 1 /\ pc' = "loop" /\ starts' # 0 /\ starts # 0
    BY <1>1, <1>7 DEF SourceRetry, Retry, Enter, NotYet
  <2>2. Owed(life', pc', out, NextForm(pc', local'.action, mem'.on)) \in {0, 1}
    BY DEF Owed
  <2> HIDE DEF OwedNow
  <2>3. Cardinality(Repeats(out)) + Owed(life', pc', out, NextForm(pc', local'.action, mem'.on)) <= cuts'
    BY <1>1, <1>2, <2>1, <2>2
  <2> QED
    BY <1>2, <1>4, <2>1, <2>3
<1>8. CASE Resume(SourceLocal)
  <2>1. /\ UNCHANGED <<out, mem, cuts, starts>> /\ pc' = "loop" /\ pc = "none" /\ life = "paused"
        /\ life' = "running" /\ starts # 0
    BY <1>1, <1>8 DEF Resume, Enter, dataVars, NotYet
  <2>2. Owed(life', pc', out, NextForm(pc', local'.action, mem'.on)) = OwedNow
    BY <2>1 DEF Owed, NextForm
  <2> HIDE DEF OwedNow
  <2> QED
    BY <1>2, <1>4, <2>1, <2>2
<1>9. CASE Pause \/ Stop
  <2>1. UNCHANGED <<out, starts>> /\ pc' = "none" /\ cuts' = cuts + 1 /\ starts # 0
    BY <1>1, <1>9 DEF Pause, Stop, Cancel, Leave, dataVars, NotYet
  <2>2. Owed(life', pc', out, NextForm(pc', local'.action, mem'.on)) \in {0, 1}
    BY DEF Owed
  <2> HIDE DEF OwedNow
  <2>3. Cardinality(Repeats(out)) + Owed(life', pc', out, NextForm(pc', local'.action, mem'.on)) <= cuts'
    BY <1>1, <1>2, <2>1, <2>2
  <2> QED
    BY <1>2, <1>4, <2>1, <2>3
<1>10. CASE SourceStep
  <2>1. TriggerStep
    BY <1>1, <1>10, TriggerSteps
  <2>2. starts # 0 /\ UNCHANGED <<life, cuts, starts>> /\ life = "running"
    BY <1>1, <2>1
       DEF TriggerStep, ReadsIn, Delay, TellTarget, TargetFails, TriggerDone, Again, Timers, NotYet,
           DelayedTrigger, TimerWakes, TimerTells, TimerFails, TimerStep, lifeVars
  <2>3. DOMAIN mem = {"on"} /\ mem.on \in BOOLEAN /\ Cardinality(Repeats(out)) + OwedNow <= cuts
    BY <1>1, <1>2, <2>2
  <2>4. ASSUME UNCHANGED <<out, pc, local, mem>> PROVE ToggleInv'
    BY <1>1, <1>2, <1>4, <2>2, <2>3, <2>4
  <2>5. ASSUME ReadsIn PROVE ToggleInv'
    <3>1. ASSUME NEW i, TakesIn(i) PROVE ToggleInv'
      <4>1. /\ pc = "loop" /\ pc' = "trigger" /\ out' = out /\ mem' = [mem EXCEPT !.on = ~@]
            /\ local' = [item |-> i, action |-> IF mem.on THEN "stop" ELSE "start", left |-> Targets]
        BY <2>5, <3>1 DEF ReadsIn, TakesIn, Begins
      <4>2. local'.action = (IF mem.on THEN "stop" ELSE "start") /\ mem'.on = ~mem.on
        BY <2>3, <4>1
      <4>3. NextForm(pc', local'.action, mem'.on) = NextForm(pc, local.action, mem.on)
        BY <4>1, <4>2 DEF NextForm
      <4>4. Owed(life', pc', out, NextForm(pc', local'.action, mem'.on)) = OwedNow
        BY <2>2, <4>1, <4>3 DEF Owed
      <4> HIDE DEF OwedNow
      <4> QED
        BY <1>2, <1>4, <2>2, <2>3, <4>1, <4>2, <4>4
    <3> QED
      BY <2>4, <2>5, <3>1 DEF ReadsIn
  <2>6. ASSUME Delay \/ TellTarget \/ TargetFails \/ TriggerDone PROVE ToggleInv'
    <3>1. pc = "trigger" /\ local.action = (IF mem.on THEN "start" ELSE "stop")
          /\ OwedNow = IF LastIs(out, local.action) THEN 1 ELSE 0
      BY <1>1, <2>2, <2>6 DEF Delay, TellTarget, TargetFails, TriggerDone, Owed, NextForm
    <3>2. CASE TellTarget
      <4>1. /\ pc' = pc /\ mem' = mem /\ local.left # <<>> /\ local' = [local EXCEPT !.left = Tail(@)]
            /\ out' = out \/ out' = Append(out, Emission(local.item, <<Head(local.left)>>, local.action))
        BY <3>2 DEF TellTarget
      <4>2. local'.action = local.action
        BY <1>1, <3>1, <4>1
      <4>3. <<Head(local.left)>> # <<"out">>
        <5>1. Fits(node, [id |-> local.item.n, left |-> local.left], Low(got))
          BY <1>1, <3>1 DEF ToldInv, Told, Live
        <5>2. local.left \in Seq({"a", "b", "c"})
          BY <5>1 DEF Fits
        <5>3. Head(local.left) \in {"a", "b", "c"}
          BY <4>1, <5>2
        <5> QED
          BY <5>3
      <4>4. /\ IsSeq(out') /\ Repeats(out') = Repeats(out)
            /\ LastIs(out', local.action) = LastIs(out, local.action)
        <5>1. CASE out' = out
          BY <1>2, <5>1
        <5>2. CASE out' = Append(out, Emission(local.item, <<Head(local.left)>>, local.action))
          <6> DEFINE e == Emission(local.item, <<Head(local.left)>>, local.action)
          <6>1. e.to # <<"out">>
            BY <4>3 DEF Emission
          <6> HIDE DEF e
          <6>2. out' = Append(out, e)
            BY <5>2 DEF e
          <6> QED
            BY <1>2, <6>1, <6>2, RoundTold
        <5> QED
          BY <4>1, <5>1, <5>2
      <4>5. Owed(life', pc', out', NextForm(pc', local'.action, mem'.on)) = OwedNow
        BY <2>2, <3>1, <4>1, <4>2, <4>4 DEF Owed, NextForm
      <4> HIDE DEF OwedNow
      <4> QED
        BY <1>2, <1>4, <2>2, <2>3, <3>1, <4>1, <4>2, <4>4, <4>5
    <3>3. CASE TargetFails
      <4>1. pc' = "failed" /\ out' = out
        BY <3>3 DEF TargetFails, dataVars
      <4>2. Owed(life', pc', out', NextForm(pc', local'.action, mem'.on)) = 0
        BY <2>2, <4>1 DEF Owed
      <4>3. Cardinality(Repeats(out)) + 0 <= cuts
        BY <1>1, <1>2, <2>3
      <4> QED
        BY <1>2, <1>4, <2>2, <4>1, <4>2, <4>3
    <3>4. CASE TriggerDone
      <4> DEFINE e == Emission(local.item, <<"out">>, local.action)
      <4>1. /\ pc' = "loop" /\ mem' = mem /\ out' = Append(out, e)
        BY <3>4 DEF TriggerDone, Again, Enter
      <4>2. e.to = <<"out">> /\ e.form = local.action
        BY DEF Emission
      <4> HIDE DEF e
      <4>3. NextForm(pc', local'.action, mem'.on) # e.form
        BY <2>3, <3>1, <4>1, <4>2 DEF NextForm
      <4>4. /\ IsSeq(out') /\ IsFiniteSet(Repeats(out'))
            /\ Cardinality(Repeats(out')) \in Nat
            /\ Cardinality(Repeats(out')) <= Cardinality(Repeats(out)) + (IF LastIs(out, e.form) THEN 1 ELSE 0)
            /\ \A f : f # e.form => ~LastIs(out', f)
        BY <1>2, <4>1, <4>2, RoundReported
      <4>5. Owed(life', pc', out', NextForm(pc', local'.action, mem'.on)) = 0
        BY <2>2, <4>1, <4>3, <4>4 DEF Owed
      <4>6. Cardinality(Repeats(out')) + 0 <= cuts
        BY <1>1, <1>2, <2>3, <3>1, <4>2, <4>4
      <4> QED
        BY <1>4, <2>2, <4>1, <4>4, <4>5, <4>6
    <3> QED
      BY <2>6, <3>1, <3>2, <3>3, <3>4 DEF Delay
  <2>7. ~\E t \in Timers : DelayedTrigger(t)
    BY DEF Timers
  <2> QED
    BY <2>1, <2>5, <2>6, <2>7 DEF TriggerStep
<1> QED
  BY <1>3, <1>5, <1>6, <1>8, <1>9, <1>10, <1>7 DEF SourceChange

LEMMA ToggleMeaning == ASSUME TriggerTyped, ToggleInv PROVE TogglesAlternate
<1> SUFFICES ASSUME node.type = "trigger_toggle" PROVE Cardinality(Repeated) <= cuts
  BY DEF TogglesAlternate
<1>1. Repeated = Repeats(out)
  BY DEF Repeated, Repeats, Rounds, RoundsOf
<1>2. Cardinality(Repeats(out)) \in Nat /\ cuts \in Nat
  BY FS_CardinalityType DEF ToggleInv, TriggerTyped, ItemTriggers
<1>3. CASE starts = 0
  BY <1>1, <1>2, <1>3, FS_EmptySet DEF ToggleInv
<1>4. CASE starts # 0
  <2>1. Cardinality(Repeats(out)) + Owed(life, pc, out, NextForm(pc, local.action, mem.on)) <= cuts
    BY <1>4 DEF ToggleInv
  <2>2. Owed(life, pc, out, NextForm(pc, local.action, mem.on)) \in {0, 1}
    BY DEF Owed
  <2> QED
    BY <1>1, <1>2, <2>1, <2>2
<1> QED
  BY <1>3, <1>4

-----------------------------------------------------------------------------
(* One cause, one trigger.                                                 *)

TriggersInv ==
  LoopTyped /\ TriggerTyped /\ ToldInv /\ TimersInv /\ ThresholdInv /\ ToggleInv

LEMMA TriggersInit == ASSUME NodeInit PROVE TriggersInv
<1>1. /\ NotYet /\ cuts = 0 /\ starts = 0 /\ base = 0 /\ got = <<>> /\ Len(got) = 0
      /\ life = "stopped" /\ pc = "none" /\ out = <<>> /\ mem = <<>> /\ local = <<>> /\ sent = 0
      /\ wired = <<>> /\ turn = <<>> /\ pass = <<>>
  BY DEF NodeInit, Init, NotYet
<1>2. LoopTyped
  BY LoopInit
<1>3. TimersInv /\ ThresholdInv
  BY <1>1 DEF TimersInv, ThresholdInv
<1>4. ToggleInv
  <2>1. Repeats(<<>>) = {}
    BY DEF Repeats, RoundsOf
  <2> QED
    BY <1>1, <2>1, NoneIsSeq, FS_EmptySet DEF ToggleInv
<1>5. TriggerTyped
  <2> SUFFICES ASSUME node.type \in ItemTriggers
               PROVE  pipe \in [{"in"} -> Seq(Item)] /\ pipe["in"] = <<>> /\ 0 \in 0..MaxItems
    BY <1>1 DEF TriggerTyped, Low
  <2>1. NodePorts = {"in"} /\ pipe = [p \in NodePorts |-> <<>>]
    BY <1>2, TriggerNode DEF LoopTyped, NodeInit, Init, NodePorts
  <2> QED
    BY <2>1, NodeLoopAssumption
<1>6. ToldInv
  <2>1. Live = {} /\ Low(got) = 0
    BY <1>1 DEF Live, Timers, Low
  <2> QED
    BY <1>1, <2>1, NoneIsSeq DEF ToldInv, Told
<1> QED
  BY <1>2, <1>3, <1>4, <1>5, <1>6 DEF TriggersInv

LEMMA TriggersStep == ASSUME TriggersInv, [Next]_vars PROVE TriggersInv'
<1>1. node \in AllTypes /\ LoopTyped /\ LoopTyped'
  BY LoopStep DEF TriggersInv, LoopTyped
<1>2. node' = node
  BY NextStays DEF TriggersInv, vars, Stays
<1> QED
  BY <1>1, <1>2, TypedStep, ToldStep, TimersStep, ThresholdStep, ToggleStep, Zenon
     DEF TriggersInv

\* For any number of items, calls and cuts: a trigger tells its targets once
\* for each item, in their order, and reports the item last; a toggle alternates
\* but for the rounds that a cut or a failing target ended; a threshold counts
\* from nought after each fire; and a debounce has at most one timer for each
\* init() and one for each that went on after it was cancelled.
THEOREM OneCauseOneTrigger == Spec => []TriggersOnce
<1>1. NodeInit => TriggersInv
  BY TriggersInit
<1>2. TriggersInv /\ [Next]_vars => TriggersInv'
  BY TriggersStep
<1>3. TriggersInv => TriggersOnce
  BY ToldMeaning, ToggleMeaning, ThresholdMeaning, TimersMeaning
     DEF TriggersInv, TriggersOnce, LoopTyped
<1> QED
  BY <1>1, <1>2, <1>3, PTL DEF Spec
=============================================================================
