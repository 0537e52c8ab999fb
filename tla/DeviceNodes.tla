---------------------------- MODULE DeviceNodes ----------------------------
(***************************************************************************)
(* The node types that work with something outside the program: processes, *)
(* sockets, brokers, loggers, HTTP and MCP services, a person, and the     *)
(* inner nodes of a subgraph.  What is outside may answer late, fail, or   *)
(* outlive the task that asked for it: it is kept in mem, which init()     *)
(* changes only as far as the code lets go of it.                          *)
(*                                                                         *)
(* A definition marked "Defect" is a wrong version of the one after it, to *)
(* check that the properties would notice; no specification uses it.       *)
(***************************************************************************)
EXTENDS NodeLoop

\* A process output and a socket client wait for their pipe and keep it.
DeviceType(t, ports, opt) ==
  [type |-> t, ports |-> ports, opt |-> opt,
   polls |-> IF t \in {"process_output", "socket_client"} THEN "kept" ELSE "named",
   varies |-> IF t = "mqtt_output" THEN ToSet(ports) ELSE {}]

Connections == {1, 2}

\* The levels of a logger: what it was, and what the node wants.
Quiet == 2
Verbose == 1

DeviceTypes ==
  {DeviceType(t, <<>>, [allowed |-> a, again |-> r]) :
     t \in {"shell_input", "script_input", "python_input"}, a \in BOOLEAN, r \in BOOLEAN}
  \cup {DeviceType("process_input", <<>>, [allowed |-> a, again |-> r, empty |-> e]) :
          a \in BOOLEAN, r \in BOOLEAN, e \in BOOLEAN}
  \cup {DeviceType("process_output", <<"in">>, [allowed |-> a, empty |-> e]) :
          a \in BOOLEAN, e \in BOOLEAN}
  \cup {DeviceType(t, <<"in">>, <<>>) :
          t \in {"http_post", "llm", "mcp_client", "socket_client", "socket_server",
                 "mqtt_output", "subgraph"}}
  \cup {DeviceType("user_prompt", <<"user">>, <<>>)}
  \cup {DeviceType(t, <<>>, <<>>) : t \in {"socket_input", "mqtt_input", "log_input"}}

\* Something outside happens: it changes what mem says and what was emitted.
Outside(type, m, o) ==
  /\ node.type = type
  /\ mem # <<>>
  /\ Len(o) <= MaxOut
  /\ mem' = m
  /\ out' = o
  /\ UNCHANGED <<node, envVars, lifeVars, loopVars, pipe, got, base>>

\* The task goes on to another place of its loop.
GoOn(type, s) ==
  /\ node.type = type
  /\ pc # "none"
  /\ Len(s.out) <= MaxOut
  /\ Becomes(s)
  /\ UNCHANGED <<node, envVars, lifeVars, turn, pass, pipe, got, base>>

\* Where a task is in its set-up.
New       == <<"new">>
Connected == <<"connected">>
Bound     == <<"bound">>
Begun     == <<"begun">>

Late == IF life = "running" THEN "data" ELSE "late"

-----------------------------------------------------------------------------
(* Commands.  mem.procs are the processes of the last run that are alive:  *)
(* the one that was started, and one it may have started in turn.          *)
(* mem.killed: whether that run was killed.                                *)

CommandInputs == {"process_input", "shell_input", "script_input"}
Commands == CommandInputs \cup {"process_output"}

\* The whole process group is killed, and waited for.
KillTree(m) == [m EXCEPT !.procs = {}, !.killed = TRUE]

Launched(m) == [m EXCEPT !.procs = {"leader"}, !.killed = FALSE]

\* After a run the loop sleeps, or the process is over.
NextRun == IF node.opt.again THEN "loop" ELSE "ended"

\* Whether the command of the config is an empty string (of one that splits it).
NoCommand == node.type \in {"process_input", "process_output"} /\ node.opt.empty

\* What cannot be started, or may not, is reported and the loop goes on; a
\* ScriptInputNode does not ask whether it may.  With no command that it may
\* run, nothing is run and nothing reported.
RunOnce(type) ==
  \E starts_ \in BOOLEAN :
    LET may == node.opt.allowed \/ type = "script_input"
    IN Turn(type,
         IF may /\ NoCommand THEN [Self EXCEPT !.pc = NextRun]
         ELSE IF may /\ starts_ THEN [Self EXCEPT !.pc = "run", !.mem = Launched(@)]
         ELSE [Give(Self, 0, <<"out">>, "error") EXCEPT !.pc = NextRun])

ProcessInput == RunOnce("process_input")
ShellInput   == RunOnce("shell_input")
ScriptInput  == RunOnce("script_input")

\* exec() of a PythonScriptInputNode does not await: nothing comes between.
PythonInput ==
  \E ok \in BOOLEAN :
    Turn("python_input",
      [Give(Self, 0, <<"out">>, IF node.opt.allowed /\ ok THEN "result" ELSE "error") EXCEPT
         !.pc = NextRun])

ProcessOutput ==
  \E starts_ \in BOOLEAN :
    Each("process_output", LAMBDA s, p, i :
      IF node.opt.allowed /\ NoCommand THEN s
      ELSE IF node.opt.allowed /\ starts_
      THEN [s EXCEPT !.pc = "run", !.local = i, !.mem = Launched(@)]
      ELSE Give(s, i, <<"out">>, "error"))

\* What the processes do meanwhile.
CommandForks ==
  \E t \in Commands :
    /\ mem.procs = {"leader"}
    /\ pc = "run"
    /\ Outside(t, [mem EXCEPT !.procs = @ \cup {"helper"}], out)
CommandExits ==
  \E t \in Commands, x \in mem.procs :
    Outside(t, [mem EXCEPT !.procs = @ \ {x}], out)

\* The result of a run: that of one item, or of one run of an input.
Reports(form, m) ==
  LET o == Append(out, Emission(IF node.type = "process_output" THEN local ELSE 0,
                                <<"out">>, form))
  IN IF node.type = "process_output" \/ NextRun = "loop"
     THEN Again(o, m, <<>>)
     ELSE GoOn(node.type, [Self EXCEPT !.out = o, !.mem = m, !.pc = "ended", !.local = <<>>])

\* communicate() returns when the process has exited and its streams are
\* closed: a process it left behind may have closed them and live on.
CommandDone ==
  /\ node.type \in Commands
  /\ pc = "run"
  /\ Len(out) < MaxOut
  /\ "leader" \notin mem.procs
  /\ Reports("result", mem)

CommandTimesOut ==
  /\ node.type \in Commands
  /\ pc = "run"
  /\ Len(out) < MaxOut
  /\ Reports("error", KillTree(mem))

-----------------------------------------------------------------------------
(* Requests: the item is announced, a service is asked, and its answer or  *)
(* its failure is emitted.  local is the item, while its request runs.     *)

Asks(type, announcement) ==
  Each(type, LAMBDA s, p, i :
    [(IF announcement = "" THEN s ELSE Give(s, i, <<announcement>>, "input")) EXCEPT
       !.pc = "await", !.local = i])

HttpPost  == Asks("http_post", "request")
LMStudio  == Asks("llm", "prompt")
SocketOut == Asks("socket_client", "")

\* An MCPClientNode reads items only while it is connected.
McpConnects ==
  /\ node.type = "mcp_client"
  /\ pc = "loop"
  /\ local = New
  /\ GoOn("mcp_client", [Self EXCEPT !.local = Connected])
McpClient ==
  /\ node.type = "mcp_client"
  /\ pc = "loop"
  /\ local = Connected
  /\ Asks("mcp_client", "")

\* The connection is lost: a call that runs is lost with it, and the loop
\* connects again.
McpDrops ==
  /\ node.type = "mcp_client"
  /\ pc = "await" \/ (pc = "loop" /\ local = Connected)
  /\ mem.drops < MaxCalls
  /\ Again(out, [mem EXCEPT !.drops = @ + 1], New)

\* What the loop begins its next turn with.
AfterAnswer == IF node.type = "mcp_client" THEN Connected ELSE <<>>

AnswerPorts(ok) ==
  CASE node.type = "http_post" -> IF ok THEN <<"response", "stats", "out">> ELSE <<"errors", "out">>
    [] node.type = "llm"       -> IF ok THEN <<"results", "stats", "out">> ELSE <<"errors", "out">>
    [] OTHER                   -> <<"out">>

\* Defect: a failure is not reported.
AnswerOrNone ==
  /\ pc = "await"
  /\ \E ok \in BOOLEAN :
       Again(IF ok THEN Append(out, Emission(local, AnswerPorts(ok), "result")) ELSE out,
             mem, AfterAnswer)

Answer ==
  /\ pc = "await"
  /\ \E ok \in BOOLEAN :
       Again(Append(out, Emission(local, AnswerPorts(ok), IF ok THEN "result" ELSE "error")),
             mem, AfterAnswer)

\* A person is asked at every turn, and the default is taken for an answer
\* when nobody gives one.
UserPrompt ==
  \/ Turn("user_prompt", [Give(Self, 0, <<"prompt">>, "input") EXCEPT !.pc = "asked"])
  \/ /\ node.type = "user_prompt"
     /\ pc = "asked"
     /\ Len(out) < MaxOut + 1
     /\ IF Contains(wired, "user") /\ pipe["user"] # <<>>
        THEN /\ out' = Append(out, Emission(Head(pipe["user"]), <<"out">>, "result"))
             /\ got' = Append(got, Head(pipe["user"]))
             /\ pipe' = [pipe EXCEPT !["user"] = Tail(@)]
        ELSE /\ out' = Append(out, Emission(0, <<"out">>, "default"))
             /\ UNCHANGED <<got, pipe>>
     /\ Enter(<<>>)
     /\ UNCHANGED <<node, envVars, lifeVars, mem, base>>

-----------------------------------------------------------------------------
(* Sockets.  mem.server: whether the port is bound; mem.clients: what each  *)
(* connection was sent, and how much had been read when it was made.       *)

\* A process that begins again after a pause finds the port bound by the
\* server it made before, reports the failure, and is over.
SocketBind ==
  /\ node.type = "socket_server"
  /\ pc = "loop"
  /\ local = New
  /\ \E free \in BOOLEAN :
       GoOn("socket_server",
         IF free /\ ~mem.server THEN [Self EXCEPT !.mem.server = TRUE, !.local = Bound]
         ELSE [Give(Self, 0, <<"out">>, "error") EXCEPT !.pc = "ended"])

SocketServe ==
  /\ node.type = "socket_server"
  /\ pc = "loop"
  /\ local = Bound
  /\ Each("socket_server", LAMBDA s, p, i :
       [s EXCEPT !.pc = "send", !.local = [item |-> i, left |-> DOMAIN mem.clients]])

\* The item is written to one connection after the other.
SocketWrites(c) ==
  /\ pc = "send"
  /\ c \in local.left
  /\ GoOn("socket_server",
       [Self EXCEPT !.local.left = @ \ {c},
          !.mem.clients[c].sent = Append(@, local.item)])

SocketSent ==
  /\ node.type = "socket_server"
  /\ pc = "send"
  /\ local.left = {}
  /\ Again(Append(out, Emission(local.item, <<"out">>, "result")), mem, Bound)

\* A connection made while the node is paused is closed at once.
ClientJoins(c) ==
  /\ life = "running"
  /\ mem.server
  /\ c \notin DOMAIN mem.clients
  /\ Outside("socket_server",
       [mem EXCEPT !.clients = [d \in DOMAIN @ \cup {c} |->
          IF d = c THEN [sent |-> <<>>, since |-> Len(got)] ELSE @[d]]], out)

\* A connection that is gone is passed over by the round that runs.
ClientLeaves(c) ==
  /\ node.type = "socket_server"
  /\ c \in DOMAIN mem.clients
  /\ mem' = [mem EXCEPT !.clients = [d \in DOMAIN @ \ {c} |-> @[d]]]
  /\ local' = IF pc = "send" THEN [local EXCEPT !.left = @ \ {c}] ELSE local
  /\ UNCHANGED <<node, envVars, lifeVars, pc, turn, pass, pipe, out, got, base>>

\* A SocketInputNode: its process is the server, which a pause closes; the
\* connections have tasks of their own, which nobody cancels.
Listens ==
  /\ pc = "loop"
  /\ GoOn("socket_input", [Self EXCEPT !.mem.server = TRUE, !.pc = "serve"])
PeerJoins ==
  /\ mem.server
  /\ mem.joined < MaxItems
  /\ Outside("socket_input",
       [mem EXCEPT !.peers = @ \cup {mem.joined + 1}, !.joined = @ + 1], out)

\* What a connection sends is emitted; only then its task looks whether the
\* node still runs.
PeerSends(c) ==
  /\ c \in mem.peers
  /\ Outside("socket_input",
       IF life = "running" THEN mem ELSE [mem EXCEPT !.peers = @ \ {c}],
       Append(out, Emission(c, <<"out">>, Late)))
PeerLeaves(c) ==
  /\ c \in mem.peers
  /\ Outside("socket_input", [mem EXCEPT !.peers = @ \ {c}], out)

-----------------------------------------------------------------------------
(* MQTT.  A client is connected by a thread of its own and stays until it  *)
(* is told to disconnect.  mem.clients are those alive, mem.current the    *)
(* one in _client, mem.key the settings it should be connected with.       *)
(* local: the settings it was connected with, and the client being         *)
(* replaced.                                                               *)

Mqtt == {"mqtt_input", "mqtt_output"}

NewClient(s) ==
  LET c == s.mem.made + 1
  IN [s EXCEPT !.mem.made = c, !.mem.clients = @ \cup {c}, !.mem.current = c]

\* Every process() connects a client of its own.
MqttConnects ==
  \E t \in Mqtt :
    /\ node.type = t
    /\ pc = "loop"
    /\ local.key = 0
    /\ GoOn(t, [NewClient(Self) EXCEPT !.pc = "connect", !.local = [key |-> mem.key, old |-> 0]])

\* The settings have changed: another client takes over.
MqttRekeys ==
  \E t \in Mqtt :
    /\ node.type = t
    /\ pc = "loop"
    /\ local.key # 0
    /\ local.key # mem.key
    /\ GoOn(t, [NewClient(Self) EXCEPT !.pc = "connect", !.local.old = mem.current])

\* Defect: the client that was replaced stays connected.
MqttConnectedBoth ==
  /\ node.type \in Mqtt
  /\ pc = "connect"
  /\ Again(out, mem, [key |-> mem.key, old |-> 0])

\* It is connected, or ten seconds are over; the old one is disconnected.
MqttConnected ==
  /\ node.type \in Mqtt
  /\ pc = "connect"
  /\ Again(out, [mem EXCEPT !.clients = @ \ {local.old}], [key |-> mem.key, old |-> 0])

MqttMessage(c) ==
  /\ c \in mem.clients
  /\ Outside("mqtt_input", mem, Append(out, Emission(c, <<"out">>, Late)))

\* json.dumps() of an item may raise: it is retried with another init(), which
\* does not disconnect the client, or the process is over.
MqttPublish ==
  /\ node.type = "mqtt_output"
  /\ pc = "loop"
  /\ local.key # 0
  /\ local.key = mem.key
  /\ Each("mqtt_output", LAMBDA s, p, i :
       IF i.ok THEN Give(s, i, <<>>, "record") ELSE [s EXCEPT !.pc = "failed"])

Rekey(k) ==
  /\ node.type \in Mqtt
  /\ SetAttribute([mem EXCEPT !.key = k])

-----------------------------------------------------------------------------
(* Logs.  mem.level is that of the logger, mem.saved what it was before    *)
(* init(); mem.queue holds the records of the node's handler, numbered on  *)
(* from mem.first.  mem.other is another LogInputNode of the same logger,  *)
(* if it runs, with what it saved.  mem.parked counts the threads that     *)
(* wait for a record for nobody, mem.lost holds what they took.            *)

Lower(a, b) == IF a < b THEN a ELSE b

LogApplies ==
  GoOn("log_input", [Self EXCEPT !.pc = "get", !.mem.level = Lower(@, Verbose)]) /\ pc = "loop"

LogGets ==
  /\ node.type = "log_input"
  /\ pc = "get"
  /\ \/ Again(out, mem, <<>>)
     \/ /\ mem.queue # <<>>
        /\ Again(Append(out, Emission(Head(mem.queue), <<"out">>, "data")),
                 [mem EXCEPT !.queue = Tail(@)], <<>>)

\* A record reaches the queue if the logger lets it through.
LogRecord ==
  /\ mem.attached
  /\ mem.level = Verbose
  /\ mem.records < MaxItems
  /\ Outside("log_input",
       [mem EXCEPT !.queue = Append(@, mem.records + 1), !.records = @ + 1], out)

ParkedThread ==
  /\ mem.parked > 0
  /\ IF mem.queue # <<>>
     THEN Outside("log_input",
            [mem EXCEPT !.parked = @ - 1, !.queue = Tail(@), !.lost = @ \cup {Head(mem.queue)}],
            out)
     ELSE Outside("log_input", [mem EXCEPT !.parked = @ - 1], out)

OtherLogInput ==
  \/ /\ mem.other = 0
     /\ Outside("log_input", [mem EXCEPT !.other = mem.level, !.level = Verbose], out)
  \/ /\ mem.other # 0
     /\ Outside("log_input", [mem EXCEPT !.other = 0, !.level = mem.other], out)

-----------------------------------------------------------------------------
(* Subgraphs.  mem.inner is the inner graph of the last init(): "none",    *)
(* "starting" or "running"; it hands on item by item from bin, the bridge  *)
(* into it, by way of held to bout.  mem.orphans counts the inner graphs   *)
(* of earlier init() calls that are still running.                         *)

\* Inner nodes that run already, since before a pause, are not started.
SubgraphBegins ==
  /\ node.type = "subgraph"
  /\ pc = "loop"
  /\ local = New
  /\ GoOn("subgraph",
       [Self EXCEPT !.local = Begun,
          !.mem.inner = IF @ = "none" THEN "starting" ELSE @])

\* A pump takes an item from the port to the bridge without suspending.
SubgraphPumps ==
  /\ node.type = "subgraph"
  /\ local = Begun
  /\ Each("subgraph", LAMBDA s, p, i : [s EXCEPT !.mem.bin = Append(@, i)])

SubgraphEmits ==
  /\ node.type = "subgraph"
  /\ local = Begun
  /\ mem.bout # <<>>
  /\ Turn("subgraph",
       [Give(Self, Head(mem.bout), <<"out">>, "result") EXCEPT !.mem.bout = Tail(@)])

\* The inner nodes run on their own, also while the subgraph is paused.
InnerStarts ==
  mem.inner = "starting" /\ Outside("subgraph", [mem EXCEPT !.inner = "running"], out)
InnerTakes ==
  /\ mem.inner = "running"
  /\ mem.held = <<>>
  /\ mem.bin # <<>>
  /\ Outside("subgraph", [mem EXCEPT !.held = <<Head(mem.bin)>>, !.bin = Tail(@)], out)
InnerGives ==
  /\ mem.held # <<>>
  /\ Outside("subgraph", [mem EXCEPT !.bout = @ \o mem.held, !.held = <<>>], out)

-----------------------------------------------------------------------------

DeviceStep ==
  \/ ProcessInput \/ ShellInput \/ ScriptInput \/ PythonInput \/ ProcessOutput
  \/ CommandDone \/ CommandTimesOut
  \/ HttpPost \/ LMStudio \/ SocketOut \/ McpConnects \/ McpClient \/ Answer \/ UserPrompt
  \/ SocketBind \/ SocketServe \/ (\E c \in Connections : SocketWrites(c)) \/ SocketSent
  \/ Listens
  \/ MqttConnects \/ MqttRekeys \/ MqttConnected \/ MqttPublish
  \/ LogApplies \/ LogGets
  \/ SubgraphBegins \/ SubgraphPumps \/ SubgraphEmits

OutsideStep ==
  /\ mem # <<>>
  /\ \/ node.type \in Commands /\ (CommandForks \/ CommandExits)
     \/ node.type = "mcp_client" /\ McpDrops
     \/ node.type = "socket_server" /\ \E c \in Connections : ClientJoins(c) \/ ClientLeaves(c)
     \/ node.type = "socket_input" /\ \/ PeerJoins
                                      \/ \E c \in mem.peers : PeerSends(c) \/ PeerLeaves(c)
     \/ node.type = "mqtt_input" /\ \E c \in mem.clients : MqttMessage(c)
     \/ node.type = "log_input" /\ (LogRecord \/ ParkedThread \/ OtherLogInput)
     \/ node.type = "subgraph" /\ (InnerStarts \/ InnerTakes \/ InnerGives)

\* What init() sets: what it does not let go of stays.
DeviceMem ==
  CASE node.type \in Commands -> [procs |-> {}, killed |-> FALSE]
    [] node.type = "mcp_client" -> [drops |-> IF mem = <<>> THEN 0 ELSE mem.drops]
    [] node.type = "socket_server" -> [server |-> FALSE, clients |-> <<>>]
    [] node.type = "socket_input" ->
         [server |-> FALSE, peers |-> IF mem = <<>> THEN {} ELSE mem.peers,
          joined |-> IF mem = <<>> THEN 0 ELSE mem.joined]
    [] node.type \in Mqtt ->
         [clients |-> IF mem = <<>> THEN {} ELSE mem.clients, current |-> 0, key |-> 1,
          made |-> IF mem = <<>> THEN 0 ELSE mem.made]
    [] node.type = "log_input" ->
         LET m == IF mem = <<>>
                  THEN [level |-> Quiet, other |-> 0, records |-> 0, lost |-> {}] ELSE mem
         IN [attached |-> TRUE, queue |-> <<>>, parked |-> 0,
             records |-> m.records, first |-> m.records, lost |-> m.lost,
             other |-> m.other, saved |-> m.level, level |-> Lower(m.level, Verbose)]
    [] node.type = "subgraph" ->
         [inner |-> "none", bin |-> <<>>, held |-> <<>>, bout |-> <<>>,
          orphans |-> IF mem = <<>> THEN 0
                      ELSE mem.orphans + (IF mem.inner = "running" THEN 1 ELSE 0)]
    [] OTHER -> <<>>
DeviceLocal ==
  IF node.type \in Mqtt THEN [key |-> 0, old |-> 0]
  ELSE IF node.type \in {"mcp_client", "socket_server", "subgraph"} THEN New ELSE <<>>

\* What a task that is cancelled cleans up, and what stop() lets go of then.
\* A subgraph cancels the tasks that start its inner nodes, not the nodes.
CutMem(next) ==
  CASE node.type \in Commands /\ pc = "run" -> KillTree(mem)
    [] node.type = "socket_server" /\ next = "stopped" -> [mem EXCEPT !.server = FALSE, !.clients = <<>>]
    [] node.type = "socket_input" -> [mem EXCEPT !.server = FALSE]
    [] node.type \in Mqtt /\ next = "stopped" -> [mem EXCEPT !.clients = @ \ {mem.current}]
    [] node.type = "log_input" ->
         LET m == [mem EXCEPT !.parked = @ + (IF pc = "get" THEN 1 ELSE 0)]
         IN IF next = "stopped" THEN [m EXCEPT !.attached = FALSE, !.level = mem.saved] ELSE m
    [] node.type = "subgraph" /\ next = "stopped" /\ mem.inner = "starting" ->
         [mem EXCEPT !.inner = "none"]
    [] OTHER -> mem

DeviceCut(next) ==
  /\ life # "stopped"
  /\ life # next
  /\ life' = next
  /\ Cancel
  /\ mem' = CutMem(next)
  /\ UNCHANGED <<node, envVars, starts, pipe, out, got, base>>

-----------------------------------------------------------------------------
(* Properties.                                                             *)

\* A run that timed out or was cut leaves no process of its own behind, not
\* even one its command has started.
KilledWhole == node.type \in Commands /\ mem # <<>> /\ mem.killed => mem.procs = {}

\* What a node read and asked is answered once, in order, with what was read:
\* an answer is missing for the item in hand, and for one item for each time
\* the task was cut or the connection lost, which is not reported.  Only a
\* process output that has no command answers nothing.
Answering == {"process_output", "http_post", "llm", "mcp_client", "socket_client"}
Answers == {k \in DOMAIN out : out[k].form # "input"}
AnsweredOnce ==
  node.type \in Answering =>
    LET inHand == IF pc \in {"run", "await"} THEN 1 ELSE 0
        lost   == cuts + (IF node.type = "mcp_client" /\ mem # <<>> THEN mem.drops ELSE 0)
    IN /\ \A k \in Answers : Contains(got, out[k].item)
       /\ \A j, k \in Answers : j < k => out[j].item.n < out[k].item.n
       /\ Cardinality(Answers) + inHand <= Len(got)
       /\ IF NoCommand /\ node.opt.allowed THEN Answers = {}
          ELSE Len(got) <= Cardinality(Answers) + inHand + lost

\* Every question to the user is followed by one answer before the next
\* question, unless the node was cut while it waited.
QuestionsAnswered ==
  node.type = "user_prompt" =>
    Cardinality({k \in 1..(Len(out) - 1) : out[k].to = out[k + 1].to}) <= cuts

\* A connection gets every item that is read after it was made, in order:
\* it misses at most one for each time the node was cut.
ClientsAreServed ==
  node.type = "socket_server" /\ mem # <<>> =>
    \A c \in DOMAIN mem.clients :
      LET due == SubSeq(got, mem.clients[c].since + 1, Len(got))
          had == mem.clients[c].sent
          now == IF pc = "send" /\ c \in local.left THEN 1 ELSE 0
      IN /\ \A k \in DOMAIN had : Contains(due, had[k])
         /\ \A j, k \in DOMAIN had : j < k => had[j].n < had[k].n
         /\ Len(due) <= Len(had) + now + cuts

\* A socket server that lost its port says so: it is never over silently.
DeafIsReported ==
  node.type = "socket_server" /\ pc = "ended" =>
    out # <<>> /\ Last(out).form = "error"

\* Of what a connection sends, a node that was paused or stopped emits at
\* most one more piece, and nothing after it.
OneLastWord ==
  node.type = "socket_input" =>
    \A j, k \in DOMAIN out : j < k /\ out[j].form = "late" => out[j].item # out[k].item

\* Clients beside the current one, and the one it replaces, are leftovers of
\* tasks that were cut: of one that was paused, or failed and was tried again,
\* its client, and of one that was replacing its client that client too.
MqttClientsBounded ==
  node.type \in Mqtt /\ mem # <<>> =>
    Cardinality(mem.clients)
      <= 1 + (IF pc = "connect" /\ local.old # 0 THEN 1 ELSE 0) + 2 * cuts

\* Every record that reached the node's queue is emitted once, in order, or
\* taken by a thread whose task was cut.
LogRecordsKept ==
  node.type = "log_input" /\ mem # <<>> =>
    LET shown == [k \in DOMAIN out |-> out[k].item]
    IN /\ \A j, k \in DOMAIN shown : j < k => shown[j] < shown[k]
       /\ (mem.first + 1)..mem.records \subseteq ToSet(shown) \cup ToSet(mem.queue) \cup mem.lost
       /\ Cardinality(mem.lost) + mem.parked <= cuts

\* A logger that another node has made quiet again is verbose again soon,
\* while the node runs.
TooQuiet == node.type = "log_input" /\ life = "running" /\ mem.level > Verbose
LoggerHealed == TooQuiet ~> ~TooQuiet

\* Every item that entered a subgraph since its init() is emitted, or on its
\* way inside, in order: however often it is paused.
SubgraphConserves ==
  node.type = "subgraph" /\ mem # <<>> =>
    IsSuffix(Fresh, [k \in DOMAIN out |-> out[k].item] \o mem.bout \o mem.held \o mem.bin)

\* There is at most one inner graph running for each init().
OneInnerPerInit ==
  node.type = "subgraph" /\ mem # <<>> =>
    mem.orphans + (IF mem.inner = "none" THEN 0 ELSE 1) <= starts
=============================================================================
