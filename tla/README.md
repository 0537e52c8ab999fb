# pystreamflow in TLA+

pystreamflow runs graphs of stream-processing nodes on one asyncio event loop.
These modules model the parts of it whose correctness depends on *when* things
happen: which coroutine is suspended where while another one runs. TLC checks
them on small instances (`MC*.tla` and their `.cfg` files); TLAPS checks the
theorems of the `*_proofs.tla` modules, for every value of the constants.

    tlc -workers 2 -config MCNodeLifecycle_serial.cfg MCNodeLifecycle.tla
    tlapm NodeLifecycle_proofs.tla

All paths below are under `pystreamflow/`.

## The system

| Part | State | Operations | Talks to |
|---|---|---|---|
| Node (`core/node.py`, BaseNode) | flags `_running`, `_paused`, `_initialized`, `_health`; `_task`; control pipes and their listeners; input and output pipes | start, stop, pause, resume, reset, emit, manual_emit, add/remove of inputs and outputs, handle_control | its pipes, its loop, its listeners |
| Streams (`core/stream.py`) | Pipe: an unbounded queue; FanInPipe: sources, one `get()` task for each, read-ahead buffer | put, get, add_source, remove_source | nodes |
| Node types (`nodes/`, over 80 of them) | counters, lists, tables, windows, queues, barriers, timers, processes, sockets, clients, inner graphs | `init`, `process`, `reset`, handlers of posts and connections | ports, the outside |
| Engine (`core/engine.py`) | `node_instances`, pipes, attribute pumps | run, stop_all, pause_all, resume_all, validation, wiring, order of the starts | nodes, registry |
| Session (`core/session_manager.py`) | `status`, `task` | start, stop, pause, resume, delete | one Engine |
| Registry and shared server (`core/web_server.py`) | `_nodes`, `_session_nodes`, routes, the server | register, unregister, routes, start/stop of the server | nodes, sessions |
| REST API, MCP, CLI (`api/server.py`, `mcp/server.py`, `cli/main.py`) | `_edge_pipes`, attribute pumps | create, connect, disconnect, delete, control of nodes and sessions | all of the above |
| Port schema (`core/port_schema.py`) | none | validation of edges | Engine, API |
| Metrics (`core/metrics.py`) | `_last_seen`, counters | scrape | nodes, registry |
| Auth, persistence, guards (`core/`) | keys, files, child processes | - | API, nodes |

What is hard in it:

* *Suspension in the middle of a change.* start(), stop(), pause() and
  resume() of a node and of a session all await something with their state
  half changed, and nothing serialises them: REST handlers, MCP tools, control
  messages and engines call them at any time.
* *Cancellation.* `_cancel_task()` swallows every CancelledError it sees, its
  own caller's included. A session is stopped by cancelling a task that is
  itself cleaning up. A listener may stop its own node, and so cancel itself.
* *Timeouts around reads.* Most nodes read with `wait_for`, so that a read may
  be abandoned at the moment its item arrives.
* *Live wiring.* Wires are added to and removed from running nodes.
* *Several instances of one node.* A second run of a session, and the ad-hoc
  editor, build new instances under the same id.

What makes each part correct, and the name under which it is checked:

* Node: at most one process loop, reachable through `_task` (NoStrayLoop); a
  node that says it is stopped or paused is quiet once the call is over
  (NotRunningIsQuiet); every control wire of a running node has one listener
  (ControlReachable, NoStrayListener); every call returns (CallsReturn).
* Ports: an input reads every wire there is and only these, a switch between
  one wire and several loses at most what the dropped FanInPipe had ahead
  (InputPortKept); an output gives every wire what was emitted while it was
  drawn, and replays the newest (OutputPortKept).
* Streams: each wire's items arrive in order, once, whatever times out
  (ImplementsMergedInput, NothingLost, EverythingArrives).
* Node types: item by item, in order, once (ImplementsRelay); a pause goes on
  where it cut (GoesOn); one cause, one trigger (TriggersOnce); what is handed
  to the outside comes back (NoneLostOutside), what is left there is bounded
  (LeftoversBounded); what is kept is the newest and no more than allowed
  (WindowsKept), passed on once (PassedOn) and joined in whole sets
  (SetsAreWhole); what waits for a running node gets on (Progress).
* Engine and session: a stopped session has no loop left (NotRunningIsQuiet,
  EverythingEnds), every loop can be reached by stop() (LoopsReachable), one run
  supervises (OneSupervisor), a session that reads running is (RunningIsWhole);
  of a graph all nodes start, in order, or none (GraphKept).
* Registry: the session's entry is its current instance (RegistryCurrent); the
  route of an id leads to the node that has it, and who runs on without the id
  is on the way out or one of a known few (RegistryKept).
* API: what is drawn is what is wired, as long as nobody draws while a Run is
  being prepared (WiredAsDrawn, TargetsDrawn), a wire stops when it is asked to
  and only then (OnlyAskedRemovals), every wire of an output
  gets every item (OneReader), no queue is left to fill (NoDeadEnds), no pump
  outlives its nodes (PumpsOfLive).
* Metrics: no scrape adds anything twice (CountedOnce).

`PROJECT.json` lists every hazard at its line, with the properties that
watch it.

## Modules

Concurrency is that of asyncio: only one coroutine runs at a time, so an action
is what the code does between two suspension points. An `await` of a coroutine
that does not suspend is not a suspension point (a `start()` whose `init()`
returns at once is one action).

**NodeLifecycle** follows BaseNode. `running`, `paused`, `initialized`,
`health` are the attributes; `slot` is `_task`; `loop` says what each loop task
is doing (`process`, waiting to retry, being cancelled, over); `wired` and
`listener` are `_control_pipes` and `_control_listeners`; `reads` is the
argument of a listener task; `cancel` holds the tasks whose cancellation has
been requested and not delivered; `pc` and `waits` say where each caller is
suspended. Callers are clients (requests, runs) and the listeners themselves,
which make the same calls when a control message says so. `Start`, `Stop`,
`Pause`, `Resume`, `Wire` (`add_input('control')`) and `Unwire`
(`remove_control_input`) run up to their first suspension, `InitDone`,
`InitFailed`, `InitCancelled`, `StopTaskDone`, `StopListenersDone`,
`PauseDone`, `UnwireDone` from there on. `LoopReturned` ... `LoopCancelled` are
`_run_loop()`, `ListenerExited` ... `ListenerBroke` are `_control_listener()`.
A loop cancelled before its first step, and one whose process() answers the
cancellation by returning, are both `LoopCancelled`.

**FanInPipe** follows the class of that name. An item is its number in its
wire, so a wire is two counters (`sent`, `taken`) and the order of delivery is
`delivered`. `_manual` is the source `Manual`. `watched` is the snapshot given
to `asyncio.wait()`; `Abandon` is a timeout or a cancelled reader.
**MergedInput** is the abstract promise of an input port with several wires:
each wire's items, in order, once. FanInPipe implements it with the identity on
`sent` and `delivered`.

**NodeLoop** is the process loop nearly every type is built around: one task
that polls its ports, takes an item, does something with it that may suspend,
and emits; and what happens to the task from outside (a pause or stop that
cancels it at any of its awaits, a resume, a restart with or without init, a
late wire, a reset, a live resize). `node` is the type with its options, `mem`
its attributes, `local` the local variables of process(), which a cut forgets,
`pc` where the task is suspended, `got` and `out` the history of items read and
emitted, `starts` how often init() was called and `cuts` how often the task
ended before its time: cancelled, or retried. A process() that raises (`Raising`
lists the types that can) is begun again with another init() (`Retry`), if the
node's config has retries left, and is over otherwise. `node.polls` says how
a loop finds its pipes: at every turn, or once (`NextTurn`): grep looks when its
task begins, and misses a wire drawn later; the scripts, a process output and a
socket client wait for their pipe and keep it. The
types themselves are in five modules, one action or turn function for each
type, with the properties that are theirs:

* **StreamNodes**: types that handle an item at a time (transforms, filters,
  routers, scripts, displays, attribute setters). **Relay** is their abstract
  specification: each item handled once, in order, through every pause, stop,
  restart and late wire; the types implement it (ImplementsRelay).
* **SourceNodes**: types that emit by themselves (timers, clocks, generators,
  lists, files, directories, schedules, URLs) and all triggers, with what they
  tell their targets (`core/trigger_targets.py`). What a file or a directory
  emits is the set of lines or entries of a read; its place in the file is a
  local variable of process(). The timers of a debounce are tasks of their own:
  one that waits for a target in handle_control() may lose the cancellation that
  the next item asks for to that target's `_cancel_task()`, goes on beside its
  successor, and forgets that one at its end (`deaf` counts them).
* **BufferNodes**: queues, stack, table, windows, line buffer and splitter,
  barrier, logic gates, queue gate.
* **DeviceNodes**: processes, sockets, MQTT, the log handler, HTTP, language
  model and MCP services, the user prompt, the subgraph; what happens outside
  (an answer, a lost connection, a person) is an action of its own.
* **WebNodes**: outputs that show items to event streams through bounded
  queues, inputs that take posts, whose handlers outlive the node's task.

**NodeTypes** puts them together: a behaviour has one node of some type, and the
others that wire its ports. The properties of the types are grouped there by
the question they answer.

**InputPort** is a data input port while wires come and go: `_input_sources`,
`_input_fanin` and `inputs[]`, and a process that may be inside a get() of an
old pipe. FanInPipes appear by what they have read ahead; the order in which
one hands that out is FanInPipe's matter and left open here. **OutputPort** is
an output port: its consumers with their kinds, the node's own pipe, emit with
its tasks, the records that manual_emit() replays, reset(). **Metrics** is a
scrape over the instances that take turns under one id. **Registry** is
`web_server.py` for one id that sessions and the canvas share: the instance in
`_nodes`, what each session has in `_session_nodes`, the route, and the stop()
calls scheduled for superseded instances. **GraphRun** is what Engine.run()
does before nodes run: validate() with validate_edge(), the check for cycles,
where each kind of wire is put, the order of the starts. **Ports** is the
choice between these five, which share no state.

**SessionEngine** composes Session, SessionManager.delete, Engine and the
session's part of the registry. A run (the task `Session.start` creates) is
followed through its phases; a node instance is the pair of a run and a node,
with a coarser life cycle than NodeLifecycle's: `flag`, its loop (`alive`, then
`dying`), and whether `_task` holds it (`slot`). `owner` is
`Engine.node_instances`, which a newer run overwrites while an older one may be
stopping. Two commands delete: "delete" is the REST endpoint, which awaits
`stop()` first; "drop" is `SessionManager.delete()` alone, as MCP calls it,
whose background `stop()` is the caller `Background`. `MayBegin` is the order
in which the event loop serves ready tasks: a run begins after the runs created
before it and after the cancellations requested before that.

**EdgeWiring** composes the canvas (`api/static/editor.js`), the wire and node
endpoints of `api/server.py`, and what `Engine.run()` does to wires. `nodes`
and `drawn` are the canvas; `requests` are the calls it has made and not waited
for. `AddNode`, `RemoveNode`, `Draw`, `Erase` change the canvas and send
one or several requests. A press of Run is a chain of awaited requests:
`StopSession` is the first of them (and the Stop button), `Run` takes down what
is drawn (`preparing`), and `AskStart` asks for the start of the session made of
that, however much was drawn and served in between; `outdated` records that
it was not the canvas any more. `Orderly` behaviours are those where that has
not happened, with requests served in the order sent. `CreateNode`,
`ConnectNodes`, `DisconnectNodes`, `DeleteNode`, `RunSession` serve one up to its
await, `DisconnectReturns` and `DeleteReturns` go on from there, `RejectConnect`,
`DisconnectFails` are the error answers, and `Rejected` is the canvas taking off
what could not be connected. The backend keeps a wire in `outs` and `ins` (the pipes of the live
instances), `edgePipe` (`_edge_pipes`), `pumps` (`_attribute_pump_tasks`, the
session's in `sessionPumps`) and `targets` (`_graph_control_targets`).
`NodeInit` is `_create_output_if_unwired()` and its input twin, which
self-contained nodes call in `init()`. `Plug` is what `add_output()` and
`add_input()` do to such a pipe. A wire of kind data stands for raw and
endpoint wires too, which are wired by the same calls. What a port does with
several pipes is FanInPipe's matter.

The order in which requests are served is a choice of the initial state
(`inOrder`): in the order sent, as on one connection, or any. While a Run is
under way nobody presses Run or Stop again (`RunUnderWay`), and a session is
started from the canvas only, not from the list of sessions.

**MCNodeLifecycle, MCFanInPipe, MCNodeTypes, MCPorts, MCRegistry,
MCSessionEngine, MCEdgeWiring** give the constants values.

In each module a few definitions are marked *Defect*: wrong versions (a dropped
guard, a missing reset) of the definition after them. No specification uses
them. Put in the place of the right one, each makes TLC find the property it is
paired with in `PROJECT.json` violated.

## Runs

| Run | Question | Result | Bounds |
|---|---|---|---|
| node_serial | Are the calls of a node right when they wait for each other? Do they return? | 4 invariants, CleanRestart, 2 liveness properties hold | 1 client, 2 wires, 3 listeners, 2 loops, 1 retry |
| node_starts | May start() and wiring overlap? | 2 invariants hold | 2 clients, otherwise the same |
| fanin_merge | Does FanInPipe deliver everything, once and in order? | 2 invariants, refinement, liveness hold | 2 wires and put(), 2 items each |
| session_caller | Are the session calls of one caller right? Does a stopped session end? | 4 invariants, liveness hold | 2 nodes, 3 runs |
| session_slow | Is a session that reads running whole, however calls overlap and when start-up suspends? | holds | 2 nodes, the second slow, 2 runs, 2 callers, no pause |
| session_slowstop | May stop() come during start-up? | **violated** | 1 caller |
| wiring_orders | Is what is drawn what is wired, if nobody draws while a Run is prepared? What is left of it when requests overtake each other? | 6 invariants, OnlyAskedRemovals hold | 3 nodes, 5 wires, 4 requests under way; out of order 2 nodes, 1 wire, 3 requests; up to the first outdated start |
| wiring_parallel | Does every wire get every item if two of them join the same nodes? | **violated** | 3 nodes, 2 wires, 4 requests under way, in order |
| node_kinds | Does a pause, stop, restart, retry or late wire at any await make a type skip, repeat or lose anything? | 4 invariants, refinement, liveness hold | every type but those that keep items, 3 items, 2 calls (cuts, retries, resets), 3 emissions, room for 2; a debounce with one target |
| node_buffers | ... and the types that keep items? | 2 invariants, WindowsKept hold | the same |
| node_ports | Are ports, counters, ids and graphs kept right? | 5 invariants hold | 3 wires, 2 FanInPipes, 4 items; 2 consumers, 3 emissions; 2 instances, 5 counts; 3 instances, 2 sessions; 4 nodes, graphs of up to 4 edges |
| registry_sessions | Does a session keep its node when another one uses the same id? | **violated** | 3 instances, 2 sessions |

*What callers are assumed to do.* In node_serial `Exclusive` is TRUE: a call
begins only when no other one is suspended, so that one client stands for any
number; the listeners, which make the same calls, still compete with it. In
session_caller the calls in `Patient` (pause and delete) are made only when
nothing else is under way; start, stop and resume come at any moment. The code
enforces neither: the violated runs, and the list below, show what goes wrong
otherwise. Loops, retries, listeners and ending runs interleave freely in all
of them. In wiring_orders WiredAsDrawn, NoDeadEnds, OneReader, TargetsDrawn and
OnlyAskedRemovals speak of the behaviours whose requests are served in the order
sent, where the ends of suspended ones still come in any order, and whose starts
are of the canvas (`Orderly`); PumpsOfLive and RealWiringWins of all, where the
run ends at the first outdated start and the theorems go on. Its wires meet what the theorems assume (`WiresApart` in
MCEdgeWiring, an assumption TLC evaluates): a refused wire is drawn where no
valid one can be and a wire that Run has built is not erased (`Steady`), wires
that join the same nodes lead to the same input slot and so replace each other
(`PlugsApart`), and where a control wire may go no wire of another kind does
(`TargetsApart`). The code enforces none of these; wiring_parallel drops
PlugsApart, and the list below says what happens without the others.

*Why the bounds are enough.* A new loop is created only by start(), so that two
identities show a loop beside the one it replaces; identities of tasks that are
over are reused, so that runs are not bounded in length. Three listeners are one
more than two wires need. One retry distinguishes a loop that may try again
from one that may not. Two items per wire are the least that have an order, and
two wires and put() finish together in every combination. Three runs let a third
start while a first one is still stopping and a second one is current. What
session_slow leaves out, pauses and a third run, is in the theorem
RunningMeansWhole, for any number of callers, runs and nodes. The wires
of wiring_orders are one of each kind, a second one for the same input slot,
which draws over the first, and one that the backend refuses; two pipes of one
wire (`Copies`) let an old one be plugged in while a new one is made; four
requests are the most that removing a node with all its wires and putting a wire
back can have under way, and two disconnects of one wire may be suspended at
once (`MaxAwaits`). Node ids are reused once nothing mentions them. Out of order
what is lost stays lost, and the smaller instance keeps that finite (`InPlace`).

For the node types, three items (`MaxItems`) overfill what has room for two
(`Room`, and the sizes 0, 1, 2 of the types), and let one be in hand while
another one waits and a third is still to come; two calls (`MaxCalls`) are a
pause with a resume, or a stop with a start, so that every await of every type
is cut once and gone on from, or two retries; `MaxOut` stops what would emit for ever. Three
wires at an input let it go from several to one and back with two FanInPipes
alive. Three copies of one id, two sessions and the canvas let one be superseded
while an older one's stop() is still scheduled. Four edges over four nodes make
every cycle of up to four, with a tail or a parallel wire for the shorter ones.

What the violated runs found is described in `PROJECT.json` under findings,
each with the line that says otherwise. The common cause of those about nodes
and sessions is that flags are set before an await and not looked at after it.

*Known to break, and kept out of the passing runs by the constants in
parentheses:* two calls of one node that overlap: a stop() that awaits the
loop forgets the loop of a start() that came meanwhile (`core/node.py:342`)
(`Exclusive`); stop() during a slow init() of a node (`Exclusive`); removing a
control wire whose listener is inside pause() never returns (`core/node.py:659`);
a control handler that raises: the wire stays deaf until a restart
(`HandlerMayRaise`); a FanInPipe read without a timeout while a wire is added:
the new wire is not watched until another item comes (`ReaderTimesOut`); a
second start() of a paused session: two supervisors (`StartsPaused`); pause or
delete before the first step of the run just created, which starts its nodes
all the same (`Patient`); two stop() calls of one session during its shutdown:
the second cancellation ends stop_all(); a disconnect served after the deletion
of one of its nodes: the other keeps its pipe (`inOrder`); a wire that was drawn,
rebuilt by Run and then erased goes on, because the pipe on record is not the
one Run made (`api/server.py:659`) (`EraseAfterRun`); a wire that is drawn or erased between
the snapshot of a Run and the start of its session: the nodes are built without
it, or with it (`api/static/editor.js:2598`), against "what's drawn always
matches what's actually wired" (`api/static/editor.js:2098`) (`Orderly`); a connect that is refused
at a port with one wire: the disconnect that the editor then sends takes that
one (`api/server.py:671`) (`Wires`, `Valid`); an attribute wire erased beside a
control wire between the same nodes: the trigger loses its target
(`api/server.py:733`) (`Wires`).

*What the properties had to allow for.* Some clauses of the checked properties
are exceptions, each a thing the code does that a reader may not expect:

* InputPortKept: when a port goes from several wires to one, the item that the
  dropped FanInPipe's get() task takes is lost, and so is what it had read ahead
  (`core/node.py:568`), although remove_input() promises to leave "any other
  source" untouched (`core/node.py:527`).
* OutputPortKept: manual_emit() replays nothing once its record was evicted by
  those of other kinds, or after reset() (`core/node.py:922`).
* CountedOnce: an instance that gets its id back brings its whole total along,
  so that the counter says too much; a reset or a replacement makes it say too
  little (`core/metrics.py:74`).
* RegistryKept: an instance that is paused, or not yet begun, when it is
  superseded is not stopped and may run on with nobody able to reach it
  (`core/web_server.py:100`); so may a node of a stopped session that is started
  by its id before the session is deleted. An older run's node that retries at
  the right moment takes the id and the session's entry back; one that ends its
  init() after the delete registers itself for a session that is gone.
* NoneLostOutside, LeftoversBounded: streams of one output share a queue, so
  that each item goes to one of them; a post that waits for room in a queue that
  a restart replaces waits for ever; an inner node of a subgraph and a client
  of an MQTT input run on after every cut of the task that made them.
* GraphKept: a graph that lists an id twice is called cyclic
  (`core/engine.py:179`). A data wire to a port named `control` of a type with
  dynamic inputs is let through and becomes a control wire.
* GoesOn: a list or a constant that is paused after its end is played again
  after the resume. A file, a JSON file and a directory are read from their
  beginning by each process(), after a resume too (`nodes/input_file.py:36`,
  `nodes/json_input.py:72`, `nodes/input_directory.py:51`), and so emitted again,
  although a pause is there "so resume() picks up exactly where it left off"
  (`core/node.py:271`): NothingSkipped counts the beginnings.
* TriggersOnce: a debounce timer that swallowed its cancellation is one more
  beside the current one (`nodes/trigger_advanced.py:92`, `core/node.py:338`).
* NoneLostOutside: a process output whose command is empty reads its items and
  answers none of them (`nodes/output_process.py:83`); an MCP connection that is
  lost takes the item in hand with it, and nothing is emitted for it
  (`nodes/mcp_client_node.py:168`), although a connection failure "is reported
  downstream as one {"error": ...} item" (`nodes/mcp_client_node.py:46`).
* LeftoversBounded: an MQTT output that raises and is tried again connects
  another client and leaves the one it had (`core/node.py:249`,
  `nodes/mqtt_output.py:52`): a retry counts as a cut.
* Progress: grep looks for its pipe when its task begins, and reads nothing of a
  wire drawn later (`nodes/modifier_grep.py:31`).
* WiredAsDrawn, NoDeadEnds: an attribute wire that Run has built is dead once
  the session is stopped, though its nodes can be started one by one
  (`core/engine.py:367`).

Beside what is modelled, and not checked: an MQTT output, at an item that cannot
be serialised (`nodes/mqtt_output.py:73`), ends its process once it has no
retries left; the types that keep the pipe they found (grep, the scripts, a
process output, a socket client) read on from it after its wire is replaced, and
never read the FanInPipe of a second wire (`nodes/modifier_script.py:43`,
`nodes/scripted_output.py:55`): no wire of a node is replaced or doubled in
NodeLoop (what a port does then is InputPort's matter); a file that grows
between stat() and read() has lines emitted twice (`nodes/input_file.py:48`,
`nodes/json_input.py:78`); from Python 3.12.1 on, closing a socket server waits
for its connected clients; node_pause of the API stops a running node, clears
by that the flag it has just set, and answers "resumed", so that a second call
resumes nothing (`api/server.py:446`).

### Fairness

Every fairness condition is weak and stands for the event loop running what is
ready: an await whose task is over goes on, a delivered cancellation ends the
task it reaches, a listener's half-second poll times out, a suspended `init()`
ends one way or another, a node calls get() again after each item and timeout.
A reader's timeout is fair only where there is one (`ReaderTimesOut`). For the
node types it is `WF_vars(Process)` alone: each wait of a process loop has a
timeout, so its task runs again and again. No caller has to call, no process()
has to return in NodeLifecycle, no upstream node has to send, no service has to
answer, and no control message has to come.

No property of EdgeWiring, Ports or Registry needs fairness. Deadlock is checked
for NodeLifecycle, FanInPipe and EdgeWiring. It is not for SessionEngine,
where a deleted session has nothing left to do, nor for the node types and
Ports, where the bounds on items, calls and counts end a behaviour.

## Proofs

`NodeLifecycle_proofs` proves, for any number of callers, wires and tasks, any
retries, and init() suspending or not:

* TypeCorrect and FlagsAgree for all calls, however they overlap;
* OneLoop, NotRunningMeansQuiet and RestartsAreClean under `Exclusive`, stated
  as an assumption of each theorem (without it the second is false, see above).
  They come from one inductive invariant, `LoopInv`: the loop in `_task` is the
  only live one; it lives only on a node that is running, or whose caller is
  suspended awaiting just that loop; at most one caller is suspended; and a
  caller in init() has an empty slot. The properties alone are not inductive, as
  none of them says what the awaited task of a suspended stop() or pause() is;
* OneListener under `Exclusive`: `ListenInv` adds that nobody cancels a listener
  that is inside a call and that the node stays stopped while its stop() waits,
  so that the caller left out of its own cancellation ends by itself;
* NodeReachable under `Exclusive` and where no handle_control() override raises
  (one that does ends its listener for good): `RecordInv` says that a listener
  on record reads that pipe and is cancelled by nobody, so that disconnecting
  one pipe takes its listener and no other;
* HealthIsHonest under `Exclusive`: `HealthInv` says that a loop that may still
  raise or return belongs to a running node and one being cancelled to a node
  that is not, so that the state a loop reports as it ends is up to date.

`SessionEngine_proofs` proves, for any graph and any runs:

* SessionTyped for all calls, however they overlap, and with any slow nodes;
* OneRun, LoopsInSlots, StoppedMeansQuiet and RegistryInStep under `OneClient`,
  stated as an assumption of each: one handler calls the session, no init()
  suspends, a paused session is resumed rather than started, and pause and drop
  wait until nothing is under way. These are the constants of session_caller;
  session_slow and session_slowstop show what holds and what breaks without
  them. The
  invariant `SoleInv` has four parts: whom each caller awaits (`CallsInv`); that
  the newest run is the only unfinished one, and that it is cancelled or ending
  only on behalf of a caller (`RunsInv`); that the instances that run are those
  of that run and are the engine's (`NodesInv`); and that a dying loop is awaited
  and no live one is (`LoopsInv`), so that no stop() or pause() that returns late
  clears the slot of a loop it did not cancel.
* RunningMeansWhole for all calls, however they overlap, and with any slow
  nodes, from `ManyInv`: while the session is active nobody has cancelled its
  newest run (`NewestInv`); runs begin in the order they were created in, with
  instances nobody has heard of, so that no other run evicts the newest one's
  (`OrderInv`); and while no run is ending, the newest has the engine to itself
  and has started all its nodes, or all before the one whose init() it awaits
  (`WholeInv`). The property alone speaks of settled states, which says nothing of
  the states a step comes from.

`FanInPipe_proofs` proves, for any finite set of wires and any number of items:

* FanInTyped, NoItemLost and BoundedReadAhead, from the inductive invariant
  `FlowInv`: every item taken from a wire is delivered, buffered or held by
  the wire's task, a buffered source has no task, and no source is buffered
  twice. It says it of removed wires too, in the weaker form that remains when
  the result of a task is dropped;
* Refinement: `Spec => Merged!Spec`. A step of FanInPipe that hands out an item
  is `Deliver` of its source, `Send` is `Send`, all others stutter; that the item
  handed out is the next one of its source is what FlowInv is for.

`EdgeWiring_proofs` proves, for any nodes and wires, any number of requests
under way and any order of serving them:

* PumpsLive: the invariant `PumpsHeld` adds to PumpsOfLive the deletions that
  are suspended, whose nodes may still have pumps;
* RealWiring: the invariant `PlugsAlone` says besides that such a pipe is at the
  port it was made for, which is what lets a wire find and replace it. It needs
  `CanvasInv`: what a Run takes down has both nodes of each of its wires
  (SoundPayloads), so that no plug it makes joins those of an instance it does not replace;
* what holds when requests are served in the order sent and starts are of the
  canvas (`Orderly`), from the *history of the canvas*. `Hist` says of a
  sequence of canvas states that each request under way is the edit (`Edit`)
  that leads from one state to the next, that the last is the canvas now and the
  first what the backend has served. There always is one (`CanvasSeen`, an
  existential, as no variable records it): a step of the canvas appends to it,
  serving a request drops its first state; a start is the edit that changes
  nothing but what Run has built, as long as it is not outdated. So the backend
  never has to be compared with the canvas, from which it differs as long as
  anything is under way, but only with that first state; with nothing under way
  it is the canvas. A wire on the canvas that the backend will not have has its
  connect or its refusal under way (`Answered`), so that none is left at the
  end. A session that is stopped leaves the plugs where they are and only its
  attribute wires dead (`Dead`). On this rest
  * TargetsAsDrawn, under `TargetsApart`: `TargetsSeen` says that a target is
    listed as often as control wires of the first state lead there, counting
    disconnects that are suspended between the pipe and the list
    (`Mentions`), so that it does not matter when they go on;
  * WiringAsDrawn, under `Steady` and `PlugsApart`, and NoEndIsDead, under
    `Steady`: `PlugsSeen` says of each plug, each pump and each entry of
    `_edge_pipes` which wire of the first state it is there for (`OutsSeen`,
    `InsSeen`, `PumpsSeen`, `EdgesKnown`), and that each valid wire of that
    state has both of its ends;
  * RemovalsAsked, under the same two: a wire works exactly when it is in the
    first state and valid, and not dead (`WorksAsSeen`), and only its disconnect
    takes it out of there, as the canvas erases the wires of a node before the
    node;
  * ReadersApart, under the same two: who reads a pipe reads it for a wire of
    the first state, and a pipe is either a wire's own or that of the one wire
    between its nodes (`OneReadFor`).
  `Steady`, `PlugsApart` and `TargetsApart` are hypotheses of the theorems, not
  assumptions of the module, as the code does not enforce them: what each of
  them keeps out is said above.

`Ports_proofs` proves, for any wires, FanInPipes, items, consumers, emissions, node
objects, scrapes, sessions and graphs:

* InputKept: what the three records of the wires say of each other is
  `WiresInv`. `FansInv` says that a FanInPipe, dropped or not, has at most one
  item of a source ahead and no task that waits for that source besides, and
  that one made while the node was inside a get() of another has not been asked
  for anything; `ItemsInv`, that what was taken from a wire was given to the
  node or is ahead in some FanInPipe, and that what the node can still be given
  is newer than what it was. So a missing item is in a dropped FanInPipe, each of
  them has at most one of a wire, and `DropsInv` counts them;
* OutputKept: what is due to a wire is counted by position, what it has received
  first and its puts still to run after that. `OutputsInv` says that a port has
  just the wires drawn, each once, or the node's own pipe alone, so that an
  emission makes one put for each of those it is due to; `RecordsInv`, that the
  newest record with an item is that of the last emission, which trimming the
  records keeps;
* NothingTwice, of Metrics. The invariant `Covered` says that what the next scrape
  will add is paid for, by what was counted or by what an instance brought along;
  `Unforgotten`, that until a total is lost the counter and what is still to be
  scraped make up all of it;
* IdKept, of Registry, retries and restarts included; its invariant speaks of
  paused nodes and of those not yet begun besides (`RouteHeld`, `Accounted`): they
  are the ones that run on later;
* StartedInOrder, of GraphRun. The invariant `SearchInv` holds of both searches:
  `in_degree` is the number of wires a node still waits for, a node is in the
  queue or taken exactly when that is 0, it is taken once, and after all that
  send to it. That a finished order leaves no cycle is an argument about the first
  node of a cycle in it (LeastIndex); that an unfinished one does, is that each
  node left waits for another one left;
* PartsKept, of Ports: a behaviour of the five side by side, which is what the run
  checks, is one of each.

`NodeTypes_proofs` proves, for any number of items, calls and emissions:

* RelayRefinement: `Spec => ImplementsRelay`, for every type that handles its
  input item by item. Each such type is one of a few families, by the ports it
  polls and by what it does with an item (`StreamPolls`, `WebPolls`, `RelayPlain`),
  so that a step of any of them is one of the few `Polls` and `Moves`, whatever
  the type, and what another family does cannot happen to it (`NoSourceStep`,
  `NoDeviceStep`). The invariant `LoopTyped` says where the loop of such a node is
  and what is on its way to it;
* SetsWhole, of the barrier and the logic gates. `JoinInv` says that the items
  that wait at a port are its own and in order (`Ordered`) and that a turn polls
  each port once (`Turns`); that a barrier holds what is newer than all it
  released (`BarrierInv`), and with no turn cut begins each turn without a full
  set (`SetOut`); and that a gate holds the last values it read, of other ports
  than those still to be polled (`GateInv`);
* Leftovers, of the types that reach outside. A step of such a type is one of
  the few of its kind (`KeeperSteps`, `OutsideSteps`), each with an invariant of
  its own: which life of which command still runs (`CommandsInv`); that an MQTT
  node has no more clients than its task accounts for and the cuts and retries
  spared (`ClientsKept`, `Spare`); that an inner graph stems from an init()
  (`SubgraphInv`); which peers may have a last word (`PeersInv`); and which posts
  wait in a queue, or for one (`PostsKept`);
* GoesOnAlways, of what a pause cuts. What a source is about to emit follows
  from what it emitted, counted in starts and cuts: a counter goes on from the
  last number, or each number it began with again is one init() (`CountKept`);
  a list is about to play what follows the last string, or has a break to spare
  (`PlayedKept`); a minute that has not fired is one that cron may still fire
  (`CronKept`); a pulse has as many rounds left as its count (`PulsesLeft`); of a
  file all up to the size taken last is emitted (`ReadKept`), and it has been begun
  once less than there were starts and cuts while a task has yet to begin it
  (`BegunKept`); and the counter of
  the round robin is the number of items since it was set (`Dealt`).
* OneCauseOneTrigger, of triggers. What waits in the pipe is newer than what was
  read, in order (`TriggerTyped`), so a round begins for an item that no other
  round is about, and each round under way, of the task or of a timer, has told
  just the targets before those it has left (`Told`). A toggle owes a repetition
  when its next round would have the form of its last one, which a cut pays for
  (`Owed`); a threshold that waits has counted the items since its last fire
  (`Counted`); and a debounce whose `_timer` is not alive has an init(), or a
  swallowed cancellation, to spare (`TimersKept`).

`BufferNodes_proofs` goes on from there and proves, as generally:

* WhatIsReadIsPassedOn, of the line buffer, the rolling window and the queue
  gate. Both what was read of a port and what waits there is in the order sent,
  in one line (`BufferLines`). All that a line buffer emitted, in one sequence,
  and what it keeps after it end with what it read (`LinesKept`; a flush moves
  from one to the other, which is what the lemma FlattenAppend is for); a
  trigger that a rolling window has seen is of this turn (`RollingInv`), so it
  is flushed at its end or cut with it, and a choice that waits has decided
  nothing yet; what a gate relayed, what it queues and the item of its turn are
  in a row (`Row`, `Behind`), and the items missing there plus the reads still
  parked on the pipe are no more than the cuts (`QueueKept`): a parked read has
  yet to lose its item.
* WindowsHoldTheNewest, of the queues, the stack, the table and the window. What
  is kept is the end of what was read (`WindowInv`), also while the node is
  stopped, and for a queue that blocks only its size is followed. A turn makes of
  the content the end of it with the new item, or empties it (`NewContent`,
  `WindowTurn`, one lemma per type), and the end of an end is an end (EndsEnds).
  A stack that only shows or clears keeps nothing (`WindowReady`): what it holds
  would else no longer be the end of what it has read, as what it reads is not
  kept.

`DeviceNodes_proofs` ends that chain with

* NoneLost, of the types that hand what they read to something outside. Where the
  task of such a node waits is one of a few places (`Standing`, DevicePlaces),
  and what a step does to its pipes is one of three ways (`DeviceWays`), so that
  what it has read of its one port has numbers that grow (`Rising`). Then each
  family has an invariant of its own: what was read is answered, in hand or lost
  to a cut or a connection (`Answered`), unless there is no command to answer it
  (`Mute`); a question that was cut is the last
  thing said (`Unanswered`); a client has all that was read since it joined but
  for what a round has still to send and what the cuts took (`Served`); what a
  log node emitted and queues is in the order of the records, and what is
  missing there a parked thread took (`LogKept`); what a subgraph emitted and what
  is under way in it end with what it read (`Carried`); the queue of an output is
  the end of what it read, and what is older was shown, or dropped while the
  queue was full (`Shared`); and what a UserInputNode shows is what it emitted
  since its init() (`ShownKept`).

The lemmas about what a helper changes (`DrainEffect`, `EnsureListenersEffect`,
`CancelListenersEffect`, `BeginStep`, ...) are proved once and cited by the step
lemmas.

Liveness (CallsReturn, ListenersEnd, EverythingArrives, EverythingEnds,
Progress) is model-checked only: it is out of the prover's reach. The invariants
and action properties that the passing runs check are all proved.

## Not modelled

* The payload of items, statistics, logs and wording. What an item is turned
  into is abstracted to the ports it goes to.
* Threads: synchronous endpoints of the API run in worker threads
  (`api/server.py:318`); the models take each request for one step of the loop.
* Items from one run of an engine to the next: the pipes of an engine are kept.
* A second press of Run, or of Stop, while a Run is under way, and sessions started
  from elsewhere than the canvas.
* Wires of a node that are replaced or doubled, in NodeLoop: its ports are wired
  once. What a port does then is InputPort.
* A target whose handle_control() raises asyncio.TimeoutError, which a toggle, a
  threshold and a debounce take for their own; any other exception is modelled.
  A trigger's own task that loses its cancellation to a target (as a debounce
  timer does) is cut at its next await instead; the model cuts it at once.
* `on_config_updated()`, the statistics of FanInPipe and get_nowait(), and Fork
  and Merge of `core/stream.py`, which nothing uses.
* The shared HTTP server: one for the process, the first host and port win.
  Its start and stop are not followed.
* What a stream or a GET shows first (the last items of a view).
* Authentication (a lookup for each request), persistence and its migration of old
  files, plugins, configuration, logging and paths: read or written in one step,
  with no behaviour over time.
* The MCP server offers the operations of the REST API by another protocol and
  has no state of its own beyond theirs; the command line calls the API or runs
  one engine. The editor appears by the requests it sends.
* Of the guards, which commands are allowed is a constant of the node.
