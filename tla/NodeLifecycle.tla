--------------------------- MODULE NodeLifecycle ---------------------------
(***************************************************************************)
(* The life cycle of one node: BaseNode in core/node.py.                   *)
(*                                                                         *)
(* A node owns one process loop (`_run_loop`, kept in the `_task` slot)    *)
(* and one listener task per control pipe wired to it                      *)
(* (`_control_listeners`).  Its start(), stop(), pause() and resume() are  *)
(* coroutines: request handlers and sessions call them, and so do the      *)
(* node's own listeners, when a control message asks for it.  All of them  *)
(* share one event loop, so a step of this module is the code that runs    *)
(* between two suspension points.                                          *)
(*                                                                         *)
(* A definition marked "Defect" is a wrong version of the one after it, to *)
(* check that the properties would notice; no specification uses it.       *)
(***************************************************************************)
EXTENDS Naturals, FiniteSets

CONSTANTS
  Clients,         \* coroutines that call the node: request handlers, a run
  Pipes,           \* control pipes that may be wired to the node
  Loops,           \* identities of process-loop tasks (a finished one is reused)
  Listeners,       \* identities of listener tasks (a finished one is reused)
  Commands,        \* the calls made, among "start", "stop", "pause", "resume"
  Retries,         \* config 'retries' of the node
  SuspendingInit,  \* whether init() may wait for something
  HandlerMayRaise, \* whether a node's handle_control() override may raise
  Exclusive,       \* whether a call begins only when no other one is suspended
  None

ASSUME LifecycleAssumption ==
  /\ Commands \subseteq {"start", "stop", "pause", "resume"}
  /\ Retries \in Nat
  /\ SuspendingInit \in BOOLEAN
  /\ HandlerMayRaise \in BOOLEAN
  /\ Exclusive \in BOOLEAN
  /\ Clients \cap Listeners = {}
  /\ Clients \cap Loops = {}
  /\ Listeners \cap Loops = {}
  /\ None \notin Clients \cup Listeners \cup Loops

VARIABLES
  running,      \* _running
  paused,       \* _paused
  initialized,  \* _initialized
  health,       \* _health
  slot,         \* _task: the loop the node knows about, or None
  loop,         \* what each loop task is doing
  tries,        \* `attempt` of each loop
  wired,        \* _control_pipes
  listener,     \* _control_listeners: pipe -> task, or None
  reads,        \* the pipe a listener task was created for
  cancel,       \* listener tasks with a cancellation not yet delivered
  pc,           \* where each coroutine is suspended
  waits         \* the tasks it is awaiting there

nodeVars == <<running, paused, initialized, health>>
loopVars == <<slot, loop, tries>>
ctlVars  == <<wired, listener, reads, cancel>>
vars     == <<nodeVars, loopVars, ctlVars, pc, waits>>

Actors == Clients \cup Listeners

\* Suspended inside a call.  A client is otherwise "ready"; a listener
\* otherwise waits for a message ("get"), or is not running at all ("off").
InCall == {"init", "stopTask", "stopListeners", "pauseTask", "unwire"}

Suspended(a) == pc[a] \in InCall
LiveLoop(t)  == loop[t] # "done"
LiveListener(l) == pc[l] # "off"

\* Defect: a loop that waits before its next try is overlooked.
InProcess == \E t \in Loops : t = slot /\ loop[t] = "process"

\* `_task`, and the record of pipe p, hold a task that is not over.
SlotLive == \E t \in Loops : t = slot /\ LiveLoop(t)
Listening(p) == \E l \in Listeners : l = listener[p] /\ LiveListener(l)

FreeLoops ==
  {t \in Loops : ~LiveLoop(t) /\ t # slot /\ \A a \in Actors : t \notin waits[a]}
FreeListeners ==
  {l \in Listeners : /\ ~LiveListener(l)
                     /\ \A p \in Pipes : listener[p] # l
                     /\ \A a \in Actors : l \notin waits[a]}

TypeOK ==
  /\ running \in BOOLEAN
  /\ paused \in BOOLEAN
  /\ initialized \in BOOLEAN
  /\ health \in {"unknown", "starting", "healthy", "idle", "retrying",
                 "paused", "stopped", "error"}
  /\ slot \in Loops \cup {None}
  /\ loop \in [Loops -> {"process", "backoff", "cancelling", "done"}]
  /\ tries \in [Loops -> 0..Retries]
  /\ wired \subseteq Pipes
  /\ listener \in [Pipes -> Listeners \cup {None}]
  /\ reads \in [Listeners -> Pipes \cup {None}]
  /\ cancel \subseteq Listeners
  /\ pc \in [Actors -> InCall \cup {"ready", "get", "off"}]
  /\ \A c \in Clients : pc[c] \in InCall \cup {"ready"}
  /\ \A l \in Listeners : pc[l] \in (InCall \ {"unwire"}) \cup {"get", "off"}
  /\ waits \in [Actors -> SUBSET (Loops \cup Listeners)]

Init ==
  /\ running = FALSE
  /\ paused = FALSE
  /\ initialized = FALSE
  /\ health = "unknown"
  /\ slot = None
  /\ loop = [t \in Loops |-> "done"]
  /\ tries = [t \in Loops |-> 0]
  /\ wired = {}
  /\ listener = [p \in Pipes |-> None]
  /\ reads = [l \in Listeners |-> None]
  /\ cancel = {}
  /\ pc = [a \in Actors |-> IF a \in Clients THEN "ready" ELSE "off"]
  /\ waits = [a \in Actors |-> {}]

-----------------------------------------------------------------------------
(* What the calls are made of.                                             *)

\* A coroutine can make a call: a client between two requests, a listener
\* that has just received a message.
MayCall(a) ==
  /\ \/ a \in Clients /\ pc[a] = "ready"
     \/ a \in Listeners /\ pc[a] = "get" /\ a \notin cancel
  /\ Exclusive => \A b \in Actors : ~Suspended(b)

\* Where a coroutine goes when its call returns: a listener re-reads its
\* loop condition, `while self._running or self._paused`.
Returned(a) ==
  IF a \in Clients THEN "ready" ELSE IF running' \/ paused' THEN "get" ELSE "off"

\* Defects: listeners that live are replaced too; dead ones are not.
EveryPipe(ps)  == ps
Unrecorded(ps) == {p \in ps : listener[p] = None}
\* The pipes of ps whose listener is missing or over.
Unheard(ps)    == {p \in ps : ~Listening(p)}

\* _ensure_control_listener() for every pipe of ps, made by a, which goes on
\* to `next`: a new task for each pipe that needs one.
EnsureListeners(ps, a, next) ==
  \E f \in [Unheard(ps) -> FreeListeners] :
    LET created == {f[p] : p \in DOMAIN f} IN
    /\ \A p, q \in DOMAIN f : f[p] = f[q] => p = q
    /\ listener' = [p \in Pipes |-> IF p \in DOMAIN f THEN f[p] ELSE listener[p]]
    /\ reads' = [l \in Listeners |-> IF l \in created
                                     THEN CHOOSE p \in DOMAIN f : f[p] = l
                                     ELSE reads[l]]
    /\ cancel' = cancel \ created
    /\ pc' = [x \in Actors |-> IF x \in created THEN "get"
                               ELSE IF x = a THEN next ELSE pc[x]]

\* The last lines of start(): a new loop, recorded over whatever the slot held.
Spawn ==
  \E t \in FreeLoops :
    /\ slot' = t
    /\ loop' = [loop EXCEPT ![t] = "process"]
    /\ tries' = [tries EXCEPT ![t] = 0]
    /\ health' = "healthy"

\* start() past its early return.  init() may succeed or fail at once, or
\* leave the caller suspended with the node already marked running.
StartNode(a) ==
  /\ paused' = FALSE
  /\ \/ /\ running' = TRUE
        /\ initialized' = TRUE
        /\ Spawn
        /\ EnsureListeners(wired, a, Returned(a))
     \/ /\ ~initialized
        /\ running' = FALSE
        /\ health' = "error"
        /\ EnsureListeners(wired, a, Returned(a))
        /\ UNCHANGED <<initialized, loopVars>>
     \/ /\ ~initialized
        /\ SuspendingInit
        /\ running' = TRUE
        /\ health' = "starting"
        /\ EnsureListeners(wired, a, "init")
        /\ UNCHANGED <<initialized, loopVars>>
  /\ UNCHANGED <<wired, waits>>

\* A cancelled coroutine that is itself awaiting a listener passes the
\* cancellation on to it.
Reached(S) ==
  S \cup UNION {{m \in waits[l] \cap Listeners : LiveListener(m)} : l \in S}

\* Defect: the caller is among the tasks it awaits.
AwaitsItself(a, live) == live

\* Of the cancelled tasks, those the caller a then awaits.
AwaitedBy(a, live) == live \ {a}

\* _cancel_all_control_listeners(), made by a: the record is emptied, then
\* every task in it is cancelled, then awaited.  The caller may be one of
\* them; its own cancellation ends with the call.
CancelListeners(a) ==
  LET live == {l \in Listeners : LiveListener(l) /\ \E p \in Pipes : listener[p] = l}
  IN  /\ listener' = [p \in Pipes |-> None]
      /\ cancel' = (cancel \cup Reached(live)) \ {a}
      /\ waits' = [waits EXCEPT ![a] = AwaitedBy(a, live)]
      /\ pc' = [pc EXCEPT ![a] = IF live = {} THEN Returned(a) ELSE "stopListeners"]
      /\ UNCHANGED <<wired, reads>>

-----------------------------------------------------------------------------
(* The calls, each up to its first suspension, then from there on.         *)

\* Defect: start() without its early return.
StartAgain(a) == "start" \in Commands /\ MayCall(a) /\ StartNode(a)

Start(a) ==
  /\ "start" \in Commands
  /\ MayCall(a)
  /\ ~running
  /\ StartNode(a)

\* resume() calls start(), whose early return cannot apply: see PausedNotRunning.
Resume(a) ==
  /\ "resume" \in Commands
  /\ MayCall(a)
  /\ paused
  /\ StartNode(a)

\* init() returned: start() goes on without looking at the flags again.
InitDone(a) ==
  /\ pc[a] = "init"
  /\ a \notin cancel
  /\ initialized' = TRUE
  /\ Spawn
  /\ UNCHANGED <<running, paused, ctlVars, waits>>
  /\ pc' = [pc EXCEPT ![a] = Returned(a)]

\* Defect: a failed init() leaves `_health` as it was.
InitFailedSilently(a) ==
  /\ pc[a] = "init"
  /\ a \notin cancel
  /\ running' = FALSE
  /\ pc' = [pc EXCEPT ![a] = Returned(a)]
  /\ UNCHANGED <<paused, initialized, health, loopVars, ctlVars, waits>>

InitFailed(a) ==
  /\ pc[a] = "init"
  /\ a \notin cancel
  /\ health' = "error"
  /\ running' = FALSE
  /\ UNCHANGED <<paused, initialized, loopVars, ctlVars, waits>>
  /\ pc' = [pc EXCEPT ![a] = Returned(a)]

\* The caller was cancelled while init() waited: a listener by stop() or by
\* a disconnect, a client by whoever runs it (Session.stop()).
InitCancelled(a) ==
  /\ pc[a] = "init"
  /\ a \in Clients \cup cancel
  /\ running' = FALSE
  /\ health' = "stopped"
  /\ pc' = [pc EXCEPT ![a] = IF a \in Clients THEN "ready" ELSE "off"]
  /\ cancel' = cancel \ {a}
  /\ UNCHANGED <<paused, initialized, loopVars, wired, listener, reads, waits>>

\* The first half of stop() and of pause(): _cancel_task('_task').
CancelLoop(a, where) ==
  /\ loop' = [loop EXCEPT ![slot] = "cancelling"]
  /\ pc' = [pc EXCEPT ![a] = where]
  /\ waits' = [waits EXCEPT ![a] = {slot}]
  /\ UNCHANGED <<slot, tries, ctlVars>>

Stop(a) ==
  /\ "stop" \in Commands
  /\ MayCall(a)
  /\ running' = FALSE
  /\ paused' = FALSE
  /\ health' = "stopped"
  /\ initialized' = FALSE
  /\ \/ /\ SlotLive
        /\ CancelLoop(a, "stopTask")
     \/ /\ ~SlotLive
        /\ slot' = None
        /\ CancelListeners(a)
        /\ UNCHANGED <<loop, tries>>

\* The awaited loop is over.  A cancellation of the caller itself is
\* swallowed here by the handler that expects the loop's.
StopTaskDone(a) ==
  /\ pc[a] = "stopTask"
  /\ \A t \in waits[a] : ~LiveLoop(t)
  /\ UNCHANGED <<nodeVars, loop, tries>>
  /\ slot' = None
  /\ CancelListeners(a)

StopListenersDone(a) ==
  /\ pc[a] = "stopListeners"
  /\ \A l \in waits[a] : ~LiveListener(l)
  /\ UNCHANGED <<nodeVars, loopVars>>
  /\ pc' = [pc EXCEPT ![a] = Returned(a)]
  /\ waits' = [waits EXCEPT ![a] = {}]
  /\ cancel' = cancel \ {a}
  /\ UNCHANGED <<wired, listener, reads>>

\* Defect: pause() leaves `_running` up.
PauseKeepsRunning(a) ==
  /\ "pause" \in Commands
  /\ MayCall(a)
  /\ running /\ ~paused /\ SlotLive
  /\ paused' = TRUE
  /\ health' = "paused"
  /\ CancelLoop(a, "pauseTask")
  /\ UNCHANGED <<running, initialized>>

Pause(a) ==
  /\ "pause" \in Commands
  /\ MayCall(a)
  /\ running /\ ~paused
  /\ paused' = TRUE
  /\ running' = FALSE
  /\ health' = "paused"
  /\ \/ /\ SlotLive
        /\ CancelLoop(a, "pauseTask")
     \/ /\ ~SlotLive
        /\ slot' = None
        /\ UNCHANGED <<loop, tries, ctlVars, pc, waits>>
  /\ UNCHANGED initialized

PauseDone(a) ==
  /\ pc[a] = "pauseTask"
  /\ \A t \in waits[a] : ~LiveLoop(t)
  /\ slot' = None
  /\ UNCHANGED nodeVars
  /\ pc' = [pc EXCEPT ![a] = Returned(a)]
  /\ waits' = [waits EXCEPT ![a] = {}]
  /\ cancel' = cancel \ {a}
  /\ UNCHANGED <<loop, tries, wired, listener, reads>>

\* add_input('control', p)
Wire(c, p) ==
  /\ MayCall(c)
  /\ p \notin wired
  /\ wired' = wired \cup {p}
  /\ \/ /\ running \/ paused
        /\ EnsureListeners({p}, c, pc[c])
     \/ /\ ~running /\ ~paused
        /\ UNCHANGED <<listener, reads, cancel, pc>>
  /\ UNCHANGED <<nodeVars, loopVars, waits>>

\* remove_control_input(p)
Unwire(c, p) ==
  /\ MayCall(c)
  /\ p \in wired
  /\ wired' = wired \ {p}
  /\ listener' = [listener EXCEPT ![p] = None]
  /\ \/ /\ Listening(p)
        /\ cancel' = cancel \cup Reached({listener[p]})
        /\ pc' = [pc EXCEPT ![c] = "unwire"]
        /\ waits' = [waits EXCEPT ![c] = {listener[p]}]
     \/ /\ ~Listening(p)
        /\ UNCHANGED <<cancel, pc, waits>>
  /\ UNCHANGED <<nodeVars, loopVars, reads>>

UnwireDone(c) ==
  /\ pc[c] = "unwire"
  /\ \A l \in waits[c] : ~LiveListener(l)
  /\ pc' = [pc EXCEPT ![c] = "ready"]
  /\ waits' = [waits EXCEPT ![c] = {}]
  /\ UNCHANGED <<nodeVars, loopVars, ctlVars>>

-----------------------------------------------------------------------------
(* The tasks: _run_loop() and _control_listener().                         *)

\* Defect: `_health` does not depend on `_running`.
AlwaysIdle  == "idle"
\* `_health` once process() has returned.
EndedHealth == IF running THEN "idle" ELSE "stopped"

\* Defect: one retry more than the node is configured for.
OneTooMany(t)  == tries[t] <= Retries
\* A failing loop may try again.
RetriesLeft(t) == tries[t] < Retries

\* process() returned of its own accord.
LoopReturned(t) ==
  /\ loop[t] = "process"
  /\ loop' = [loop EXCEPT ![t] = "done"]
  /\ health' = EndedHealth
  /\ UNCHANGED <<running, paused, initialized, slot, tries, ctlVars, pc, waits>>

LoopRaised(t) ==
  /\ loop[t] = "process"
  /\ \/ /\ RetriesLeft(t)
        /\ loop' = [loop EXCEPT ![t] = "backoff"]
        /\ tries' = [tries EXCEPT ![t] = @ + 1]
        /\ health' = "retrying"
     \/ /\ ~RetriesLeft(t)
        /\ loop' = [loop EXCEPT ![t] = "done"]
        /\ health' = "error"
        /\ UNCHANGED tries
  /\ UNCHANGED <<running, paused, initialized, slot, ctlVars, pc, waits>>

\* After the delay and a new init(), failed or not, process() runs again.
LoopRetried(t) ==
  /\ loop[t] = "backoff"
  /\ loop' = [loop EXCEPT ![t] = "process"]
  /\ UNCHANGED <<nodeVars, slot, tries, ctlVars, pc, waits>>

\* The cancellation reaches process(), which ends by it, or (TriggerNode)
\* answers it by returning.
LoopCancelled(t) ==
  /\ loop[t] = "cancelling"
  /\ loop' = [loop EXCEPT ![t] = "done"]
  /\ \/ UNCHANGED health
     \/ health' = EndedHealth
  /\ UNCHANGED <<running, paused, initialized, slot, tries, ctlVars, pc, waits>>

\* Defect: the listener goes by `_health`, which a failed start does not stop.
ListenerExitsWhenStopped(l) ==
  /\ pc[l] = "get"
  /\ l \notin cancel
  /\ health = "stopped"
  /\ pc' = [pc EXCEPT ![l] = "off"]
  /\ UNCHANGED <<nodeVars, loopVars, ctlVars, waits>>

\* The half-second poll finds the loop condition false.
ListenerExited(l) ==
  /\ pc[l] = "get"
  /\ l \notin cancel
  /\ ~running /\ ~paused
  /\ pc' = [pc EXCEPT ![l] = "off"]
  /\ UNCHANGED <<nodeVars, loopVars, ctlVars, waits>>

ListenerCancelled(l) ==
  /\ pc[l] = "get"
  /\ l \in cancel
  /\ pc' = [pc EXCEPT ![l] = "off"]
  /\ cancel' = cancel \ {l}
  /\ UNCHANGED <<nodeVars, loopVars, wired, listener, reads, waits>>

\* handle_control() raised: this listener ends, nothing replaces it.
ListenerBroke(l) ==
  /\ HandlerMayRaise
  /\ MayCall(l)
  /\ pc' = [pc EXCEPT ![l] = "off"]
  /\ UNCHANGED <<nodeVars, loopVars, ctlVars, waits>>

-----------------------------------------------------------------------------
Call(a) == Start(a) \/ Stop(a) \/ Pause(a) \/ Resume(a)

Resumption(a) ==
  \/ InitDone(a) \/ InitFailed(a) \/ InitCancelled(a)
  \/ StopTaskDone(a) \/ StopListenersDone(a)
  \/ PauseDone(a)

LoopStep(t) ==
  LoopReturned(t) \/ LoopRaised(t) \/ LoopRetried(t) \/ LoopCancelled(t)

ListenerStep(l) == ListenerExited(l) \/ ListenerCancelled(l) \/ ListenerBroke(l)

Next ==
  \/ \E a \in Actors : Call(a) \/ Resumption(a)
  \/ \E c \in Clients, p \in Pipes : Wire(c, p) \/ Unwire(c, p)
  \/ \E c \in Clients : UnwireDone(c)
  \/ \E t \in Loops : LoopStep(t)
  \/ \E l \in Listeners : ListenerStep(l)

Spec == Init /\ [][Next]_vars

(***************************************************************************)
(* The event loop runs what is ready: an await whose task is over returns, *)
(* a delivered cancellation ends its task, a listener's poll times out, a  *)
(* suspended init() ends somehow.  Nothing makes a client call, process()  *)
(* return or a message arrive.                                             *)
(***************************************************************************)
Fairness ==
  /\ \A a \in Actors : WF_vars(Resumption(a))
  /\ \A c \in Clients : WF_vars(UnwireDone(c))
  /\ \A t \in Loops : WF_vars(LoopCancelled(t))
  /\ \A l \in Listeners : WF_vars(ListenerExited(l) \/ ListenerCancelled(l))

FairSpec == Spec /\ Fairness

-----------------------------------------------------------------------------
(* Properties.                                                             *)

Settled == \A a \in Actors : ~Suspended(a)

\* start() is a no-op on a running node and resume() on one that is not
\* paused; both rely on the two flags never being up together.
PausedNotRunning == ~(running /\ paused)

\* Every live process loop is the one in `_task`, the only one stop() and
\* pause() can reach.  So there is at most one, and none is ever orphaned.
NoStrayLoop == \A t \in Loops : LiveLoop(t) => t = slot

\* Every live listener is the recorded listener of the pipe it reads, or is on
\* its way out, cancelled by another call or ending its own stop(): no two
\* listeners go on handling the messages of one pipe.
NoStrayListener ==
  \A l \in Listeners :
    LiveListener(l) /\ l \notin cancel /\ pc[l] # "stopListeners" =>
      listener[reads[l]] = l

\* Once the calls have returned, a node that is not running has no live loop:
\* stop() and pause() return only when process() is really over.
NotRunningIsQuiet == Settled /\ ~running => \A t \in Loops : ~LiveLoop(t)

\* A paused node can still be told to resume, a running one to stop: every
\* control pipe wired to it has a listener that no one is cancelling.
ControlReachable ==
  running \/ paused =>
    \A p \in wired : Listening(p) /\ listener[p] \notin cancel

\* What the editor shows is so: a settled node reads "healthy" or "retrying"
\* only with its loop alive, "idle" only while it counts as running, and
\* "paused" only when it can be resumed.
HealthHonest ==
  Settled =>
    /\ health \in {"healthy", "retrying"} => running /\ SlotLive
    /\ health = "idle" => running /\ ~SlotLive
    /\ health = "paused" => paused
    /\ health # "starting"

\* A loop begins only on a node that has been set up since its last stop(),
\* and never while the previous loop is still being cancelled.
CleanRestart ==
  [][\A t \in Loops :
       ~LiveLoop(t) /\ LiveLoop(t)' =>
         initialized' /\ running' /\ \A u \in Loops : ~LiveLoop(u)]_vars

\* Every call returns to its caller.
CallsReturn == \A a \in Actors : Suspended(a) ~> ~Suspended(a)

\* A stopped or failed node ends up with no listener: nothing goes on polling
\* its control pipes unless it is started again.
ListenersEnd ==
  \A l \in Listeners : LiveListener(l) /\ ~running /\ ~paused
                         ~> (~LiveListener(l) \/ running \/ paused)
=============================================================================
