--------------------------- MODULE SessionEngine ---------------------------
(***************************************************************************)
(* One session: Session and SessionManager.delete() in                     *)
(* core/session_manager.py, Engine in core/engine.py, and the node         *)
(* registry of core/web_server.py as far as the session's nodes go.        *)
(*                                                                         *)
(* Session.start() creates a task, a run, which builds a new instance of   *)
(* every node, registers and starts them, then supervises until it is      *)
(* cancelled and stops them.  Request handlers call start(), stop(),       *)
(* pause(), resume() and delete; runs and handlers share one event loop    *)
(* and one Engine, whose node_instances the newest run overwrites.         *)
(*                                                                         *)
(* A node instance is the pair <<run, node>>.  Of its life cycle, which    *)
(* NodeLifecycle follows in detail, only what runs and sessions touch is   *)
(* here: its flags, its process loop, and the slot by which stop() and     *)
(* pause() reach the loop.                                                 *)
(*                                                                         *)
(* A definition marked "Defect" is a wrong version of the one after it, to *)
(* check that the properties would notice; no specification uses it.       *)
(***************************************************************************)
EXTENDS Naturals, FiniteSets

CONSTANTS
  Handlers,     \* request handlers that call the session
  Background,   \* stands for the tasks that nobody awaits
  Runs,         \* identities of runs (one that is over and forgotten is reused)
  NodeCount,    \* nodes of the graph, numbered in topological order
  SlowNodes,    \* nodes whose init() waits for something
  HasPumps,     \* whether the graph has an attribute edge
  Commands,     \* the calls made
  Patient,      \* those made only when nothing else is under way
  StartsPaused, \* whether start is asked of a paused session
  None

Nodes == 1..NodeCount

ASSUME SessionAssumption ==
  /\ NodeCount \in Nat
  /\ SlowNodes \subseteq Nodes
  /\ Commands \subseteq {"start", "stop", "pause", "resume", "delete", "drop"}
  /\ Patient \subseteq Commands
  /\ {HasPumps, StartsPaused} \subseteq BOOLEAN
  /\ Background \notin Handlers
  /\ (Handlers \cup {Background}) \cap Runs = {}
  /\ None \notin Runs
  \* A node paused while its own init() waits is left to NodeLifecycle.
  /\ SlowNodes # {} => "pause" \notin Commands

VARIABLES
  status,      \* Session.status
  task,        \* Session.task: the run it started last, or None
  deleted,     \* whether SessionManager has forgotten the session
  phase,       \* where each run is
  at,          \* the node whose init() a starting run awaits
  cancelled,   \* runs with a cancellation not yet delivered
  owner,       \* Engine.node_instances: node -> the run whose instance it is
  registered,  \* _session_nodes of this session: likewise
  evicted,     \* instances whose stop() the registry has scheduled
  flag,        \* _running, _paused and _health of each instance
  alive,       \* instances whose process loop runs
  dying,       \* instances with a loop that is cancelled but not over
  slot,        \* instances whose `_task` holds a loop
  pc,          \* what each caller is suspended in
  joins,       \* the run it awaits there
  wait         \* the instances whose cancelled loop each caller or run awaits

sessionVars == <<status, task, deleted>>
runVars     == <<phase, at, cancelled>>
engineVars  == <<owner, registered, evicted>>
nodeVars    == <<flag, alive, dying, slot>>
callVars    == <<pc, joins, wait>>
vars        == <<sessionVars, runVars, engineVars, nodeVars, callVars>>

Instances == Runs \X Nodes
Callers   == Handlers \cup {Background}
Current   == {<<owner[n], n>> : n \in {m \in Nodes : owner[m] # None}}

\* "created": not begun; "starting": awaiting an init(); "supervising";
\* in stop_all(), "pumps": awaiting the attribute pumps, "dispatch": the
\* nodes' stop() coroutines are scheduled, "stopping": they have begun.
Phases == {"none", "created", "starting", "supervising", "pumps", "dispatch",
           "stopping", "over"}
Unfinished(r) == phase[r] \notin {"none", "over"}

TypeOK ==
  /\ status \in {"created", "running", "paused", "stopped", "error"}
  /\ task \in Runs \cup {None}
  /\ deleted \in BOOLEAN
  /\ phase \in [Runs -> Phases]
  /\ at \in [Runs -> Nodes \cup {0}]
  /\ cancelled \subseteq Runs
  /\ owner \in [Nodes -> Runs \cup {None}]
  /\ registered \in [Nodes -> Runs \cup {None}]
  /\ evicted \subseteq Instances
  /\ flag \in [Instances -> {"new", "init", "running", "paused", "stopped", "failed"}]
  /\ alive \subseteq Instances
  /\ dying \subseteq Instances
  /\ slot \subseteq Instances
  /\ pc \in [Callers -> {"ready", "stop", "delete", "pause", "reap"}]
  /\ joins \in [Callers -> Runs \cup {None}]
  /\ wait \in [Callers \cup Runs -> SUBSET Instances]

Init ==
  /\ status = "created"
  /\ task = None
  /\ deleted = FALSE
  /\ phase = [r \in Runs |-> "none"]
  /\ at = [r \in Runs |-> 0]
  /\ cancelled = {}
  /\ owner = [n \in Nodes |-> None]
  /\ registered = [n \in Nodes |-> None]
  /\ evicted = {}
  /\ flag = [i \in Instances |-> "new"]
  /\ alive = {}
  /\ dying = {}
  /\ slot = {}
  /\ pc = [c \in Callers |-> "ready"]
  /\ joins = [c \in Callers |-> None]
  /\ wait = [a \in Callers \cup Runs |-> {}]

-----------------------------------------------------------------------------
(* What the calls and the runs are made of.                                *)

\* Nothing is under way: no call, no start-up, no shutdown.
Settled ==
  /\ \A c \in Callers : pc[c] = "ready" /\ wait[c] = {}
  /\ \A r \in Runs : phase[r] \in {"none", "supervising", "over"}
  /\ cancelled = {} /\ evicted = {}

MayCall(h, command) ==
  /\ command \in Commands
  /\ pc[h] = "ready"
  /\ ~deleted
  /\ command \in Patient => Settled

FreeRuns ==
  {r \in Runs : /\ ~Unfinished(r) /\ r # task
                /\ \A n \in Nodes : owner[n] # r /\ registered[n] # r
                /\ \A c \in Callers : joins[c] # r
                /\ \A i \in alive \cup dying \cup evicted : i[1] # r
                /\ \A a \in Callers \cup Runs : \A i \in wait[a] : i[1] # r}

\* Defect: the flags change, the loops go on.
LeaveLoops(a, I) == UNCHANGED <<alive, dying, slot, wait>>

\* The part of BaseNode.stop() and pause() that ends the loops, begun by a
\* on every instance of I: a then awaits those it has cancelled.
CancelLoops(a, I) ==
  LET reached == I \cap slot \cap (alive \cup dying) IN
  /\ alive' = alive \ reached
  /\ dying' = dying \cup reached
  /\ slot' = slot \ (I \ reached)
  /\ wait' = [wait EXCEPT ![a] = (@ \ I) \cup reached]

\* BaseNode.stop(), begun by a on every instance of I.
StopNodes(a, I) ==
  /\ flag' = [i \in Instances |-> IF i \in I THEN "stopped" ELSE flag[i]]
  /\ CancelLoops(a, I)

\* Defect: the new tasks are not kept in `_task`.
ForgottenLoops(I) == alive' = alive \cup I /\ slot' = slot

\* The last line of BaseNode.start(), on every instance of I.
NewLoops(I) == alive' = alive \cup I /\ slot' = slot \cup I

\* Run r starts its nodes from k on, one after the other, up to the first
\* whose init() suspends it.  An init() may fail: that node is left behind.
\* `built` has the flags before, `inits` the node whose init() just ended.
StartFrom(r, k, built, inits) ==
  LET slow == {n \in SlowNodes : n >= k}
      last == IF slow = {} THEN NodeCount
              ELSE (CHOOSE n \in slow : \A m \in slow : n <= m) - 1
  IN  \E failed \in SUBSET (k..last) :
        LET begun == {<<r, n>> : n \in ((k..last) \ failed) \cup inits} IN
        /\ flag' = [i \in Instances |->
                      IF i[1] = r /\ i[2] \in failed THEN "failed"
                      ELSE IF i[1] = r /\ i[2] \in k..last THEN "running"
                      ELSE IF i = <<r, last + 1>> THEN "init" ELSE built[i]]
        /\ NewLoops(begun)
        /\ phase' = [phase EXCEPT ![r] = IF slow = {} THEN "supervising" ELSE "starting"]
        /\ at' = [at EXCEPT ![r] = IF slow = {} THEN 0 ELSE last + 1]

-----------------------------------------------------------------------------
(* Session.                                                                *)

\* Defect: start() does not look at the status.
AlwaysStarts == TRUE

\* start() returns at once on a session that is running; whether it is called
\* on a paused one is up to the callers.
MayStart == status # "running" /\ (status = "paused" => StartsPaused)

Start(h) ==
  /\ MayCall(h, "start")
  /\ MayStart
  /\ status' = "running"
  /\ \E r \in FreeRuns :
       /\ task' = r
       /\ phase' = [phase EXCEPT ![r] = "created"]
       /\ flag' = [i \in Instances |-> IF i[1] = r THEN "new" ELSE flag[i]]
       /\ slot' = {i \in slot : i[1] # r}
  /\ UNCHANGED <<deleted, at, cancelled, engineVars, alive, dying, callVars>>

\* Defect: stop() awaits the run without cancelling it.
StopUncancelled(c, where) ==
  /\ status' = "stopped"
  /\ pc' = [pc EXCEPT ![c] = where]
  /\ joins' = [joins EXCEPT ![c] = task]
  /\ UNCHANGED cancelled

\* stop(), by caller c, who is then suspended in `where` until the run is over.
StopSession(c, where) ==
  /\ status' = "stopped"
  /\ cancelled' = cancelled \cup {task}
  /\ pc' = [pc EXCEPT ![c] = where]
  /\ joins' = [joins EXCEPT ![c] = task]

\* Defect: a session that was never started has no task to ask.
TaskNotDone == \A r \in Runs : r = task => Unfinished(r)

\* `self.task and not self.task.done()`
TaskUnfinished == \E r \in Runs : r = task /\ Unfinished(r)

Stop(h) ==
  /\ MayCall(h, "stop")
  /\ \/ /\ TaskUnfinished
        /\ StopSession(h, "stop")
     \/ /\ ~TaskUnfinished
        /\ status' = "stopped"
        /\ UNCHANGED <<cancelled, pc, joins>>
  /\ UNCHANGED <<task, deleted, phase, at, engineVars, nodeVars, wait>>

StopReturns(c) ==
  /\ pc[c] \in {"stop", "reap"}
  /\ \E r \in Runs : r = joins[c] /\ ~Unfinished(r)
  /\ pc' = [pc EXCEPT ![c] = "ready"]
  /\ joins' = [joins EXCEPT ![c] = None]
  /\ UNCHANGED <<sessionVars, runVars, engineVars, nodeVars, wait>>

\* Engine.pause_all(): the current instances that run are paused together.
Pause(h) ==
  /\ MayCall(h, "pause")
  /\ status = "running"
  /\ status' = "paused"
  /\ LET I == {i \in Current : flag[i] = "running"} IN
       /\ flag' = [i \in Instances |-> IF i \in I THEN "paused" ELSE flag[i]]
       /\ CancelLoops(h, I)
  /\ pc' = [pc EXCEPT ![h] = "pause"]
  /\ UNCHANGED <<task, deleted, runVars, engineVars, joins>>

PauseReturns(h) ==
  /\ pc[h] = "pause"
  /\ wait[h] = {}
  /\ pc' = [pc EXCEPT ![h] = "ready"]
  /\ UNCHANGED <<sessionVars, runVars, engineVars, nodeVars, joins, wait>>

\* Engine.resume_all(): the current instances that are paused get a new loop.
Resume(h) ==
  /\ MayCall(h, "resume")
  /\ status = "paused"
  /\ status' = "running"
  /\ LET I == {i \in Current : flag[i] = "paused"} IN
       /\ flag' = [i \in Instances |-> IF i \in I THEN "running" ELSE flag[i]]
       /\ NewLoops(I)
  /\ UNCHANGED <<task, deleted, runVars, engineVars, dying, callVars>>

-----------------------------------------------------------------------------
(* Deleting the session.                                                   *)

\* Defect: the session goes, its nodes stay registered.
ForgetSessionOnly == deleted' = TRUE /\ UNCHANGED registered

\* The session leaves the manager, its nodes the registry.
Forget ==
  /\ deleted' = TRUE
  /\ registered' = [n \in Nodes |-> None]

\* SessionManager.delete(), which cannot await: a run that is not over is
\* left to a stop() in the background.
Drop(h) ==
  /\ MayCall(h, "drop")
  /\ Forget
  /\ pc' = [pc EXCEPT ![Background] = IF TaskUnfinished THEN "reap" ELSE "ready"]
  /\ UNCHANGED <<status, task, runVars, owner, evicted, nodeVars, joins, wait>>

\* The background stop() begins.
Reap ==
  /\ pc[Background] = "reap" /\ joins[Background] = None
  /\ \/ /\ TaskUnfinished
        /\ StopSession(Background, "reap")
     \/ /\ ~TaskUnfinished
        /\ status' = "stopped"
        /\ pc' = [pc EXCEPT ![Background] = "ready"]
        /\ UNCHANGED <<cancelled, joins>>
  /\ UNCHANGED <<task, deleted, phase, at, engineVars, nodeVars, wait>>

\* The REST endpoint awaits stop() first.
Delete(h) ==
  /\ MayCall(h, "delete")
  /\ \/ /\ TaskUnfinished
        /\ StopSession(h, "delete")
        /\ UNCHANGED <<deleted, registered>>
     \/ /\ ~TaskUnfinished
        /\ Forget
        /\ UNCHANGED <<status, cancelled, pc, joins>>
  /\ UNCHANGED <<task, phase, at, owner, evicted, nodeVars, wait>>

DeleteReturns(h) ==
  /\ pc[h] = "delete"
  /\ \E r \in Runs : r = joins[h] /\ ~Unfinished(r)
  /\ Forget
  /\ pc' = [pc EXCEPT ![h] = "ready",
                      ![Background] = IF TaskUnfinished /\ ~deleted THEN "reap" ELSE @]
  /\ joins' = [joins EXCEPT ![h] = None]
  /\ UNCHANGED <<status, task, runVars, owner, evicted, nodeVars, wait>>

-----------------------------------------------------------------------------
(* Engine.                                                                 *)

\* The event loop takes ready tasks in order: run r begins after the runs
\* created before it, and after the cancellations requested before that.
MayBegin(r) ==
  /\ phase[r] = "created"
  /\ cancelled = {}
  /\ r = task => \A q \in Runs \ {r} : phase[q] # "created"

\* Engine.run() up to its first suspension: the instances of every node are
\* built and registered, which evicts those still running, and started.
RunBegins(r) ==
  /\ MayBegin(r)
  /\ owner' = [n \in Nodes |-> r]
  /\ registered' = [n \in Nodes |-> r]
  /\ evicted' = evicted \cup {i \in Instances : registered[i[2]] = i[1]
                                                /\ flag[i] \in {"running", "init"}}
  /\ StartFrom(r, 1, flag, {})
  /\ UNCHANGED <<sessionVars, cancelled, dying, callVars>>

\* A node's constructor raises: the instances of the nodes before it, S, are
\* registered, and nothing is started.
RunFails(r) ==
  /\ MayBegin(r)
  /\ \E S \in (SUBSET Nodes) \ {Nodes} :
       /\ owner' = [n \in Nodes |-> IF n \in S THEN r ELSE owner[n]]
       /\ registered' = [n \in Nodes |-> IF n \in S THEN r ELSE registered[n]]
       /\ evicted' = evicted \cup {i \in Instances : registered[i[2]] = i[1] /\ i[2] \in S
                                                     /\ flag[i] \in {"running", "init"}}
  /\ phase' = [phase EXCEPT ![r] = "over"]
  /\ status' = "error"
  /\ UNCHANGED <<task, deleted, at, cancelled, nodeVars, callVars>>

\* The init() the run awaits ends: start() spawns the loop without looking at
\* the flags again, and the run goes on with the next node.
InitDone(r) ==
  /\ phase[r] = "starting"
  /\ r \notin cancelled
  /\ LET i == <<r, at[r]>>
         was == IF flag[i] = "init" THEN "running" ELSE flag[i]
     IN  \/ StartFrom(r, at[r] + 1, [flag EXCEPT ![i] = was], {at[r]})
         \/ StartFrom(r, at[r] + 1, [flag EXCEPT ![i] = "failed"], {})
  /\ UNCHANGED <<sessionVars, cancelled, engineVars, dying, callVars>>

\* A cancellation reaches a run.  Before its first step, the run just ends.
\* While a node starts, only that node is given up: the loop that starts the
\* nodes is outside the try block whose handler stops them.
CancelledEarly(r) ==
  /\ r \in cancelled
  /\ \/ /\ phase[r] = "created"
        /\ UNCHANGED <<status, flag>>
     \/ /\ phase[r] = "starting"
        /\ status' = "stopped"
        /\ flag' = [flag EXCEPT ![<<r, at[r]>>] = "stopped"]
  /\ phase' = [phase EXCEPT ![r] = "over"]
  /\ at' = [at EXCEPT ![r] = 0]
  /\ cancelled' = cancelled \ {r}
  /\ UNCHANGED <<task, deleted, engineVars, alive, dying, slot, callVars>>

\* _supervise() is cancelled: stop_all() begins.
StopAll(r) ==
  /\ phase[r] = "supervising"
  /\ r \in cancelled
  /\ phase' = [phase EXCEPT ![r] = IF HasPumps THEN "pumps" ELSE "dispatch"]
  /\ wait' = [wait EXCEPT ![r] = IF HasPumps THEN {} ELSE Current]
  /\ cancelled' = cancelled \ {r}
  /\ UNCHANGED <<sessionVars, at, engineVars, nodeVars, pc, joins>>

\* The attribute pumps are over: the stop() of every node is scheduled.
PumpsDone(r) ==
  /\ phase[r] = "pumps"
  /\ r \notin cancelled
  /\ phase' = [phase EXCEPT ![r] = "dispatch"]
  /\ wait' = [wait EXCEPT ![r] = Current]
  /\ UNCHANGED <<sessionVars, at, cancelled, engineVars, nodeVars, pc, joins>>

\* The scheduled stop() coroutines begin.
Dispatch(r) ==
  /\ phase[r] = "dispatch"
  /\ r \notin cancelled
  /\ phase' = [phase EXCEPT ![r] = "stopping"]
  /\ StopNodes(r, wait[r])
  /\ UNCHANGED <<sessionVars, at, cancelled, engineVars, pc, joins>>

\* A second cancellation abandons what stop_all() awaits.  Nodes whose stop()
\* has not begun are never stopped; those that have begun swallow it.
StopAllCancelled(r) ==
  /\ r \in cancelled
  /\ cancelled' = cancelled \ {r}
  /\ \/ /\ phase[r] \in {"pumps", "dispatch"}
        /\ phase' = [phase EXCEPT ![r] = "over"]
        /\ wait' = [wait EXCEPT ![r] = {}]
        /\ status' = "stopped"
     \/ /\ phase[r] = "stopping"
        /\ UNCHANGED <<phase, wait, status>>
  /\ UNCHANGED <<task, deleted, at, engineVars, nodeVars, pc, joins>>

\* Defect: the session's status stays as it is.
RunEndsSilently(r) ==
  /\ phase[r] = "stopping"
  /\ wait[r] = {}
  /\ phase' = [phase EXCEPT ![r] = "over"]
  /\ cancelled' = cancelled \ {r}
  /\ UNCHANGED <<sessionVars, at, engineVars, nodeVars, callVars>>

\* stop_all() is over, and so is the run: its session reads "stopped".
RunEnds(r) ==
  /\ phase[r] = "stopping"
  /\ wait[r] = {}
  /\ phase' = [phase EXCEPT ![r] = "over"]
  /\ status' = "stopped"
  /\ cancelled' = cancelled \ {r}
  /\ UNCHANGED <<task, deleted, at, engineVars, nodeVars, callVars>>

-----------------------------------------------------------------------------
(* Nodes.                                                                  *)

\* The stop() that register_node() scheduled begins.
EvictedStops(i) ==
  /\ i \in evicted
  /\ evicted' = evicted \ {i}
  /\ StopNodes(Background, {i})
  /\ UNCHANGED <<sessionVars, runVars, owner, registered, pc, joins>>

\* process() is over: of its own accord, by an error, or by a cancellation.
LoopEnds(i) ==
  /\ i \in alive
  /\ alive' = alive \ {i}
  /\ UNCHANGED <<sessionVars, runVars, engineVars, flag, dying, slot, callVars>>

LoopDies(i) ==
  /\ i \in dying
  /\ dying' = dying \ {i}
  /\ UNCHANGED <<sessionVars, runVars, engineVars, flag, alive, slot, callVars>>

\* The stop() or pause() that awaited the loop of i clears the slot, whatever
\* loop it holds by now.
LoopAwaited(a, i) ==
  /\ i \in wait[a]
  /\ i \notin dying
  /\ \A r \in Runs : a = r => phase[r] = "stopping"
  /\ slot' = slot \ {i}
  /\ wait' = [wait EXCEPT ![a] = @ \ {i}]
  /\ UNCHANGED <<sessionVars, runVars, engineVars, flag, alive, dying, pc, joins>>

-----------------------------------------------------------------------------
HandlerCall(h) ==
  Start(h) \/ Stop(h) \/ Pause(h) \/ Resume(h) \/ Drop(h) \/ Delete(h)

CallStep(c) == StopReturns(c) \/ PauseReturns(c) \/ DeleteReturns(c)

RunStep(r) ==
  \/ RunBegins(r) \/ RunFails(r) \/ InitDone(r) \/ CancelledEarly(r)
  \/ StopAll(r) \/ PumpsDone(r) \/ Dispatch(r) \/ StopAllCancelled(r) \/ RunEnds(r)

Next ==
  \/ \E h \in Handlers : HandlerCall(h)
  \/ \E c \in Callers : CallStep(c)
  \/ Reap
  \/ \E r \in Runs : RunStep(r)
  \/ \E i \in Instances : EvictedStops(i) \/ LoopEnds(i) \/ LoopDies(i)
  \/ \E a \in Callers \cup Runs, i \in Instances : LoopAwaited(a, i)

Spec == Init /\ [][Next]_vars

(***************************************************************************)
(* The event loop runs every task that can go on, a cancelled process()    *)
(* ends, and so does an init() that waits.  Nothing makes a handler call.  *)
(***************************************************************************)
Fairness ==
  /\ \A c \in Callers : WF_vars(CallStep(c))
  /\ WF_vars(Reap)
  /\ \A r \in Runs : WF_vars(RunStep(r))
  /\ \A i \in Instances : WF_vars(EvictedStops(i)) /\ WF_vars(LoopDies(i))
  /\ \A a \in Callers \cup Runs, i \in Instances : WF_vars(LoopAwaited(a, i))

FairSpec == Spec /\ Fairness

-----------------------------------------------------------------------------
(* Properties.                                                             *)

\* Once everything has settled, a session that does not read "running" has no
\* process loop left anywhere, in the current instances or in older ones.
NotRunningIsQuiet == Settled /\ status # "running" => alive \cup dying = {}

\* ... and one that reads "running" is: its newest run supervises, the
\* engine's instances are that run's, and none of them is left paused,
\* stopped or never started.
RunningIsWhole ==
  Settled /\ status = "running" =>
    /\ phase[task] = "supervising"
    /\ \A n \in Nodes : /\ owner[n] = task
                        /\ flag[<<task, n>>] \in {"running", "failed"}

\* A session has one run at a time: an older one is over, or on its way out
\* once a newer one exists.
OneSupervisor ==
  \A r \in Runs : phase[r] = "supervising" /\ r \notin cancelled => r = task

\* Every process loop is in the slot of its instance, where stop() and
\* pause() find it.
LoopsReachable == alive \subseteq slot

\* The registry has no instance that the engine no longer knows, and none of
\* a deleted session whose shutdown is over.
RegistryCurrent ==
  /\ ~deleted => registered = owner
  /\ deleted /\ Settled => \A n \in Nodes : registered[n] = None

\* A session that is stopped or deleted ends up with no loop and no run.
EverythingEnds ==
  (status = "stopped" \/ deleted)
    ~> \/ status = "running" /\ ~deleted
       \/ alive \cup dying = {} /\ \A r \in Runs : ~Unfinished(r)
=============================================================================
