----------------------- MODULE NodeLifecycle_proofs -----------------------
(***************************************************************************)
(* Proofs about NodeLifecycle, for every set of clients, pipes and tasks.  *)
(*                                                                         *)
(* The flags never contradict each other, whatever calls overlap.  When    *)
(* calls do not overlap (Exclusive), the node owns at most one process     *)
(* loop, that loop is the one in the slot, and a node that is not running  *)
(* has none; no listener goes on handling messages behind its record, and, *)
(* unless a handler raises, every control pipe of a running or paused node *)
(* is listened to; and the health a settled node shows is its own.         *)
(***************************************************************************)
EXTENDS NodeLifecycle, TLAPS

ClientStates   == InCall \cup {"ready"}
ListenerStates == (InCall \ {"unwire"}) \cup {"get", "off"}

-----------------------------------------------------------------------------
(* What the two operators that touch the listener tasks do to the rest.    *)

\* _ensure_control_listener() keeps the records well formed; it moves only
\* its caller and listener tasks that were not running.
LEMMA EnsureListenersEffect ==
  ASSUME LifecycleAssumption, TypeOK,
         NEW ps \in SUBSET Pipes, NEW a \in Actors, NEW next,
         a \in Clients => next \in ClientStates,
         a \in Listeners => next \in ListenerStates,
         pc[a] # "off",
         EnsureListeners(ps, a, next)
  PROVE  /\ listener' \in [Pipes -> Listeners \cup {None}]
         /\ reads' \in [Listeners -> Pipes \cup {None}]
         /\ cancel' \subseteq Listeners
         /\ pc' \in [Actors -> InCall \cup {"ready", "get", "off"}]
         /\ \A c \in Clients : pc'[c] \in ClientStates
         /\ \A l \in Listeners : pc'[l] \in ListenerStates
         /\ pc'[a] = next
         /\ \A x \in Actors :
              x # a => pc'[x] = pc[x] \/ (pc[x] = "off" /\ pc'[x] = "get")
<1> DEFINE needy == {p \in ps : ~Listening(p)}
<1>1. PICK f \in [needy -> FreeListeners] :
        LET created == {f[p] : p \in DOMAIN f} IN
        /\ listener' = [p \in Pipes |-> IF p \in DOMAIN f THEN f[p] ELSE listener[p]]
        /\ reads' = [l \in Listeners |-> IF l \in created
                                         THEN CHOOSE p \in DOMAIN f : f[p] = l
                                         ELSE reads[l]]
        /\ cancel' = cancel \ created
        /\ pc' = [x \in Actors |-> IF x \in created THEN "get"
                                   ELSE IF x = a THEN next ELSE pc[x]]
  BY DEF EnsureListeners, Unheard
<1> DEFINE created == {f[p] : p \in DOMAIN f}
<1>2. /\ DOMAIN f = needy
      /\ needy \subseteq Pipes
      /\ created \subseteq Listeners
      /\ \A l \in created : pc[l] = "off"
  BY <1>1 DEF FreeListeners, LiveListener
<1>3. listener' \in [Pipes -> Listeners \cup {None}]
  BY <1>1, <1>2 DEF TypeOK
<1>4. reads' \in [Listeners -> Pipes \cup {None}]
  <2>1. ASSUME NEW l \in created
        PROVE  (CHOOSE p \in DOMAIN f : f[p] = l) \in Pipes
    BY <1>2
  <2>2. QED
    BY <1>1, <2>1 DEF TypeOK
<1>5. cancel' \subseteq Listeners
  BY <1>1 DEF TypeOK
<1>6. \A x \in Actors : pc'[x] = IF x \in created THEN "get"
                                 ELSE IF x = a THEN next ELSE pc[x]
  BY <1>1
<1>7. \A c \in Clients : c \notin created
  BY <1>2 DEF LifecycleAssumption
<1>8. \A c \in Clients : pc'[c] \in ClientStates
  BY <1>6, <1>7 DEF TypeOK, Actors, ClientStates
<1>9. \A l \in Listeners : pc'[l] \in ListenerStates
  BY <1>6 DEF TypeOK, Actors, ListenerStates
<1>10. pc' \in [Actors -> InCall \cup {"ready", "get", "off"}]
  BY <1>1, <1>6, <1>8, <1>9 DEF Actors, ClientStates, ListenerStates
<1>11. pc'[a] = next
  BY <1>2, <1>6
<1>12. \A x \in Actors :
         x # a => pc'[x] = pc[x] \/ (pc[x] = "off" /\ pc'[x] = "get")
  BY <1>2, <1>6
<1> QED
  BY <1>3, <1>4, <1>5, <1>8, <1>9, <1>10, <1>11, <1>12

\* _cancel_all_control_listeners() keeps the records well formed; it moves
\* only its caller, which awaits listener tasks and nothing else.
LEMMA CancelListenersEffect ==
  ASSUME LifecycleAssumption, TypeOK, NEW a \in Actors,
         running' \in BOOLEAN, paused' \in BOOLEAN,
         CancelListeners(a)
  PROVE  /\ listener' \in [Pipes -> Listeners \cup {None}]
         /\ reads' \in [Listeners -> Pipes \cup {None}]
         /\ cancel' \subseteq Listeners
         /\ pc' \in [Actors -> InCall \cup {"ready", "get", "off"}]
         /\ \A c \in Clients : pc'[c] \in ClientStates
         /\ \A l \in Listeners : pc'[l] \in ListenerStates
         /\ wired' \subseteq Pipes
         /\ waits' \in [Actors -> SUBSET (Loops \cup Listeners)]
         /\ pc'[a] \in {"stopListeners", "ready", "get", "off"}
         /\ \A x \in Actors : x # a => pc'[x] = pc[x] /\ waits'[x] = waits[x]
<1> DEFINE live == {l \in Listeners : LiveListener(l) /\ \E p \in Pipes : listener[p] = l}
<1>1. /\ listener' = [p \in Pipes |-> None]
      /\ cancel' = (cancel \cup Reached(live)) \ {a}
      /\ waits' = [waits EXCEPT ![a] = live \ {a}]
      /\ pc' = [pc EXCEPT ![a] = IF live = {} THEN Returned(a) ELSE "stopListeners"]
      /\ UNCHANGED <<wired, reads>>
  BY DEF CancelListeners, AwaitedBy
<1>2. Reached(live) \subseteq Listeners
  BY DEF Reached
<1>3. a \in Clients => Returned(a) = "ready"
  BY DEF Returned
<1>4. a \in Listeners => Returned(a) \in {"get", "off"}
  BY DEF Returned, LifecycleAssumption
<1>5. pc'[a] \in {"stopListeners", "ready", "get", "off"}
  BY <1>1, <1>3, <1>4 DEF TypeOK, Actors
<1>6. \A x \in Actors : x # a => pc'[x] = pc[x] /\ waits'[x] = waits[x]
  BY <1>1 DEF TypeOK
<1>7. \A c \in Clients : pc'[c] \in ClientStates
  BY <1>1, <1>3 DEF TypeOK, Actors, ClientStates, InCall
<1>8. \A l \in Listeners : pc'[l] \in ListenerStates
  BY <1>1, <1>4 DEF TypeOK, Actors, ListenerStates, InCall
<1>9. pc' \in [Actors -> InCall \cup {"ready", "get", "off"}]
  BY <1>1, <1>5 DEF TypeOK, InCall
<1>10. waits' \in [Actors -> SUBSET (Loops \cup Listeners)]
  BY <1>1 DEF TypeOK
<1> QED
  BY <1>1, <1>2, <1>5, <1>6, <1>7, <1>8, <1>9, <1>10 DEF TypeOK

-----------------------------------------------------------------------------
(* The type invariant.                                                     *)

\* A new loop goes into the slot: Spawn keeps the loop variables well formed.
LEMMA SpawnEffect ==
  ASSUME TypeOK, Spawn
  PROVE  /\ slot' \in Loops
         /\ loop' \in [Loops -> {"process", "backoff", "cancelling", "done"}]
         /\ tries' \in [Loops -> 0..Retries]
         /\ health' = "healthy"
         /\ \A t \in Loops : t # slot' => loop'[t] = loop[t]
BY LifecycleAssumption DEF Spawn, FreeLoops, TypeOK, LifecycleAssumption

\* _cancel_task('_task') on a live loop: it is cancelled and awaited.
LEMMA CancelLoopEffect ==
  ASSUME LifecycleAssumption, TypeOK, SlotLive, NEW a \in Actors,
         NEW where \in {"stopTask", "pauseTask"}, CancelLoop(a, where)
  PROVE  /\ slot \in Loops
         /\ loop' = [loop EXCEPT ![slot] = "cancelling"]
         /\ loop' \in [Loops -> {"process", "backoff", "cancelling", "done"}]
         /\ pc' = [pc EXCEPT ![a] = where]
         /\ pc' \in [Actors -> InCall \cup {"ready", "get", "off"}]
         /\ \A c \in Clients : pc'[c] \in ClientStates
         /\ \A l \in Listeners : pc'[l] \in ListenerStates
         /\ waits' = [waits EXCEPT ![a] = {slot}]
         /\ waits' \in [Actors -> SUBSET (Loops \cup Listeners)]
         /\ UNCHANGED <<slot, tries, wired, listener, reads, cancel>>
<1>1. slot \in Loops
  BY DEF SlotLive
<1>2. loop' \in [Loops -> {"process", "backoff", "cancelling", "done"}]
  BY <1>1 DEF CancelLoop, TypeOK
<1>3. waits' \in [Actors -> SUBSET (Loops \cup Listeners)]
  BY <1>1 DEF CancelLoop, TypeOK
<1>4. /\ pc' \in [Actors -> InCall \cup {"ready", "get", "off"}]
      /\ \A c \in Clients : pc'[c] \in ClientStates
      /\ \A l \in Listeners : pc'[l] \in ListenerStates
  BY DEF CancelLoop, TypeOK, Actors, InCall, ClientStates, ListenerStates
<1> QED
  BY <1>1, <1>2, <1>3, <1>4 DEF CancelLoop, ctlVars

\* start() past its early return, whichever way init() goes.
LEMMA StartNodeType ==
  ASSUME TypeOK, NEW a \in Actors, MayCall(a), StartNode(a)
  PROVE  TypeOK'
<1>1. /\ running' \in BOOLEAN /\ paused' \in BOOLEAN /\ initialized' \in BOOLEAN
      /\ wired' = wired /\ waits' = waits
  BY DEF StartNode, TypeOK
<1>2. PICK next : /\ next \in {Returned(a), "init"}
                  /\ EnsureListeners(wired, a, next)
  BY DEF StartNode
<1>3. /\ a \in Clients => next \in ClientStates
      /\ a \in Listeners => next \in ListenerStates
  BY <1>2, LifecycleAssumption
     DEF Returned, ClientStates, ListenerStates, InCall, LifecycleAssumption
<1>4. pc[a] # "off" /\ wired \in SUBSET Pipes
  BY DEF MayCall, TypeOK
<1>5. /\ listener' \in [Pipes -> Listeners \cup {None}]
      /\ reads' \in [Listeners -> Pipes \cup {None}]
      /\ cancel' \subseteq Listeners
      /\ pc' \in [Actors -> InCall \cup {"ready", "get", "off"}]
      /\ \A c \in Clients : pc'[c] \in ClientStates
      /\ \A l \in Listeners : pc'[l] \in ListenerStates
  BY <1>2, <1>3, <1>4, EnsureListenersEffect, LifecycleAssumption
<1>6. /\ slot' \in Loops \cup {None}
      /\ loop' \in [Loops -> {"process", "backoff", "cancelling", "done"}]
      /\ tries' \in [Loops -> 0..Retries]
      /\ health' \in {"healthy", "error", "starting"}
  BY SpawnEffect DEF StartNode, loopVars, TypeOK
<1> QED
  BY <1>1, <1>5, <1>6 DEF TypeOK, ClientStates, ListenerStates

\* Every step, whoever takes it, keeps the variables well typed.
LEMMA TypeStep == TypeOK /\ [Next]_vars => TypeOK'
<1> SUFFICES ASSUME TypeOK, [Next]_vars PROVE TypeOK'
  OBVIOUS
<1> USE LifecycleAssumption
<1>1. ASSUME NEW a \in Actors, Start(a) \/ Resume(a) PROVE TypeOK'
  BY <1>1, StartNodeType DEF Start, Resume
<1>2. ASSUME NEW a \in Actors, InitDone(a) PROVE TypeOK'
  <2>1. Returned(a) \in IF a \in Clients THEN {"ready"} ELSE {"get", "off"}
    BY DEF Returned
  <2>2. /\ pc' \in [Actors -> InCall \cup {"ready", "get", "off"}]
        /\ \A c \in Clients : pc'[c] \in InCall \cup {"ready"}
        /\ \A l \in Listeners : pc'[l] \in (InCall \ {"unwire"}) \cup {"get", "off"}
    BY <1>2, <2>1 DEF InitDone, TypeOK, Actors, LifecycleAssumption
  <2> QED
    BY <1>2, <2>2, SpawnEffect DEF InitDone, TypeOK, ctlVars
<1>3. ASSUME NEW a \in Actors, InitFailed(a) PROVE TypeOK'
  BY <1>3 DEF InitFailed, Returned, TypeOK, Actors, loopVars, ctlVars, LifecycleAssumption
<1>4. ASSUME NEW a \in Actors, InitCancelled(a) PROVE TypeOK'
  BY <1>4 DEF InitCancelled, TypeOK, Actors, loopVars, LifecycleAssumption
<1>5. ASSUME NEW a \in Actors, Stop(a) PROVE TypeOK'
  <2>1. CASE SlotLive /\ CancelLoop(a, "stopTask")
    BY <1>5, <2>1, CancelLoopEffect DEF Stop, TypeOK, ClientStates, ListenerStates
  <2>2. CASE slot' = None /\ CancelListeners(a) /\ UNCHANGED <<loop, tries>>
    BY <1>5, <2>2, CancelListenersEffect
       DEF Stop, TypeOK, ClientStates, ListenerStates
  <2> QED
    BY <1>5, <2>1, <2>2 DEF Stop
<1>6. ASSUME NEW a \in Actors, StopTaskDone(a) PROVE TypeOK'
  BY <1>6, CancelListenersEffect
     DEF StopTaskDone, TypeOK, nodeVars, ClientStates, ListenerStates
<1>7. ASSUME NEW a \in Actors, StopListenersDone(a) \/ PauseDone(a) PROVE TypeOK'
  BY <1>7 DEF StopListenersDone, PauseDone, Returned, TypeOK, Actors, nodeVars,
              loopVars, LifecycleAssumption
<1>8. ASSUME NEW a \in Actors, Pause(a) PROVE TypeOK'
  <2>1. CASE SlotLive /\ CancelLoop(a, "pauseTask")
    BY <1>8, <2>1, CancelLoopEffect DEF Pause, TypeOK, ClientStates, ListenerStates
  <2>2. CASE slot' = None /\ UNCHANGED <<loop, tries, ctlVars, pc, waits>>
    BY <1>8, <2>2 DEF Pause, TypeOK, ctlVars
  <2> QED
    BY <1>8, <2>1, <2>2 DEF Pause
<1>9. ASSUME NEW c \in Clients, NEW p \in Pipes, Wire(c, p) PROVE TypeOK'
  <2>1. CASE EnsureListeners({p}, c, pc[c])
    <3>1. /\ c \in Actors /\ pc[c] # "off"
          /\ pc[c] \in ClientStates
          /\ c \notin Listeners
          /\ {p} \in SUBSET Pipes
      BY DEF TypeOK, Actors, ClientStates, InCall, LifecycleAssumption
    <3>2. /\ listener' \in [Pipes -> Listeners \cup {None}]
          /\ reads' \in [Listeners -> Pipes \cup {None}]
          /\ cancel' \subseteq Listeners
          /\ pc' \in [Actors -> InCall \cup {"ready", "get", "off"}]
          /\ \A d \in Clients : pc'[d] \in ClientStates
          /\ \A l \in Listeners : pc'[l] \in ListenerStates
      BY <2>1, <3>1, EnsureListenersEffect
    <3> QED
      BY <1>9, <3>2 DEF Wire, TypeOK, nodeVars, loopVars, ClientStates, ListenerStates
  <2>2. CASE UNCHANGED <<listener, reads, cancel, pc>>
    BY <1>9, <2>2 DEF Wire, TypeOK, nodeVars, loopVars
  <2> QED
    BY <1>9, <2>1, <2>2 DEF Wire
<1>10. ASSUME NEW c \in Clients, NEW p \in Pipes, Unwire(c, p) PROVE TypeOK'
  <2>1. Listening(p) => listener[p] \in Listeners
    BY DEF Listening
  <2>2. Reached({listener[p]}) \subseteq {listener[p]} \cup Listeners
    BY DEF Reached
  <2>3. listener' \in [Pipes -> Listeners \cup {None}] /\ wired' \subseteq Pipes
    BY <1>10 DEF Unwire, TypeOK
  <2>4. cancel' \subseteq Listeners
    BY <1>10, <2>1, <2>2 DEF Unwire, TypeOK
  <2>5. waits' \in [Actors -> SUBSET (Loops \cup Listeners)]
    BY <1>10, <2>1 DEF Unwire, TypeOK
  <2>6. /\ pc' \in [Actors -> InCall \cup {"ready", "get", "off"}]
        /\ \A d \in Clients : pc'[d] \in InCall \cup {"ready"}
        /\ \A l \in Listeners : pc'[l] \in (InCall \ {"unwire"}) \cup {"get", "off"}
    BY <1>10 DEF Unwire, TypeOK, Actors, InCall, LifecycleAssumption
  <2> QED
    BY <1>10, <2>3, <2>4, <2>5, <2>6 DEF Unwire, TypeOK, nodeVars, loopVars
<1>11. ASSUME NEW c \in Clients, UnwireDone(c) PROVE TypeOK'
  BY <1>11 DEF UnwireDone, TypeOK, Actors, nodeVars, loopVars, ctlVars, LifecycleAssumption
<1>12. ASSUME NEW t \in Loops, LoopStep(t) PROVE TypeOK'
  BY <1>12 DEF LoopStep, LoopReturned, LoopRaised, LoopRetried, LoopCancelled, EndedHealth, RetriesLeft, TypeOK,
               nodeVars, ctlVars, LifecycleAssumption
<1>13. ASSUME NEW l \in Listeners, ListenerStep(l) PROVE TypeOK'
  BY <1>13 DEF ListenerStep, ListenerExited, ListenerCancelled, ListenerBroke, TypeOK,
               Actors, nodeVars, loopVars, ctlVars, LifecycleAssumption
<1>14. CASE UNCHANGED vars
  BY <1>14 DEF vars, nodeVars, loopVars, ctlVars, TypeOK
<1> QED
  BY <1>1, <1>2, <1>3, <1>4, <1>5, <1>6, <1>7, <1>8, <1>9, <1>10, <1>11, <1>12,
     <1>13, <1>14 DEF Next, Call, Resumption

\* A node just built is well typed.
LEMMA InitTyped == Init => TypeOK
<1>1. ASSUME Init PROVE TypeOK
  <2>1. /\ pc \in [Actors -> {"ready", "off"}]
        /\ \A c \in Clients : pc[c] = "ready"
        /\ \A l \in Listeners : pc[l] = "off"
    BY <1>1, LifecycleAssumption DEF Init, Actors, LifecycleAssumption
  <2>2. pc \in [Actors -> InCall \cup {"ready", "get", "off"}]
    BY <2>1
  <2>3. /\ slot \in Loops \cup {None}
        /\ loop \in [Loops -> {"process", "backoff", "cancelling", "done"}]
        /\ tries \in [Loops -> 0..Retries]
    BY <1>1, LifecycleAssumption DEF Init, LifecycleAssumption
  <2>4. /\ wired \subseteq Pipes
        /\ listener \in [Pipes -> Listeners \cup {None}]
        /\ reads \in [Listeners -> Pipes \cup {None}]
        /\ cancel \subseteq Listeners
        /\ waits \in [Actors -> SUBSET (Loops \cup Listeners)]
    BY <1>1 DEF Init
  <2> QED
    BY <1>1, <2>1, <2>2, <2>3, <2>4 DEF Init, TypeOK
<1> QED
  BY <1>1

\* Every variable keeps its type, whatever calls overlap.
THEOREM TypeCorrect == Spec => []TypeOK
BY InitTyped, TypeStep, PTL DEF Spec

-----------------------------------------------------------------------------
(* The flags.                                                              *)

\* Whatever calls overlap, a node is never both running and paused: start()'s
\* and resume()'s early returns tell the two apart at every await.
THEOREM FlagsAgree == Spec => []PausedNotRunning
<1>1. Init => PausedNotRunning
  BY DEF Init, PausedNotRunning
<1>2. PausedNotRunning /\ [Next]_vars => PausedNotRunning'
  BY DEF PausedNotRunning, Next, Call, Resumption, LoopStep, ListenerStep, Start, Resume,
         StartNode, Stop, Pause, InitDone, InitFailed, InitCancelled, StopTaskDone,
         StopListenersDone, PauseDone, Wire, Unwire, UnwireDone, LoopReturned, LoopRaised,
         LoopRetried, LoopCancelled, ListenerExited, ListenerCancelled, ListenerBroke,
         vars, nodeVars
<1> QED
  BY <1>1, <1>2, PTL DEF Spec

-----------------------------------------------------------------------------
(* One loop, and none on a node that is not running.                       *)

NoLiveLoop    == \A t \in Loops : ~LiveLoop(t)
Cancelling(a) == pc[a] \in {"stopTask", "pauseTask"}

\* The strengthening.  While a call is suspended nobody else is, so what it
\* found before its await is still so after it: the slot it saw is the slot
\* it clears, and the node it is starting is still running and still idle.
OneCall    == \A a, b \in Actors : Suspended(a) /\ Suspended(b) => a = b
AwaitsSlot == \A a \in Actors : Cancelling(a) => ~running /\ slot \in waits[a] \cap Loops
InitAlone  == \A a \in Actors : pc[a] = "init" => running /\ NoLiveLoop
QuietUnlessCancelling ==
  ~running /\ (\A a \in Actors : ~Cancelling(a)) => NoLiveLoop

LoopInv ==
  /\ TypeOK
  /\ PausedNotRunning
  /\ OneCall
  /\ NoStrayLoop
  /\ AwaitsSlot
  /\ InitAlone
  /\ QuietUnlessCancelling

\* A call that returns, or begins, on a node whose loops are all over.
LEMMA QuietStep ==
  ASSUME TypeOK', PausedNotRunning', NEW a \in Actors,
         \A x \in Actors : x # a => ~Suspended(x)',
         ~Cancelling(a)', pc'[a] = "init" => running',
         NoLiveLoop'
  PROVE  LoopInv'
BY DEF LoopInv, OneCall, NoStrayLoop, AwaitsSlot, InitAlone, QuietUnlessCancelling,
       NoLiveLoop, Cancelling, Suspended, InCall

\* The step that spawns a loop on a node marked running, whose other loops
\* are all over.
LEMMA SpawnStep ==
  ASSUME TypeOK, NoLiveLoop, Spawn, TypeOK', PausedNotRunning', running',
         \A x \in Actors : ~Suspended(x)'
  PROVE  LoopInv'
<1>1. \A t \in Loops : LiveLoop(t)' => t = slot'
  BY SpawnEffect DEF NoLiveLoop, LiveLoop
<1> QED
  BY <1>1 DEF LoopInv, OneCall, NoStrayLoop, AwaitsSlot, InitAlone,
              QuietUnlessCancelling, Cancelling, Suspended, InCall

\* The step in which stop() or pause() cancels the loop in the slot.
LEMMA CancelLoopStep ==
  ASSUME LoopInv, SlotLive, TypeOK', PausedNotRunning', ~running', NEW a \in Actors,
         \A x \in Actors : ~Suspended(x),
         NEW where \in {"stopTask", "pauseTask"}, CancelLoop(a, where)
  PROVE  LoopInv'
<1>1. /\ slot' = slot /\ slot \in Loops
      /\ loop' = [loop EXCEPT ![slot] = "cancelling"]
      /\ pc' = [pc EXCEPT ![a] = where]
      /\ waits' = [waits EXCEPT ![a] = {slot}]
  BY LifecycleAssumption, CancelLoopEffect DEF LoopInv
<1>2. \A x \in Actors : Suspended(x)' => x = a
  BY <1>1 DEF LoopInv, TypeOK, Suspended
<1>3. NoStrayLoop'
  BY <1>1 DEF LoopInv, TypeOK, NoStrayLoop, LiveLoop
<1>4. Cancelling(a)' /\ slot' \in waits'[a] \cap Loops
  BY <1>1 DEF LoopInv, TypeOK, Cancelling
<1>5. \A x \in Actors : Cancelling(x)' => x = a
  BY <1>2 DEF Cancelling, Suspended, InCall
<1>6. \A x \in Actors : pc'[x] # "init"
  BY <1>2, <1>4 DEF Suspended, InCall, Cancelling
<1> QED
  BY <1>2, <1>3, <1>4, <1>5, <1>6
     DEF LoopInv, OneCall, AwaitsSlot, InitAlone, QuietUnlessCancelling

\* start() past its early return, on a node whose loops are all over.
LEMMA StartNodeStep ==
  ASSUME LoopInv, TypeOK', PausedNotRunning', NEW a \in Actors, MayCall(a),
         \A x \in Actors : ~Suspended(x),
         NoLiveLoop, StartNode(a)
  PROVE  LoopInv'
<1>1. Returned(a) \in {"ready", "get", "off"}
  BY DEF Returned
<1>2. ASSUME NEW next \in {"ready", "get", "off", "init"}, EnsureListeners(wired, a, next),
             a \in Clients => next \in ClientStates,
             a \in Listeners => next \in ListenerStates
      PROVE  /\ pc'[a] = next
             /\ \A x \in Actors : x # a => ~Suspended(x)'
  <2>1. pc[a] # "off" /\ wired \in SUBSET Pipes
    BY DEF MayCall, LoopInv, TypeOK
  <2>2. pc'[a] = next /\ \A x \in Actors : x # a => pc'[x] = pc[x] \/ pc'[x] = "get"
    BY <1>2, <2>1, EnsureListenersEffect, LifecycleAssumption DEF LoopInv
  <2> QED
    BY <2>2 DEF Suspended, InCall
<1>3. /\ a \in Clients => Returned(a) \in ClientStates
      /\ a \in Listeners => Returned(a) \in ListenerStates
      /\ a \in Clients => "init" \in ClientStates
      /\ a \in Listeners => "init" \in ListenerStates
  BY LifecycleAssumption
     DEF Returned, ClientStates, ListenerStates, InCall, LifecycleAssumption
<1>4. CASE running' = TRUE /\ Spawn /\ EnsureListeners(wired, a, Returned(a))
  <2>1. \A x \in Actors : ~Suspended(x)'
    BY <1>1, <1>2, <1>3, <1>4 DEF Suspended, InCall
  <2> QED
    BY <1>4, <2>1, SpawnStep DEF LoopInv
<1>5. CASE UNCHANGED loopVars /\ EnsureListeners(wired, a, Returned(a))
  <2>1. NoLiveLoop'
    BY <1>5 DEF NoLiveLoop, LiveLoop, loopVars
  <2>2. /\ pc'[a] \in {"ready", "get", "off"}
        /\ \A x \in Actors : x # a => ~Suspended(x)'
    BY <1>1, <1>2, <1>3, <1>5
  <2> QED
    BY <2>1, <2>2, QuietStep DEF Cancelling
<1>6. CASE running' = TRUE /\ UNCHANGED loopVars /\ EnsureListeners(wired, a, "init")
  <2>1. NoLiveLoop'
    BY <1>6 DEF NoLiveLoop, LiveLoop, loopVars
  <2>2. /\ pc'[a] = "init"
        /\ \A x \in Actors : x # a => ~Suspended(x)'
    BY <1>2, <1>3, <1>6
  <2> QED
    BY <1>6, <2>1, <2>2, QuietStep DEF Cancelling
<1> QED
  BY <1>4, <1>5, <1>6 DEF StartNode

\* Calls that do not overlap keep the invariant.
LEMMA LoopInvStep == Exclusive /\ LoopInv /\ [Next]_vars => LoopInv'
<1> SUFFICES ASSUME Exclusive, LoopInv, [Next]_vars PROVE LoopInv'
  OBVIOUS
<1> USE LifecycleAssumption
<1>0. TypeOK' /\ PausedNotRunning'
  <2>1. TypeOK'
    BY TypeStep DEF LoopInv
  <2>2. PausedNotRunning'
    BY DEF LoopInv, PausedNotRunning, Next, Call, Resumption, LoopStep, ListenerStep,
           Start, Resume, StartNode, Stop, Pause, InitDone, InitFailed, InitCancelled,
           StopTaskDone, StopListenersDone, PauseDone, Wire, Unwire, UnwireDone,
           LoopReturned, LoopRaised, LoopRetried, LoopCancelled, EndedHealth, RetriesLeft, ListenerExited,
           ListenerCancelled, ListenerBroke, vars, nodeVars
  <2> QED
    BY <2>1, <2>2
<1>1. ASSUME NEW a \in Actors, MayCall(a)
      PROVE  /\ \A x \in Actors : ~Suspended(x)
             /\ ~running => NoLiveLoop
             /\ ~SlotLive => NoLiveLoop
  <2>1. \A x \in Actors : ~Suspended(x)
    BY <1>1 DEF MayCall
  <2>2. \A x \in Actors : ~Cancelling(x)
    BY <2>1 DEF Suspended, Cancelling, InCall
  <2> QED
    BY <2>1, <2>2 DEF LoopInv, QuietUnlessCancelling, NoStrayLoop, SlotLive, NoLiveLoop
<1>2. ASSUME NEW a \in Actors, Suspended(a)
      PROVE  \A x \in Actors : x # a => ~Suspended(x)
  BY <1>2 DEF LoopInv, OneCall
<1>3. ASSUME NEW a \in Actors, Start(a) \/ Resume(a) PROVE LoopInv'
  <2>1. MayCall(a) /\ StartNode(a) /\ ~running
    BY <1>3 DEF Start, Resume, LoopInv, PausedNotRunning
  <2> QED
    BY <1>0, <1>1, <2>1, StartNodeStep
<1>4. ASSUME NEW a \in Actors, InitDone(a) PROVE LoopInv'
  <2>1. Suspended(a) /\ running /\ NoLiveLoop
    BY <1>4 DEF InitDone, Suspended, InCall, LoopInv, InitAlone
  <2>2. pc' = [pc EXCEPT ![a] = Returned(a)] /\ Spawn /\ running' = running
    BY <1>4 DEF InitDone
  <2>3. Returned(a) \in {"ready", "get", "off"}
    BY DEF Returned
  <2>4. \A x \in Actors : ~Suspended(x)'
    BY <1>2, <2>1, <2>2, <2>3 DEF Suspended, InCall, LoopInv, TypeOK
  <2> QED
    BY <1>0, <2>1, <2>2, <2>4, SpawnStep DEF LoopInv
<1>5. ASSUME NEW a \in Actors, InitFailed(a) \/ InitCancelled(a) PROVE LoopInv'
  <2>1. Suspended(a) /\ NoLiveLoop
    BY <1>5 DEF InitFailed, InitCancelled, Suspended, InCall, LoopInv, InitAlone
  <2>2. /\ UNCHANGED loopVars
        /\ \E s \in {"ready", "get", "off"} : pc' = [pc EXCEPT ![a] = s]
    BY <1>5 DEF InitFailed, InitCancelled, Returned
  <2>3. /\ pc'[a] \in {"ready", "get", "off"}
        /\ \A x \in Actors : x # a => ~Suspended(x)'
    BY <1>2, <2>1, <2>2 DEF Suspended, LoopInv, TypeOK
  <2>4. NoLiveLoop'
    BY <2>1, <2>2 DEF NoLiveLoop, LiveLoop, loopVars
  <2> QED
    BY <1>0, <2>3, <2>4, QuietStep DEF Cancelling
<1>6. ASSUME NEW a \in Actors, Stop(a) \/ Pause(a) PROVE LoopInv'
  <2>1. MayCall(a) /\ ~running'
    BY <1>6 DEF Stop, Pause
  <2>2. CASE SlotLive
    <3>1. \E where \in {"stopTask", "pauseTask"} : CancelLoop(a, where)
      BY <1>6, <2>2 DEF Stop, Pause
    <3> QED
      BY <1>0, <1>1, <2>1, <2>2, <3>1, CancelLoopStep
  <2>3. CASE ~SlotLive
    <3>1. NoLiveLoop'
      BY <1>1, <1>6, <2>1, <2>3 DEF Stop, Pause, NoLiveLoop, LiveLoop
    <3>2. /\ pc'[a] \in {"stopListeners", "ready", "get", "off"}
          /\ \A x \in Actors : x # a => pc'[x] = pc[x]
      <4>1. CASE Stop(a)
        BY <1>0, <2>3, <4>1, CancelListenersEffect DEF Stop, LoopInv, TypeOK
      <4>2. CASE Pause(a)
        BY <2>1, <2>3, <4>2 DEF Pause, MayCall
      <4> QED
        BY <1>6, <4>1, <4>2
    <3> QED
      BY <1>0, <1>1, <2>1, <3>1, <3>2, QuietStep DEF Suspended, Cancelling
  <2> QED
    BY <2>2, <2>3
<1>7. ASSUME NEW a \in Actors, StopTaskDone(a) \/ PauseDone(a) PROVE LoopInv'
  <2>1. Suspended(a) /\ Cancelling(a) /\ \A t \in waits[a] : ~LiveLoop(t)
    BY <1>7 DEF StopTaskDone, PauseDone, Suspended, InCall, Cancelling
  <2>2. NoLiveLoop
    BY <2>1 DEF LoopInv, AwaitsSlot, NoStrayLoop, NoLiveLoop
  <2>3. NoLiveLoop'
    BY <1>7, <2>2 DEF StopTaskDone, PauseDone, NoLiveLoop, LiveLoop
  <2>4. /\ pc'[a] \in {"stopListeners", "ready", "get", "off"}
        /\ \A x \in Actors : x # a => pc'[x] = pc[x]
    <3>1. CASE StopTaskDone(a)
      BY <1>0, <3>1, CancelListenersEffect DEF StopTaskDone, LoopInv, TypeOK
    <3>2. CASE PauseDone(a)
      BY <3>2 DEF PauseDone, Returned, LoopInv, TypeOK
    <3> QED
      BY <1>7, <3>1, <3>2
  <2> QED
    BY <1>0, <1>2, <2>1, <2>3, <2>4, QuietStep DEF Suspended, Cancelling
<1>8. ASSUME NEW a \in Actors, ~Cancelling(a),
             loop' = loop, slot' = slot, running' = running,
             pc'[a] \in {"ready", "get", "off", "unwire"},
             Suspended(a)' => \A x \in Actors : x # a => ~Suspended(x),
             \A x \in Actors : x # a =>
               /\ waits'[x] = waits[x]
               /\ pc'[x] = pc[x] \/ (pc[x] = "off" /\ pc'[x] = "get")
      PROVE  LoopInv'
  <2>1. \A x \in Actors : Cancelling(x)' <=> Cancelling(x)
    BY <1>8 DEF Cancelling
  <2>2. \A x \in Actors : x # a => (Suspended(x)' <=> Suspended(x))
    BY <1>8 DEF Suspended, InCall
  <2>3. \A x \in Actors : pc'[x] = "init" => pc[x] = "init"
    BY <1>8
  <2>4. NoLiveLoop' <=> NoLiveLoop
    BY <1>8 DEF NoLiveLoop, LiveLoop
  <2>5. OneCall'
    BY <1>8, <2>2 DEF LoopInv, OneCall
  <2>6. NoStrayLoop'
    BY <1>8 DEF LoopInv, NoStrayLoop, LiveLoop
  <2>7. AwaitsSlot'
    BY <1>8, <2>1 DEF LoopInv, AwaitsSlot
  <2>8. InitAlone' /\ QuietUnlessCancelling'
    BY <1>8, <2>1, <2>3, <2>4 DEF LoopInv, InitAlone, QuietUnlessCancelling
  <2> QED
    BY <1>0, <2>5, <2>6, <2>7, <2>8 DEF LoopInv
<1>9. ASSUME NEW a \in Actors, StopListenersDone(a) PROVE LoopInv'
  <2>1. ~Cancelling(a) /\ Returned(a) \in {"ready", "get", "off"}
    BY <1>9 DEF StopListenersDone, Cancelling, Returned
  <2>2. pc' = [pc EXCEPT ![a] = Returned(a)] /\ waits' = [waits EXCEPT ![a] = {}]
    BY <1>9 DEF StopListenersDone
  <2> QED
    BY <1>8, <1>9, <2>1, <2>2
       DEF StopListenersDone, nodeVars, loopVars, LoopInv, TypeOK, Suspended, InCall
<1>10. ASSUME NEW c \in Clients, NEW p \in Pipes, Wire(c, p) PROVE LoopInv'
  <2>1. c \in Actors /\ MayCall(c) /\ c \notin Listeners
    BY <1>10 DEF Wire, Actors, LifecycleAssumption
  <2>2. pc[c] = "ready"
    BY <2>1 DEF MayCall
  <2>3. pc'[c] = pc[c] /\ \A x \in Actors : x # c =>
          pc'[x] = pc[x] \/ (pc[x] = "off" /\ pc'[x] = "get")
    <3>1. CASE EnsureListeners({p}, c, pc[c])
      <4>1. /\ {p} \in SUBSET Pipes
            /\ pc[c] \in ClientStates
        BY <2>2 DEF ClientStates
      <4> QED
        BY <2>1, <2>2, <3>1, <4>1, EnsureListenersEffect DEF LoopInv
    <3>2. CASE UNCHANGED <<listener, reads, cancel, pc>>
      BY <3>2
    <3> QED
      BY <1>10, <3>1, <3>2 DEF Wire
  <2>4. ~Cancelling(c) /\ ~Suspended(c)'
    BY <2>2, <2>3 DEF Cancelling, Suspended, InCall
  <2> QED
    BY <1>8, <1>10, <2>1, <2>2, <2>3, <2>4 DEF Wire, nodeVars, loopVars
<1>11. ASSUME NEW c \in Clients, NEW p \in Pipes, Unwire(c, p) PROVE LoopInv'
  <2>1. c \in Actors /\ MayCall(c) /\ pc[c] = "ready"
    BY <1>11 DEF Unwire, Actors, MayCall, LifecycleAssumption
  <2>2. ~Cancelling(c)
    BY <2>1 DEF Cancelling
  <2>3. /\ pc'[c] \in {"ready", "unwire"}
        /\ \A x \in Actors : x # c => pc'[x] = pc[x] /\ waits'[x] = waits[x]
    BY <1>11, <2>1 DEF Unwire, LoopInv, TypeOK
  <2> QED
    BY <1>1, <1>8, <1>11, <2>1, <2>2, <2>3 DEF Unwire, nodeVars, loopVars
<1>12. ASSUME NEW c \in Clients, UnwireDone(c) PROVE LoopInv'
  <2>1. c \in Actors /\ ~Cancelling(c)
    BY <1>12 DEF UnwireDone, Actors, Cancelling
  <2>2. /\ pc'[c] = "ready"
        /\ \A x \in Actors : x # c => pc'[x] = pc[x] /\ waits'[x] = waits[x]
    BY <1>12, <2>1 DEF UnwireDone, LoopInv, TypeOK
  <2> QED
    BY <1>8, <1>12, <2>1, <2>2 DEF UnwireDone, nodeVars, loopVars, Suspended, InCall
<1>13. ASSUME NEW l \in Listeners, ListenerStep(l) PROVE LoopInv'
  <2>1. /\ l \in Actors /\ pc[l] = "get"
        /\ pc' = [pc EXCEPT ![l] = "off"]
        /\ UNCHANGED <<nodeVars, loopVars, waits>>
    BY <1>13 DEF ListenerStep, ListenerExited, ListenerCancelled, ListenerBroke, MayCall,
                 Actors, LifecycleAssumption
  <2>2. ~Cancelling(l)
    BY <2>1 DEF Cancelling
  <2>3. /\ pc'[l] = "off"
        /\ \A x \in Actors : x # l => pc'[x] = pc[x] /\ waits'[x] = waits[x]
    BY <2>1 DEF LoopInv, TypeOK
  <2> QED
    BY <1>8, <2>1, <2>2, <2>3 DEF nodeVars, loopVars, Suspended, InCall
<1>14. ASSUME NEW t \in Loops, LoopStep(t) PROVE LoopInv'
  <2>1. /\ LiveLoop(t)
        /\ \A u \in Loops : u # t => loop'[u] = loop[u]
        /\ UNCHANGED <<running, slot, pc, waits>>
    BY <1>14 DEF LoopStep, LoopReturned, LoopRaised, LoopRetried, LoopCancelled, EndedHealth, RetriesLeft, LiveLoop,
                 LoopInv, TypeOK, nodeVars
  <2>2. \A u \in Loops : LiveLoop(u)' => LiveLoop(u)
    BY <2>1 DEF LiveLoop
  <2>3. \A a \in Actors : /\ Suspended(a)' <=> Suspended(a)
                          /\ Cancelling(a)' <=> Cancelling(a)
    BY <2>1 DEF Suspended, Cancelling
  <2> QED
    BY <1>0, <2>1, <2>2, <2>3
       DEF LoopInv, OneCall, NoStrayLoop, AwaitsSlot, InitAlone, QuietUnlessCancelling,
           NoLiveLoop
<1>15. CASE UNCHANGED vars
  BY <1>0, <1>15
     DEF vars, nodeVars, loopVars, ctlVars, LoopInv, OneCall, NoStrayLoop, AwaitsSlot,
         InitAlone, QuietUnlessCancelling, NoLiveLoop, LiveLoop, Cancelling, Suspended
<1> QED
  BY <1>3, <1>4, <1>5, <1>6, <1>7, <1>9, <1>10, <1>11, <1>12, <1>13, <1>14, <1>15
     DEF Next, Call, Resumption

\* The strengthened invariant of the process loops holds in every state.
LEMMA LoopInvariant == ASSUME Exclusive PROVE Spec => []LoopInv
<1>1. ASSUME Init PROVE LoopInv
  <2>1. TypeOK /\ PausedNotRunning
    <3>1. TypeOK
      BY <1>1, InitTyped
    <3> QED
      BY <1>1, <3>1 DEF Init, PausedNotRunning
  <2>2. \A a \in Actors : pc[a] \in {"ready", "off"}
    BY <1>1 DEF Init
  <2>3. \A t \in Loops : ~LiveLoop(t)
    BY <1>1 DEF Init, LiveLoop
  <2> QED
    BY <2>1, <2>2, <2>3
       DEF LoopInv, OneCall, NoStrayLoop, AwaitsSlot, InitAlone, QuietUnlessCancelling,
           NoLiveLoop, Cancelling, Suspended, InCall
<1> QED
  BY <1>1, LoopInvStep, PTL DEF Spec

\* When calls do not overlap, every live loop is the one in the slot: at most
\* one process() runs per node, and stop() and pause() always reach it.
THEOREM OneLoop == ASSUME Exclusive PROVE Spec => []NoStrayLoop
<1>1. LoopInv => NoStrayLoop
  BY DEF LoopInv
<1> QED
  BY <1>1, LoopInvariant, PTL

\* When calls do not overlap, a settled node that is not running - stopped,
\* paused or failed - has no loop left.
THEOREM NotRunningMeansQuiet == ASSUME Exclusive PROVE Spec => []NotRunningIsQuiet
<1>1. LoopInv => NotRunningIsQuiet
  BY DEF LoopInv, QuietUnlessCancelling, NotRunningIsQuiet, Settled, NoLiveLoop,
         Cancelling, Suspended, InCall
<1> QED
  BY <1>1, LoopInvariant, PTL

\* When calls do not overlap, a loop begins only on an initialized, running
\* node none of whose loops is still alive, not even one being cancelled.
THEOREM RestartsAreClean == ASSUME Exclusive PROVE Spec => CleanRestart
<1>1. ASSUME LoopInv, [Next]_vars
      PROVE  [\A t \in Loops :
                ~LiveLoop(t) /\ LiveLoop(t)' =>
                  initialized' /\ running' /\ \A u \in Loops : ~LiveLoop(u)]_vars
  <2> SUFFICES ASSUME NEW t \in Loops, ~LiveLoop(t), LiveLoop(t)'
               PROVE  initialized' /\ running' /\ NoLiveLoop
    BY DEF NoLiveLoop
  <2>1. CASE \E a \in Actors : Start(a) \/ Resume(a)
    <3>1. PICK a \in Actors : MayCall(a) /\ StartNode(a) /\ ~running
      BY <1>1, <2>1 DEF Start, Resume, LoopInv, PausedNotRunning
    <3>2. \A x \in Actors : ~Cancelling(x)
      BY <3>1, LifecycleAssumption DEF MayCall, Suspended, Cancelling, InCall
    <3>3. NoLiveLoop
      BY <1>1, <3>1, <3>2 DEF LoopInv, QuietUnlessCancelling
    <3>4. loop' # loop
      BY DEF LiveLoop
    <3> QED
      BY <3>1, <3>3, <3>4 DEF StartNode, loopVars
  <2>2. CASE \E a \in Actors : InitDone(a)
    BY <1>1, <2>2 DEF InitDone, LoopInv, InitAlone
  <2>3. ASSUME ~\E a \in Actors : Start(a) \/ Resume(a) \/ InitDone(a)
        PROVE  FALSE
    <3>1. loop' = loop \/ \E u \in Loops : LiveLoop(u) /\ \E s : loop' = [loop EXCEPT ![u] = s]
      BY <1>1, <2>3
         DEF Next, Call, Resumption, LoopStep, ListenerStep, Stop, Pause, CancelLoop, SlotLive,
             InitFailed, InitCancelled, StopTaskDone, StopListenersDone, PauseDone, Wire,
             Unwire, UnwireDone, LoopReturned, LoopRaised, LoopRetried, LoopCancelled, EndedHealth, RetriesLeft,
             LiveLoop, ListenerExited, ListenerCancelled, ListenerBroke, vars, nodeVars,
             loopVars
    <3> QED
      BY <1>1, <3>1 DEF LoopInv, TypeOK, LiveLoop
  <2> QED
    BY <2>1, <2>2, <2>3
<1> QED
  BY <1>1, LoopInvariant, PTL DEF Spec, CleanRestart
-----------------------------------------------------------------------------
(* The listeners.  NoStrayListener is inductive once it is known that a    *)
(* live listener reads some pipe, that nobody cancels one that is inside a *)
(* call, and that the node stays stopped while stop() waits.               *)

ReadsAPipe     == \A l \in Listeners : LiveListener(l) => reads[l] \in Pipes
CallsComplete  == \A l \in Listeners : Suspended(l) => l \notin cancel
StopsMeanwhile ==
  \A a \in Actors : pc[a] \in {"stopTask", "stopListeners"} => ~running /\ ~paused

ListenInv == ReadsAPipe /\ NoStrayListener /\ CallsComplete /\ StopsMeanwhile

\* _ensure_control_listener() leaves a pipe that is listened to alone, and
\* records the task it creates for any other under the pipe the task reads.
LEMMA EnsureKeepsListeners ==
  ASSUME LifecycleAssumption, TypeOK, ReadsAPipe, NoStrayListener, CallsComplete,
         NEW ps \in SUBSET Pipes, NEW a \in Actors, NEW next,
         a \in Listeners => pc[a] = "get" /\ a \notin cancel,
         EnsureListeners(ps, a, next)
  PROVE  (ReadsAPipe /\ NoStrayListener /\ CallsComplete)'
<1>1. PICK f \in [Unheard(ps) -> FreeListeners] :
        LET created == {f[p] : p \in DOMAIN f} IN
        /\ \A p, q \in DOMAIN f : f[p] = f[q] => p = q
        /\ listener' = [p \in Pipes |-> IF p \in DOMAIN f THEN f[p] ELSE listener[p]]
        /\ reads' = [l \in Listeners |-> IF l \in created
                                         THEN CHOOSE p \in DOMAIN f : f[p] = l
                                         ELSE reads[l]]
        /\ cancel' = cancel \ created
        /\ pc' = [x \in Actors |-> IF x \in created THEN "get"
                                   ELSE IF x = a THEN next ELSE pc[x]]
  BY DEF EnsureListeners
<1> DEFINE created == {f[p] : p \in DOMAIN f}
<1>2. /\ DOMAIN f = Unheard(ps)
      /\ Unheard(ps) \subseteq Pipes
      /\ created \subseteq Listeners
      /\ \A l \in created : ~LiveListener(l)
  BY <1>1 DEF FreeListeners, Unheard
<1>3. ASSUME NEW l \in created
      PROVE  /\ reads'[l] \in Pipes /\ listener'[reads'[l]] = l
             /\ pc'[l] = "get" /\ l \notin cancel'
  <2>1. PICK q \in DOMAIN f : f[q] = l
    OBVIOUS
  <2> DEFINE r == CHOOSE p \in DOMAIN f : f[p] = l
  <2>2. r \in DOMAIN f /\ f[r] = l
    BY <2>1
  <2>3. reads'[l] = r /\ r \in Pipes /\ listener'[r] = f[r]
    BY <1>1, <1>2, <2>2
  <2>4. pc'[l] = "get" /\ l \notin cancel'
    BY <1>1, <1>2 DEF Actors
  <2> QED
    BY <2>2, <2>3, <2>4
<1>4. ASSUME NEW l \in Listeners, l \notin created, LiveListener(l)'
      PROVE  /\ LiveListener(l)
             /\ reads'[l] = reads[l]
             /\ l \in cancel' <=> l \in cancel
             /\ l # a => pc'[l] = pc[l]
    BY <1>1, <1>4 DEF LiveListener, Actors
<1>5. ASSUME NEW l \in Listeners, l \notin created, LiveListener(l)',
             l \notin cancel', pc'[l] # "stopListeners"
      PROVE  listener'[reads'[l]] = l
  <2>1. LiveListener(l) /\ reads[l] \in Pipes /\ reads'[l] = reads[l]
    BY <1>4, <1>5 DEF ReadsAPipe
  <2>2. l \notin cancel /\ pc[l] # "stopListeners"
    BY <1>4, <1>5
  <2>3. listener[reads[l]] = l
    BY <2>1, <2>2 DEF NoStrayListener
  <2>4. Listening(reads[l])
    BY <2>1, <2>3 DEF Listening
  <2>5. reads[l] \notin DOMAIN f
    BY <1>2, <2>4 DEF Unheard
  <2> QED
    BY <1>1, <2>1, <2>3, <2>5
<1>6. ReadsAPipe'
  BY <1>3, <1>4 DEF ReadsAPipe
<1>7. NoStrayListener'
  BY <1>3, <1>5 DEF NoStrayListener
<1>8. CallsComplete'
  <2> SUFFICES ASSUME NEW l \in Listeners, Suspended(l)' PROVE l \notin cancel'
    BY DEF CallsComplete
  <2>1. CASE l \in created
    BY <1>3, <2>1
  <2>2. CASE l \notin created /\ l = a
    BY <1>1, <2>2
  <2>3. CASE l \notin created /\ l # a
    <3>1. LiveListener(l)'
      BY DEF Suspended, InCall, LiveListener
    <3>2. pc'[l] = pc[l] /\ (l \in cancel' <=> l \in cancel)
      BY <1>4, <2>3, <3>1
    <3> QED
      BY <3>2 DEF Suspended, CallsComplete
  <2> QED
    BY <2>1, <2>2, <2>3
<1> QED
  BY <1>6, <1>7, <1>8

\* _cancel_all_control_listeners() misses no listener but its own caller,
\* because every live one that is not cancelled yet is in the record.
LEMMA CancelKeepsListeners ==
  ASSUME LifecycleAssumption, TypeOK, ReadsAPipe, NoStrayListener,
         NEW a \in Actors,
         a \in Listeners =>
           pc[a] \notin {"off", "stopListeners"} /\ a \notin cancel,
         \A x \in Actors : x # a => ~Suspended(x),
         CancelListeners(a)
  PROVE  (ReadsAPipe /\ NoStrayListener /\ CallsComplete)'
<1> DEFINE live == {l \in Listeners : LiveListener(l) /\ \E p \in Pipes : listener[p] = l}
<1>1. /\ cancel' = (cancel \cup Reached(live)) \ {a}
      /\ pc' = [pc EXCEPT ![a] = IF live = {} THEN Returned(a) ELSE "stopListeners"]
      /\ reads' = reads
  BY DEF CancelListeners, AwaitedBy
<1>2. live \subseteq Reached(live)
  BY DEF Reached
<1>3. ASSUME NEW l \in Listeners, LiveListener(l), l \notin cancel, pc[l] # "stopListeners"
      PROVE  l \in live
  <2>1. reads[l] \in Pipes /\ listener[reads[l]] = l
    BY <1>3 DEF ReadsAPipe, NoStrayListener
  <2> QED
    BY <1>3, <2>1
<1>4. a \in Listeners => pc'[a] = "stopListeners" /\ reads[a] \in Pipes
  <2>1. a \in Listeners => a \in live /\ LiveListener(a)
    BY <1>3 DEF LiveListener
  <2> QED
    BY <1>1, <2>1 DEF TypeOK, ReadsAPipe
<1>5. ASSUME NEW l \in Listeners, l # a
      PROVE  pc'[l] = pc[l] /\ ~Suspended(l)
  BY <1>1, <1>5 DEF TypeOK, Actors
<1>6. ASSUME NEW l \in Listeners, l # a, LiveListener(l)
      PROVE  l \in cancel'
  <2>1. l \in cancel \/ l \in live
    BY <1>3, <1>5, <1>6 DEF Suspended, InCall
  <2> QED
    BY <1>1, <1>2, <1>6, <2>1
<1>7. ReadsAPipe'
  BY <1>1, <1>4, <1>5 DEF ReadsAPipe, LiveListener
<1>8. NoStrayListener'
  BY <1>4, <1>5, <1>6 DEF NoStrayListener, LiveListener
<1>9. CallsComplete'
  <2>1. a \notin cancel'
    BY <1>1
  <2> QED
    BY <1>5, <2>1 DEF CallsComplete, Suspended
<1> QED
  BY <1>7, <1>8, <1>9

\* A step that moves only the actor a, and creates and cancels no listener.
LEMMA OneMoves ==
  ASSUME TypeOK, ReadsAPipe, NoStrayListener, CallsComplete,
         NEW a \in Actors, UNCHANGED <<listener, reads>>,
         cancel' \in {cancel, cancel \ {a}},
         \A x \in Actors : x # a => pc'[x] = pc[x],
         a \in Listeners => pc'[a] = "off"
                            \/ (a \notin cancel /\ pc[a] \notin {"off", "stopListeners"})
  PROVE  (ReadsAPipe /\ NoStrayListener /\ CallsComplete)'
<1>1. ASSUME NEW l \in Listeners, l # a
      PROVE  pc'[l] = pc[l] /\ (l \in cancel' <=> l \in cancel)
  BY <1>1 DEF Actors
<1>2. ReadsAPipe'
  BY <1>1 DEF ReadsAPipe, LiveListener
<1>3. NoStrayListener'
  BY <1>1 DEF NoStrayListener, LiveListener
<1>4. CallsComplete'
  BY <1>1 DEF CallsComplete, Suspended, InCall
<1> QED
  BY <1>2, <1>3, <1>4

\* A node stays stopped while a stop() of it waits, and calls that do not
\* overlap leave every listener recorded or on its way out.
LEMMA ListenInvStep ==
  Exclusive /\ LoopInv /\ ListenInv /\ [Next]_vars => ListenInv'
<1> SUFFICES ASSUME Exclusive, LoopInv, ListenInv, [Next]_vars PROVE ListenInv'
  OBVIOUS
<1> USE LifecycleAssumption
<1> DEFINE Parts == ReadsAPipe /\ NoStrayListener /\ CallsComplete
<1>0. /\ TypeOK /\ ReadsAPipe /\ NoStrayListener /\ CallsComplete /\ StopsMeanwhile
      /\ \A x, y \in Actors : Suspended(x) /\ Suspended(y) => x = y
  BY DEF ListenInv, LoopInv, OneCall
<1>1. ASSUME NEW a \in Actors, MayCall(a)
      PROVE  /\ \A x \in Actors : ~Suspended(x)
             /\ a \in Listeners => pc[a] = "get" /\ a \notin cancel
             /\ a \in Clients => pc[a] = "ready"
  BY <1>1 DEF MayCall, LifecycleAssumption
\* Nobody is in stop() when the call made ends its first step elsewhere.
<1>2. ASSUME Parts', \A x \in Actors : pc'[x] \notin {"stopTask", "stopListeners"}
      PROVE  ListenInv'
  BY <1>2 DEF ListenInv, StopsMeanwhile
\* The flags fall, or stay down, as stop() goes on.
<1>3. ASSUME Parts', ~running', ~paused'
      PROVE  ListenInv'
  BY <1>3 DEF ListenInv, StopsMeanwhile
<1>4. ASSUME NEW a \in Actors, Start(a) \/ Resume(a) PROVE ListenInv'
  <2>1. MayCall(a) /\ StartNode(a) /\ wired \in SUBSET Pipes
    BY <1>0, <1>4 DEF Start, Resume, TypeOK
  <2>2. PICK next \in {Returned(a), "init"} : EnsureListeners(wired, a, next)
    BY <2>1 DEF StartNode
  <2>3. Parts'
    BY <1>0, <1>1, <2>1, <2>2, EnsureKeepsListeners
  <2>4. /\ a \in Clients => next \in ClientStates
        /\ a \in Listeners => next \in ListenerStates
        /\ next \notin {"stopTask", "stopListeners"}
    BY DEF Returned, ClientStates, ListenerStates, InCall, LifecycleAssumption
  <2>5. pc[a] # "off"
    BY <1>1, <2>1 DEF Actors
  <2>6. \A x \in Actors : pc'[x] \notin {"stopTask", "stopListeners"}
    <3>1. pc'[a] = next /\ \A x \in Actors : x # a =>
            pc'[x] = pc[x] \/ (pc[x] = "off" /\ pc'[x] = "get")
      BY <1>0, <2>1, <2>2, <2>4, <2>5, EnsureListenersEffect
    <3> QED
      BY <1>1, <2>1, <2>4, <3>1 DEF Suspended, InCall
  <2> QED
    BY <1>2, <2>3, <2>6
<1>5. ASSUME NEW a \in Actors, InitDone(a) \/ InitFailed(a) \/ InitCancelled(a)
      PROVE  ListenInv'
  <2>1. Suspended(a) /\ \A x \in Actors : x # a => ~Suspended(x)
    BY <1>0, <1>5 DEF InitDone, InitFailed, InitCancelled, Suspended, InCall
  <2>2. \E s \in {"ready", "get", "off"} : pc' = [pc EXCEPT ![a] = s]
    BY <1>5 DEF InitDone, InitFailed, InitCancelled, Returned
  <2>3. Parts'
    <3>1. CASE InitDone(a) \/ InitFailed(a)
      BY <1>0, <2>2, <3>1, OneMoves DEF InitDone, InitFailed, ctlVars, TypeOK
    <3>2. CASE InitCancelled(a)
      BY <1>0, <2>2, <3>2, OneMoves DEF InitCancelled, TypeOK, LifecycleAssumption
    <3> QED
      BY <1>5, <3>1, <3>2
  <2>4. \A x \in Actors : pc'[x] \notin {"stopTask", "stopListeners"}
    BY <1>0, <2>1, <2>2 DEF Suspended, InCall, TypeOK
  <2> QED
    BY <1>2, <2>3, <2>4
<1>6. ASSUME NEW a \in Actors, Stop(a) PROVE ListenInv'
  <2>1. MayCall(a) /\ ~running' /\ ~paused'
    BY <1>6 DEF Stop
  <2>2. CASE CancelLoop(a, "stopTask")
    <3>1. Parts'
      BY <1>0, <1>1, <2>1, <2>2, OneMoves DEF CancelLoop, ctlVars, TypeOK
    <3> QED
      BY <1>3, <2>1, <3>1
  <2>3. CASE CancelListeners(a)
    <3>1. Parts'
      BY <1>0, <1>1, <2>1, <2>3, CancelKeepsListeners
    <3> QED
      BY <1>3, <2>1, <3>1
  <2> QED
    BY <1>6, <2>2, <2>3 DEF Stop
<1>7. ASSUME NEW a \in Actors, StopTaskDone(a) PROVE ListenInv'
  <2>1. Suspended(a) /\ pc[a] = "stopTask" /\ CancelListeners(a)
    BY <1>7 DEF StopTaskDone, Suspended, InCall
  <2>2. Parts'
    BY <1>0, <2>1, CancelKeepsListeners DEF CallsComplete
  <2>3. ~running' /\ ~paused'
    BY <1>0, <1>7, <2>1 DEF StopsMeanwhile, StopTaskDone, nodeVars
  <2> QED
    BY <1>3, <2>2, <2>3
<1>8. ASSUME NEW a \in Actors, StopListenersDone(a) PROVE ListenInv'
  <2>1. ~running' /\ ~paused'
    BY <1>0, <1>8 DEF StopsMeanwhile, StopListenersDone, nodeVars
  <2>2. pc' = [pc EXCEPT ![a] = IF a \in Clients THEN "ready" ELSE "off"]
    BY <1>8, <2>1 DEF StopListenersDone, Returned
  <2>3. Parts'
    BY <1>0, <1>8, <2>2, OneMoves DEF StopListenersDone, TypeOK, LifecycleAssumption
  <2> QED
    BY <1>3, <2>1, <2>3
<1>9. ASSUME NEW a \in Actors, Pause(a) PROVE ListenInv'
  <2>1. MayCall(a)
    BY <1>9 DEF Pause
  <2>2. \/ pc' = [pc EXCEPT ![a] = "pauseTask"] /\ UNCHANGED ctlVars
        \/ UNCHANGED <<pc, ctlVars>>
    BY <1>9 DEF Pause, CancelLoop
  <2>3. Parts'
    BY <1>0, <1>1, <2>1, <2>2, OneMoves DEF ctlVars, TypeOK
  <2>4. \A x \in Actors : pc'[x] \notin {"stopTask", "stopListeners"}
    BY <1>0, <1>1, <2>1, <2>2 DEF Suspended, InCall, TypeOK
  <2> QED
    BY <1>2, <2>3, <2>4
<1>10. ASSUME NEW a \in Actors, PauseDone(a) PROVE ListenInv'
  <2>1. Suspended(a) /\ \A x \in Actors : x # a => ~Suspended(x)
    BY <1>0, <1>10 DEF PauseDone, Suspended, InCall
  <2>2. pc' = [pc EXCEPT ![a] = Returned(a)] /\ Returned(a) \in {"ready", "get", "off"}
    BY <1>10 DEF PauseDone, Returned
  <2>3. Parts'
    BY <1>0, <1>10, <2>1, <2>2, OneMoves DEF PauseDone, CallsComplete, TypeOK
  <2>4. \A x \in Actors : pc'[x] \notin {"stopTask", "stopListeners"}
    BY <1>0, <2>1, <2>2 DEF Suspended, InCall, TypeOK
  <2> QED
    BY <1>2, <2>3, <2>4
<1>11. ASSUME NEW c \in Clients, NEW p \in Pipes, Wire(c, p) PROVE ListenInv'
  <2>1. c \in Actors /\ c \notin Listeners /\ MayCall(c) /\ pc[c] = "ready"
    BY <1>11 DEF Wire, Actors, MayCall, LifecycleAssumption
  <2>2. CASE EnsureListeners({p}, c, pc[c])
    <3>1. Parts'
      BY <1>0, <2>1, <2>2, EnsureKeepsListeners
    <3>2. pc'[c] = pc[c] /\ \A x \in Actors : x # c =>
            pc'[x] = pc[x] \/ (pc[x] = "off" /\ pc'[x] = "get")
      <4>1. {p} \in SUBSET Pipes /\ pc[c] \in ClientStates
        BY <2>1 DEF ClientStates
      <4> QED
        BY <1>0, <2>1, <2>2, <4>1, EnsureListenersEffect
    <3>3. \A x \in Actors : pc'[x] \notin {"stopTask", "stopListeners"}
      BY <1>1, <2>1, <3>2 DEF Suspended, InCall
    <3> QED
      BY <1>2, <3>1, <3>3
  <2>3. CASE UNCHANGED <<listener, reads, cancel, pc>>
    <3>1. Parts'
      BY <1>0, <2>1, <2>3, OneMoves
    <3>2. \A x \in Actors : pc'[x] \notin {"stopTask", "stopListeners"}
      BY <1>1, <2>1, <2>3 DEF Suspended, InCall
    <3> QED
      BY <1>2, <3>1, <3>2
  <2> QED
    BY <1>11, <2>2, <2>3 DEF Wire
<1>12. ASSUME NEW c \in Clients, NEW p \in Pipes, Unwire(c, p) PROVE ListenInv'
  <2>1. c \in Actors /\ MayCall(c) /\ pc[c] = "ready"
    BY <1>12 DEF Unwire, Actors, MayCall, LifecycleAssumption
  <2>2. \A x \in Actors : pc'[x] = pc[x] \/ (x = c /\ pc'[x] = "unwire")
    BY <1>0, <1>12 DEF Unwire, TypeOK
  <2>3. \A x \in Actors : pc'[x] \notin {"stopTask", "stopListeners"}
    BY <1>1, <2>1, <2>2 DEF Suspended, InCall
  <2>4. \A l \in Listeners : pc'[l] = pc[l] /\ ~Suspended(l)'
    BY <1>1, <2>1, <2>2 DEF Actors, Suspended, LifecycleAssumption
  <2>5. ReadsAPipe' /\ CallsComplete'
    BY <1>0, <1>12, <2>4 DEF Unwire, ReadsAPipe, CallsComplete, LiveListener
  <2>6. NoStrayListener'
    <3> SUFFICES ASSUME NEW l \in Listeners, LiveListener(l)', l \notin cancel',
                        pc'[l] # "stopListeners"
                 PROVE  listener'[reads'[l]] = l
      BY DEF NoStrayListener
    <3>1. LiveListener(l) /\ pc[l] # "stopListeners" /\ reads'[l] = reads[l]
      BY <1>12, <2>4 DEF LiveListener, Unwire
    <3>2. l \notin cancel /\ (Listening(p) => l # listener[p])
      BY <1>12 DEF Unwire, Reached
    <3>3. listener[reads[l]] = l
      BY <1>0, <3>1, <3>2 DEF NoStrayListener
    <3>4. reads[l] # p
      BY <3>1, <3>2, <3>3 DEF Listening
    <3> QED
      BY <1>0, <1>12, <3>1, <3>3, <3>4 DEF Unwire, TypeOK
  <2> QED
    BY <1>2, <2>3, <2>5, <2>6
<1>13. ASSUME NEW c \in Clients, UnwireDone(c) PROVE ListenInv'
  <2>1. /\ c \in Actors /\ c \notin Listeners /\ Suspended(c)
        /\ pc' = [pc EXCEPT ![c] = "ready"]
    BY <1>13 DEF UnwireDone, Actors, Suspended, InCall, LifecycleAssumption
  <2>2. Parts'
    BY <1>0, <1>13, <2>1, OneMoves DEF UnwireDone, ctlVars, TypeOK
  <2>3. \A x \in Actors : pc'[x] \notin {"stopTask", "stopListeners"}
    BY <1>0, <2>1 DEF Suspended, InCall, TypeOK
  <2> QED
    BY <1>2, <2>2, <2>3
<1>14. ASSUME NEW l \in Listeners, ListenerStep(l) PROVE ListenInv'
  <2>1. /\ l \in Actors
        /\ pc' = [pc EXCEPT ![l] = "off"]
        /\ UNCHANGED <<running, paused, listener, reads>>
        /\ cancel' \in {cancel, cancel \ {l}}
    BY <1>14 DEF ListenerStep, ListenerExited, ListenerCancelled, ListenerBroke,
                 Actors, nodeVars, ctlVars
  <2>2. Parts'
    BY <1>0, <2>1, OneMoves DEF TypeOK
  <2>3. StopsMeanwhile'
    BY <1>0, <2>1 DEF StopsMeanwhile, TypeOK
  <2> QED
    BY <2>2, <2>3 DEF ListenInv
<1>15. ASSUME UNCHANGED <<running, paused, listener, reads, cancel, pc>> PROVE ListenInv'
  BY <1>15 DEF ListenInv, ReadsAPipe, NoStrayListener, CallsComplete, StopsMeanwhile,
               LiveListener, Suspended
<1>16. ASSUME NEW t \in Loops, LoopStep(t) PROVE ListenInv'
  BY <1>15, <1>16 DEF LoopStep, LoopReturned, LoopRaised, LoopRetried, LoopCancelled,
                      nodeVars, ctlVars
<1>17. CASE UNCHANGED vars
  BY <1>15, <1>17 DEF vars, nodeVars, ctlVars
<1> QED
  BY <1>4, <1>5, <1>6, <1>7, <1>8, <1>9, <1>10, <1>11, <1>12, <1>13, <1>14, <1>16,
     <1>17 DEF Next, Call, Resumption

\* A node just built has no listener, and nobody inside a call.
LEMMA InitListens == Init => ListenInv
<1> SUFFICES ASSUME Init PROVE ListenInv
  OBVIOUS
<1>1. \A l \in Listeners : pc[l] = "off"
  BY LifecycleAssumption DEF Init, Actors, LifecycleAssumption
<1>2. \A a \in Actors : pc[a] \in {"ready", "off"}
  BY DEF Init
<1> QED
  BY <1>1, <1>2 DEF ListenInv, ReadsAPipe, NoStrayListener, CallsComplete,
                    StopsMeanwhile, LiveListener, Suspended, InCall

\* When calls do not overlap, every live listener is the one on record for the
\* pipe it reads, or is on its way out: no two of them handle one pipe's
\* messages, whatever is wired, unwired, stopped or started in between.
THEOREM OneListener == ASSUME Exclusive PROVE Spec => []NoStrayListener
<1>1. ListenInv => NoStrayListener
  BY DEF ListenInv
<1> QED
  BY <1>1, InitListens, LoopInvariant, ListenInvStep, PTL DEF Spec

-----------------------------------------------------------------------------
(* The node stays reachable.  Only the disconnection of its own pipe, or a *)
(* stop, cancels a recorded listener.  So the record is right about who    *)
(* reads what, and a cancellation is passed on to no other listener.       *)

RecordTrue ==
  \A p \in Pipes, l \in Listeners : listener[p] = l =>
    reads[l] = p /\ (LiveListener(l) => l \notin cancel)
NothingAwaited ==
  \A a \in Actors : pc[a] \in {"ready", "get", "off", "init"} => waits[a] = {}

RecordInv == RecordTrue /\ NothingAwaited /\ ControlReachable

\* _ensure_control_listener() keeps the record true, and leaves every pipe it
\* was called for, and every one that had a listener before, with a listener.
LEMMA EnsureReaches ==
  ASSUME LifecycleAssumption, TypeOK, RecordTrue,
         NEW ps \in SUBSET Pipes, NEW a \in Actors, NEW next,
         a \in Listeners => pc[a] = "get",
         EnsureListeners(ps, a, next)
  PROVE  /\ RecordTrue'
         /\ (a \in Listeners => next # "off")
              => \A p \in Pipes : p \in ps \/ Listening(p)
                   => (Listening(p) /\ listener[p] \notin cancel)'
<1>1. PICK f \in [Unheard(ps) -> FreeListeners] :
        LET created == {f[p] : p \in DOMAIN f} IN
        /\ \A p, q \in DOMAIN f : f[p] = f[q] => p = q
        /\ listener' = [p \in Pipes |-> IF p \in DOMAIN f THEN f[p] ELSE listener[p]]
        /\ reads' = [l \in Listeners |-> IF l \in created
                                         THEN CHOOSE p \in DOMAIN f : f[p] = l
                                         ELSE reads[l]]
        /\ cancel' = cancel \ created
        /\ pc' = [x \in Actors |-> IF x \in created THEN "get"
                                   ELSE IF x = a THEN next ELSE pc[x]]
  BY DEF EnsureListeners
<1> DEFINE created == {f[p] : p \in DOMAIN f}
<1>2. /\ DOMAIN f = Unheard(ps)
      /\ Unheard(ps) \subseteq Pipes
      /\ created \subseteq Listeners
      /\ \A l \in created : ~LiveListener(l) /\ \A p \in Pipes : listener[p] # l
  BY <1>1 DEF FreeListeners, Unheard
<1>3. ASSUME NEW p \in DOMAIN f
      PROVE  /\ listener'[p] = f[p] /\ f[p] \in created
             /\ reads'[f[p]] = p /\ pc'[f[p]] = "get" /\ f[p] \notin cancel'
  <2> DEFINE r == CHOOSE q \in DOMAIN f : f[q] = f[p]
  <2>1. r \in DOMAIN f /\ f[r] = f[p]
    OBVIOUS
  <2>2. r = p
    BY <1>1, <2>1
  <2>3. f[p] \in created /\ f[p] \in Listeners /\ listener'[p] = f[p]
    BY <1>1, <1>2
  <2> QED
    BY <1>1, <2>2, <2>3 DEF Actors
<1>4. ASSUME NEW p \in Pipes, p \notin DOMAIN f, NEW l \in Listeners, listener'[p] = l
      PROVE  /\ listener[p] = l /\ l \notin created /\ reads'[l] = reads[l]
             /\ l \in cancel' <=> l \in cancel
             /\ l # a => pc'[l] = pc[l]
             /\ l = a => pc'[l] = next
  <2>1. listener[p] = l
    BY <1>1, <1>4
  <2>2. l \notin created
    BY <1>2, <2>1
  <2> QED
    BY <1>1, <2>1, <2>2 DEF Actors
<1>5. ASSUME NEW p \in Pipes, NEW l \in Listeners, listener'[p] = l
      PROVE  reads'[l] = p /\ (LiveListener(l)' => l \notin cancel')
  <2>1. CASE p \in DOMAIN f
    BY <1>3, <1>5, <2>1
  <2>2. CASE p \notin DOMAIN f
    <3>1. listener[p] = l /\ reads[l] = p /\ (LiveListener(l) => l \notin cancel)
      BY <1>4, <1>5, <2>2 DEF RecordTrue
    <3>2. LiveListener(l)' => LiveListener(l)
      BY <1>4, <1>5, <2>2 DEF LiveListener
    <3> QED
      BY <1>4, <1>5, <2>2, <3>1, <3>2
  <2> QED
    BY <2>1, <2>2
<1>6. RecordTrue'
  BY <1>5 DEF RecordTrue
<1>7. ASSUME a \in Listeners => next # "off",
             NEW p \in Pipes, p \in ps \/ Listening(p)
      PROVE  (Listening(p) /\ listener[p] \notin cancel)'
  <2>1. CASE p \in DOMAIN f
    <3>1. f[p] \in Listeners /\ listener'[p] = f[p] /\ pc'[f[p]] = "get"
      BY <1>2, <1>3, <2>1
    <3> QED
      BY <1>3, <2>1, <3>1 DEF Listening, LiveListener
  <2>2. CASE p \notin DOMAIN f
    <3>1. Listening(p)
      BY <1>2, <1>7, <2>2 DEF Unheard
    <3>2. PICK l \in Listeners : listener[p] = l /\ LiveListener(l)
      BY <3>1 DEF Listening
    <3>3. listener'[p] = l /\ l \notin created
      BY <1>1, <1>2, <2>2, <3>2
    <3>4. LiveListener(l)'
      BY <1>4, <1>7, <2>2, <3>2, <3>3 DEF LiveListener
    <3>5. l \notin cancel'
      BY <1>5, <3>3, <3>4
    <3> QED
      BY <3>3, <3>4, <3>5 DEF Listening
  <2> QED
    BY <2>1, <2>2
<1> QED
  BY <1>6, <1>7

\* A step that moves only the actor a, wires nothing and cancels nobody.
LEMMA OneMovesReaches ==
  ASSUME TypeOK, RecordInv, NEW a \in Actors,
         UNCHANGED <<wired, listener, reads>>, cancel' \subseteq cancel,
         \A x \in Actors : x # a => pc'[x] = pc[x] /\ waits'[x] = waits[x],
         pc'[a] \in {"ready", "get", "off", "init"} => waits'[a] = {},
         a \in Listeners => pc[a] # "off",
         running' \/ paused' =>
           (running \/ paused) /\ (a \in Listeners => pc'[a] # "off" \/ a \in cancel)
  PROVE  RecordInv'
<1>1. \A l \in Listeners : LiveListener(l)' => LiveListener(l)
  BY DEF LiveListener, Actors
<1>2. RecordTrue'
  BY <1>1 DEF RecordInv, RecordTrue
<1>3. NothingAwaited'
  BY DEF RecordInv, NothingAwaited
<1>4. ControlReachable'
  <2> SUFFICES ASSUME running' \/ paused', NEW p \in wired
               PROVE  (Listening(p) /\ listener[p] \notin cancel)'
    BY DEF ControlReachable
  <2>1. Listening(p) /\ listener[p] \notin cancel
    BY DEF RecordInv, ControlReachable
  <2>2. PICK l \in Listeners : l = listener[p] /\ LiveListener(l)
    BY <2>1 DEF Listening
  <2>3. LiveListener(l)'
    BY <2>1, <2>2 DEF LiveListener, Actors
  <2> QED
    BY <2>1, <2>2, <2>3 DEF Listening
<1> QED
  BY <1>2, <1>3, <1>4 DEF RecordInv

\* Calls that do not overlap, on a node whose handlers do not raise, keep every
\* pipe wired to a running or paused node listened to.
LEMMA RecordInvStep ==
  Exclusive /\ ~HandlerMayRaise /\ LoopInv /\ ListenInv /\ RecordInv /\ [Next]_vars
    => RecordInv'
<1> SUFFICES ASSUME Exclusive, ~HandlerMayRaise, LoopInv, ListenInv, RecordInv, [Next]_vars
             PROVE  RecordInv'
  OBVIOUS
<1> USE LifecycleAssumption
<1>0. /\ TypeOK /\ PausedNotRunning
      /\ CallsComplete /\ StopsMeanwhile
      /\ RecordTrue /\ NothingAwaited /\ ControlReachable
      /\ \A x \in Actors : pc[x] = "init" => running
  BY DEF ListenInv, LoopInv, InitAlone, RecordInv
<1>1. ASSUME NEW a \in Actors, MayCall(a)
      PROVE  /\ \A x \in Actors : pc[x] \in {"ready", "get", "off"} /\ waits[x] = {}
             /\ a \in Listeners => pc[a] = "get"
             /\ a \in Clients => pc[a] = "ready"
  <2>1. \A x \in Actors : ~Suspended(x)
    BY <1>1 DEF MayCall
  <2>2. \A x \in Actors : pc[x] \in {"ready", "get", "off"}
    BY <1>0, <2>1 DEF Suspended, TypeOK
  <2> QED
    BY <1>0, <1>1, <2>2 DEF MayCall, NothingAwaited, LifecycleAssumption
<1>2. ASSUME NEW a \in Actors, Start(a) \/ Resume(a) PROVE RecordInv'
  <2>1. MayCall(a) /\ StartNode(a) /\ wired \in SUBSET Pipes /\ wired' = wired /\ waits' = waits
    BY <1>0, <1>2 DEF Start, Resume, StartNode, TypeOK
  <2>2. PICK next \in {Returned(a), "init"} : EnsureListeners(wired, a, next)
    BY <2>1 DEF StartNode
  <2>3. RecordTrue' /\ ((a \in Listeners => next # "off") =>
          \A p \in wired : (Listening(p) /\ listener[p] \notin cancel)')
    BY <1>0, <1>1, <2>1, <2>2, EnsureReaches
  <2>4. running' \/ paused' => (a \in Listeners => next # "off")
    BY DEF Returned, LifecycleAssumption
  <2>5. ControlReachable'
    BY <2>1, <2>3, <2>4 DEF ControlReachable
  <2>6. NothingAwaited'
    BY <1>1, <2>1 DEF NothingAwaited
  <2> QED
    BY <2>3, <2>5, <2>6 DEF RecordInv
<1>3. ASSUME NEW a \in Actors, InitDone(a) \/ InitFailed(a) \/ InitCancelled(a)
      PROVE  RecordInv'
  <2>1. /\ pc[a] = "init" /\ waits[a] = {} /\ running /\ ~paused
        /\ UNCHANGED <<paused, wired, listener, reads, waits>>
        /\ cancel' \subseteq cancel
    BY <1>0, <1>3 DEF InitDone, InitFailed, InitCancelled, ctlVars, NothingAwaited,
                      PausedNotRunning
  <2>2. \A x \in Actors : x # a => pc'[x] = pc[x] /\ waits'[x] = waits[x]
    BY <1>0, <1>3, <2>1 DEF InitDone, InitFailed, InitCancelled, TypeOK
  <2>3. running' \/ paused' => pc'[a] # "off"
    BY <1>0, <1>3, <2>1 DEF InitDone, InitFailed, InitCancelled, Returned, TypeOK
  <2> QED
    BY <1>0, <2>1, <2>2, <2>3, OneMovesReaches
\* stop() has emptied the record: the node is stopped, and nothing is listened to.
<1>4. ASSUME NEW a \in Actors, CancelListeners(a), ~running', ~paused',
             \A x \in Actors : x # a /\ pc[x] \in {"ready", "get", "off"} => waits[x] = {}
      PROVE  RecordInv'
  <2> DEFINE live == {l \in Listeners : LiveListener(l) /\ \E p \in Pipes : listener[p] = l}
  <2>1. /\ listener' = [p \in Pipes |-> None]
        /\ waits' = [waits EXCEPT ![a] = live \ {a}]
        /\ pc' = [pc EXCEPT ![a] = IF live = {} THEN Returned(a) ELSE "stopListeners"]
    BY <1>4 DEF CancelListeners, AwaitedBy
  <2>2. RecordTrue' /\ ControlReachable'
    BY <1>4, <2>1 DEF RecordTrue, ControlReachable, LifecycleAssumption
  <2>3. pc'[a] = "stopListeners" \/ waits'[a] = {}
    BY <1>0, <2>1 DEF TypeOK
  <2>4. \A x \in Actors : x # a => pc'[x] = pc[x] /\ waits'[x] = waits[x]
    BY <1>0, <2>1 DEF TypeOK
  <2>5. NothingAwaited'
    BY <1>0, <2>3, <2>4 DEF NothingAwaited
  <2> QED
    BY <2>2, <2>5 DEF RecordInv
<1>5. ASSUME NEW a \in Actors, Stop(a) PROVE RecordInv'
  <2>1. MayCall(a) /\ ~running' /\ ~paused'
    BY <1>5 DEF Stop
  <2>2. CASE CancelLoop(a, "stopTask")
    <3>1. /\ \A x \in Actors : x # a => pc'[x] = pc[x] /\ waits'[x] = waits[x]
          /\ pc'[a] = "stopTask" /\ UNCHANGED ctlVars
      BY <1>0, <2>2 DEF CancelLoop, TypeOK
    <3> QED
      BY <1>0, <1>1, <2>1, <3>1, OneMovesReaches DEF ctlVars
  <2>3. CASE CancelListeners(a)
    BY <1>1, <1>4, <2>1, <2>3
  <2> QED
    BY <1>5, <2>2, <2>3 DEF Stop
<1>6. ASSUME NEW a \in Actors, StopTaskDone(a) PROVE RecordInv'
  <2>1. CancelListeners(a) /\ ~running' /\ ~paused'
    BY <1>0, <1>6 DEF StopTaskDone, StopsMeanwhile, nodeVars
  <2> QED
    BY <1>0, <1>4, <2>1 DEF NothingAwaited
<1>7. ASSUME NEW a \in Actors, StopListenersDone(a) \/ PauseDone(a) PROVE RecordInv'
  <2>1. /\ UNCHANGED <<running, paused, wired, listener, reads>>
        /\ cancel' \subseteq cancel /\ pc[a] # "off"
        /\ waits' = [waits EXCEPT ![a] = {}]
        /\ pc' = [pc EXCEPT ![a] = Returned(a)]
    BY <1>7 DEF StopListenersDone, PauseDone, nodeVars
  <2>2. \A x \in Actors : x # a => pc'[x] = pc[x] /\ waits'[x] = waits[x]
    BY <1>0, <2>1 DEF TypeOK
  <2>3. waits'[a] = {} /\ (running' \/ paused' => pc'[a] # "off")
    BY <1>0, <2>1 DEF Returned, TypeOK
  <2> QED
    BY <1>0, <2>1, <2>2, <2>3, OneMovesReaches
<1>8. ASSUME NEW a \in Actors, Pause(a) PROVE RecordInv'
  <2>1. MayCall(a) /\ running
    BY <1>8 DEF Pause
  <2>2. CASE CancelLoop(a, "pauseTask")
    <3>1. /\ \A x \in Actors : x # a => pc'[x] = pc[x] /\ waits'[x] = waits[x]
          /\ pc'[a] = "pauseTask" /\ UNCHANGED ctlVars
      BY <1>0, <2>2 DEF CancelLoop, TypeOK
    <3> QED
      BY <1>0, <1>1, <2>1, <3>1, OneMovesReaches DEF ctlVars
  <2>3. CASE UNCHANGED <<ctlVars, pc, waits>>
    <3>1. pc'[a] \in {"ready", "get"} /\ waits'[a] = {}
      BY <1>1, <2>1, <2>3 DEF Actors
    <3> QED
      BY <1>0, <1>1, <2>1, <2>3, <3>1, OneMovesReaches DEF ctlVars
  <2> QED
    BY <1>8, <2>2, <2>3 DEF Pause
<1>9. ASSUME NEW c \in Clients, NEW p \in Pipes, Wire(c, p) PROVE RecordInv'
  <2>1. /\ c \in Actors /\ c \notin Listeners /\ MayCall(c)
        /\ UNCHANGED <<running, paused, waits>> /\ wired' = wired \cup {p}
    BY <1>9 DEF Wire, Actors, nodeVars, LifecycleAssumption
  <2>2. NothingAwaited'
    BY <1>1, <2>1 DEF NothingAwaited
  <2>3. CASE EnsureListeners({p}, c, pc[c])
    <3>1. RecordTrue' /\ \A q \in Pipes : q = p \/ Listening(q) =>
            (Listening(q) /\ listener[q] \notin cancel)'
      BY <1>0, <2>1, <2>3, EnsureReaches
    <3>2. ControlReachable'
      BY <1>0, <2>1, <3>1 DEF ControlReachable, TypeOK
    <3> QED
      BY <2>2, <3>1, <3>2 DEF RecordInv
  <2>4. CASE ~running /\ ~paused /\ UNCHANGED <<listener, reads, cancel, pc>>
    <3>1. RecordTrue' /\ ControlReachable'
      BY <1>0, <2>1, <2>4 DEF RecordTrue, ControlReachable, LiveListener
    <3> QED
      BY <2>2, <3>1 DEF RecordInv
  <2> QED
    BY <1>9, <2>3, <2>4 DEF Wire
<1>10. ASSUME NEW c \in Clients, NEW p \in Pipes, Unwire(c, p) PROVE RecordInv'
  <2>1. c \in Actors /\ c \notin Listeners /\ MayCall(c)
    BY <1>10 DEF Unwire, Actors, LifecycleAssumption
  <2>2. \A l \in Listeners : pc'[l] = pc[l] /\ waits[l] = {}
    BY <1>0, <1>1, <1>10, <2>1 DEF Unwire, TypeOK, Actors
  <2>3. ASSUME NEW q \in Pipes, q # p, NEW l \in Listeners, listener[q] = l
        PROVE  /\ listener'[q] = l /\ reads'[l] = q
               /\ l \in cancel' => l \in cancel
               /\ LiveListener(l)' <=> LiveListener(l)
    <3>1. reads[l] = q /\ listener[p] # l
      BY <1>0, <2>3 DEF RecordTrue
    <3>2. CASE Listening(p)
      <4>1. listener[p] \in Listeners
        BY <3>2 DEF Listening
      <4>2. Reached({listener[p]}) = {listener[p]}
        BY <2>2, <4>1 DEF Reached
      <4> QED
        BY <1>0, <1>10, <2>2, <2>3, <3>1, <3>2, <4>2 DEF Unwire, TypeOK, LiveListener
    <3>3. CASE ~Listening(p)
      BY <1>0, <1>10, <2>2, <2>3, <3>1, <3>3 DEF Unwire, TypeOK, LiveListener
    <3> QED
      BY <3>2, <3>3
  <2>4. \A q \in Pipes : listener'[q] = IF q = p THEN None ELSE listener[q]
    BY <1>0, <1>10 DEF Unwire, TypeOK
  <2>5. RecordTrue'
    BY <1>0, <2>3, <2>4 DEF RecordTrue, LifecycleAssumption
  <2>6. ControlReachable'
    <3> SUFFICES ASSUME running' \/ paused', NEW q \in wired'
                 PROVE  (Listening(q) /\ listener[q] \notin cancel)'
      BY DEF ControlReachable
    <3>1. q \in wired /\ q # p /\ q \in Pipes /\ Listening(q) /\ listener[q] \notin cancel
      BY <1>0, <1>10 DEF Unwire, nodeVars, ControlReachable, TypeOK
    <3>2. PICK l \in Listeners : l = listener[q] /\ LiveListener(l)
      BY <3>1 DEF Listening
    <3> QED
      BY <2>3, <3>1, <3>2 DEF Listening
  <2>7. NothingAwaited'
    <3>1. \A x \in Actors : (pc'[x] = pc[x] /\ waits'[x] = waits[x]) \/ pc'[x] = "unwire"
      BY <1>0, <1>10 DEF Unwire, TypeOK
    <3> QED
      BY <1>0, <3>1 DEF NothingAwaited
  <2> QED
    BY <2>5, <2>6, <2>7 DEF RecordInv
<1>11. ASSUME NEW c \in Clients, UnwireDone(c) PROVE RecordInv'
  <2>1. /\ c \in Actors /\ c \notin Listeners
        /\ UNCHANGED <<running, paused, wired, listener, reads, cancel>>
        /\ waits'[c] = {}
        /\ \A x \in Actors : x # c => pc'[x] = pc[x] /\ waits'[x] = waits[x]
    BY <1>0, <1>11 DEF UnwireDone, Actors, nodeVars, ctlVars, TypeOK, LifecycleAssumption
  <2> QED
    BY <1>0, <2>1, OneMovesReaches
<1>12. ASSUME NEW l \in Listeners, ListenerStep(l) PROVE RecordInv'
  <2>1. /\ l \in Actors /\ pc[l] = "get" /\ pc' = [pc EXCEPT ![l] = "off"]
        /\ UNCHANGED <<running, paused, wired, listener, reads, waits>>
        /\ cancel' \subseteq cancel
        /\ l \in cancel \/ (~running /\ ~paused)
    BY <1>12 DEF ListenerStep, ListenerExited, ListenerCancelled, ListenerBroke,
                 Actors, nodeVars, ctlVars
  <2>2. waits'[l] = {} /\ \A x \in Actors : x # l => pc'[x] = pc[x] /\ waits'[x] = waits[x]
    BY <1>0, <2>1 DEF TypeOK, NothingAwaited
  <2> QED
    BY <1>0, <2>1, <2>2, OneMovesReaches
<1>13. ASSUME UNCHANGED <<running, paused, ctlVars, pc, waits>> PROVE RecordInv'
  BY <1>0, <1>13 DEF RecordInv, RecordTrue, NothingAwaited, ControlReachable, Listening,
                     LiveListener, ctlVars
<1>14. ASSUME NEW t \in Loops, LoopStep(t) PROVE RecordInv'
  BY <1>13, <1>14 DEF LoopStep, LoopReturned, LoopRaised, LoopRetried, LoopCancelled,
                      nodeVars
<1>15. CASE UNCHANGED vars
  BY <1>13, <1>15 DEF vars, nodeVars
<1> QED
  BY <1>2, <1>3, <1>5, <1>6, <1>7, <1>8, <1>9, <1>10, <1>11, <1>12, <1>14, <1>15
     DEF Next, Call, Resumption

\* When calls do not overlap and no handle_control() override raises, every
\* control pipe wired to a running or paused node has a listener that nobody is
\* cancelling: a paused node can be resumed, a running one stopped.
THEOREM NodeReachable ==
  ASSUME Exclusive, ~HandlerMayRaise PROVE Spec => []ControlReachable
<1>1. ASSUME Init PROVE ListenInv /\ RecordInv
  <2>1. ListenInv
    BY <1>1, InitListens
  <2>2. \A p \in Pipes : listener[p] \notin Listeners
    BY <1>1, LifecycleAssumption DEF Init, LifecycleAssumption
  <2> QED
    BY <1>1, <2>1, <2>2 DEF Init, RecordInv, RecordTrue, NothingAwaited, ControlReachable
<1>2. RecordInv => ControlReachable
  BY DEF RecordInv
<1> QED
  BY <1>1, <1>2, LoopInvariant, ListenInvStep, RecordInvStep, PTL DEF Spec
-----------------------------------------------------------------------------
(* What the editor shows.  A loop that may still raise or return runs on a *)
(* running node, and one being cancelled on a node that is not: that is    *)
(* why the state a loop reports as it ends is never out of date.           *)

LoopsMatchFlag ==
  \A t \in Loops : /\ loop[t] \in {"process", "backoff"} => running
                   /\ loop[t] = "cancelling" => ~running
HealthTrue ==
  /\ health \in {"healthy", "retrying"} => running /\ SlotLive
  /\ health = "idle" => running /\ ~SlotLive
  /\ health = "paused" => paused
  /\ health = "starting" => \E a \in Actors : pc[a] = "init"

HealthInv == LoopsMatchFlag /\ HealthTrue

\* Calls that do not overlap keep `_health` true of the node.
LEMMA HealthInvStep == Exclusive /\ LoopInv /\ HealthInv /\ [Next]_vars => HealthInv'
<1> SUFFICES ASSUME Exclusive, LoopInv, HealthInv, [Next]_vars PROVE HealthInv'
  OBVIOUS
<1> USE LifecycleAssumption
<1>0. /\ TypeOK /\ PausedNotRunning /\ NoStrayLoop
      /\ LoopsMatchFlag /\ HealthTrue
      /\ \A x \in Actors : pc[x] = "init" => running /\ NoLiveLoop
  BY DEF LoopInv, InitAlone, HealthInv
<1>1. ASSUME NEW a \in Actors, MayCall(a)
      PROVE  /\ \A x \in Actors : pc[x] \notin InCall
             /\ ~running => NoLiveLoop
             /\ ~SlotLive => NoLiveLoop
  BY <1>1 DEF MayCall, Suspended, InCall, Cancelling, LoopInv, QuietUnlessCancelling,
              NoStrayLoop, SlotLive, NoLiveLoop
\* A new loop on a node without one.
<1>2. ASSUME NoLiveLoop, running', Spawn PROVE HealthInv'
  <2>1. PICK t \in Loops : /\ slot' = t /\ health' = "healthy"
                           /\ loop' = [loop EXCEPT ![t] = "process"]
    BY <1>2 DEF Spawn, FreeLoops
  <2>2. \A u \in Loops : loop'[u] = IF u = t THEN "process" ELSE "done"
    BY <1>0, <1>2, <2>1 DEF TypeOK, NoLiveLoop, LiveLoop
  <2> QED
    BY <1>2, <2>1, <2>2 DEF HealthInv, LoopsMatchFlag, HealthTrue, SlotLive, LiveLoop
\* A node without a loop that is left so.
<1>3. ASSUME NoLiveLoop, loop' = loop,
             \/ health' \in {"error", "stopped"}
             \/ health' = "paused" /\ paused'
             \/ health' = "starting" /\ \E a \in Actors : pc'[a] = "init"
      PROVE  HealthInv'
  BY <1>0, <1>3 DEF HealthInv, LoopsMatchFlag, HealthTrue, NoLiveLoop, LiveLoop, TypeOK
\* A step that touches neither the flags nor the loops, and leaves no init().
<1>4. ASSUME UNCHANGED <<running, paused, health, slot, loop>>,
             \A x \in Actors : pc[x] = "init" => pc'[x] = "init"
      PROVE  HealthInv'
  BY <1>0, <1>4 DEF HealthInv, LoopsMatchFlag, HealthTrue, SlotLive, LiveLoop
\* A step that touches the listeners only, taken when no init() waits.
<1>5. ASSUME UNCHANGED <<running, paused, health, loop>>, slot' = slot \/ NoLiveLoop,
             \A x \in Actors : pc[x] # "init"
      PROVE  HealthInv'
  BY <1>0, <1>5 DEF HealthInv, LoopsMatchFlag, HealthTrue, SlotLive, LiveLoop, NoLiveLoop
<1>6. ASSUME NEW a \in Actors, Start(a) \/ Resume(a) PROVE HealthInv'
  <2>1. MayCall(a) /\ StartNode(a) /\ ~running
    BY <1>0, <1>6 DEF Start, Resume, PausedNotRunning
  <2>2. NoLiveLoop /\ pc[a] # "off" /\ wired \in SUBSET Pipes
    BY <1>0, <1>1, <2>1 DEF MayCall, TypeOK
  <2>3. CASE running' = TRUE /\ Spawn
    BY <1>2, <2>2, <2>3
  <2>4. CASE health' = "error" /\ UNCHANGED loopVars
    BY <1>3, <2>2, <2>4 DEF loopVars
  <2>5. CASE health' = "starting" /\ EnsureListeners(wired, a, "init") /\ UNCHANGED loopVars
    <3>1. "init" \in ClientStates /\ "init" \in ListenerStates
      BY DEF ClientStates, ListenerStates, InCall
    <3>2. pc'[a] = "init"
      BY <1>0, <2>2, <2>5, <3>1, EnsureListenersEffect
    <3> QED
      BY <1>3, <2>2, <2>5, <3>2 DEF loopVars
  <2> QED
    BY <2>1, <2>3, <2>4, <2>5 DEF StartNode
<1>7. ASSUME NEW a \in Actors, InitDone(a) PROVE HealthInv'
  BY <1>0, <1>2, <1>7 DEF InitDone
<1>8. ASSUME NEW a \in Actors, InitFailed(a) \/ InitCancelled(a) PROVE HealthInv'
  BY <1>0, <1>3, <1>8 DEF InitFailed, InitCancelled, loopVars
<1>9. ASSUME NEW a \in Actors, Stop(a) \/ Pause(a) PROVE HealthInv'
  <2>1. /\ MayCall(a) /\ ~running'
        /\ health' = "stopped" \/ (health' = "paused" /\ paused')
    BY <1>9 DEF Stop, Pause
  <2>2. CASE SlotLive
    <3>1. slot \in Loops /\ loop' = [loop EXCEPT ![slot] = "cancelling"]
      BY <1>9, <2>2 DEF Stop, Pause, CancelLoop, SlotLive
    <3>2. \A u \in Loops : loop'[u] \in {"cancelling", "done"}
      BY <1>0, <3>1 DEF NoStrayLoop, LiveLoop, TypeOK
    <3> QED
      BY <2>1, <3>2 DEF HealthInv, LoopsMatchFlag, HealthTrue
  <2>3. CASE ~SlotLive
    BY <1>1, <1>3, <1>9, <2>1, <2>3 DEF Stop, Pause
  <2> QED
    BY <2>2, <2>3
<1>10. ASSUME NEW a \in Actors, StopTaskDone(a) \/ PauseDone(a) PROVE HealthInv'
  <2>1. Suspended(a) /\ Cancelling(a) /\ \A t \in waits[a] : ~LiveLoop(t)
    BY <1>10 DEF StopTaskDone, PauseDone, Suspended, InCall, Cancelling
  <2>2. NoLiveLoop
    BY <2>1 DEF LoopInv, AwaitsSlot, NoStrayLoop, NoLiveLoop
  <2>3. \A x \in Actors : pc[x] # "init"
    BY <2>1 DEF LoopInv, OneCall, Suspended, Cancelling, InCall
  <2> QED
    BY <1>5, <1>10, <2>2, <2>3 DEF StopTaskDone, PauseDone, nodeVars
<1>11. ASSUME NEW a \in Actors, StopListenersDone(a) PROVE HealthInv'
  BY <1>0, <1>4, <1>11 DEF StopListenersDone, nodeVars, loopVars, TypeOK
<1>12. ASSUME NEW c \in Clients, NEW p \in Pipes, Wire(c, p) \/ Unwire(c, p)
       PROVE  HealthInv'
  <2>1. MayCall(c) /\ c \in Actors /\ UNCHANGED <<nodeVars, loopVars>>
    BY <1>12 DEF Wire, Unwire, Actors
  <2> QED
    BY <1>1, <1>5, <2>1 DEF nodeVars, loopVars, InCall
<1>13. ASSUME NEW c \in Clients, UnwireDone(c) PROVE HealthInv'
  BY <1>0, <1>4, <1>13 DEF UnwireDone, nodeVars, loopVars, Actors, TypeOK
<1>14. ASSUME NEW l \in Listeners, ListenerStep(l) PROVE HealthInv'
  <2>1. /\ l \in Actors /\ pc[l] = "get" /\ pc' = [pc EXCEPT ![l] = "off"]
        /\ UNCHANGED <<nodeVars, loopVars>>
    BY <1>14 DEF ListenerStep, ListenerExited, ListenerCancelled, ListenerBroke, MayCall,
                 Actors, LifecycleAssumption
  <2> QED
    BY <1>0, <1>4, <2>1 DEF nodeVars, loopVars, TypeOK
<1>15. ASSUME NEW t \in Loops, LoopStep(t) PROVE HealthInv'
  <2>1. /\ LiveLoop(t) /\ t = slot /\ UNCHANGED <<running, paused, slot, pc>>
        /\ \A x \in Actors : pc[x] # "init"
        /\ \A u \in Loops : u # t => ~LiveLoop(u)
    <3>1. LiveLoop(t) /\ UNCHANGED <<running, paused, slot, pc>>
      BY <1>15 DEF LoopStep, LoopReturned, LoopRaised, LoopRetried, LoopCancelled,
                   LiveLoop, nodeVars
    <3> QED
      BY <1>0, <3>1 DEF NoStrayLoop, NoLiveLoop
  <2>2. health # "starting"
    BY <1>0, <2>1 DEF HealthTrue
  <2>3. CASE LoopReturned(t)
    BY <1>0, <2>1, <2>2, <2>3
       DEF LoopReturned, EndedHealth, HealthInv, LoopsMatchFlag, HealthTrue, SlotLive,
           LiveLoop, TypeOK
  <2>4. CASE LoopRaised(t)
    <3>1. running
      BY <1>0, <2>4 DEF LoopRaised, LoopsMatchFlag
    <3> QED
      BY <1>0, <2>1, <2>4, <3>1
         DEF LoopRaised, HealthInv, LoopsMatchFlag, HealthTrue, SlotLive, LiveLoop, TypeOK
  <2>5. CASE LoopRetried(t)
    BY <1>0, <2>1, <2>2, <2>5
       DEF LoopRetried, nodeVars, HealthInv, LoopsMatchFlag, HealthTrue, SlotLive,
           LiveLoop, TypeOK
  <2>6. CASE LoopCancelled(t)
    <3>1. ~running
      BY <1>0, <2>6 DEF LoopCancelled, LoopsMatchFlag
    <3> QED
      BY <1>0, <2>1, <2>2, <2>6, <3>1
         DEF LoopCancelled, EndedHealth, HealthInv, LoopsMatchFlag, HealthTrue, SlotLive,
             LiveLoop, TypeOK
  <2> QED
    BY <1>15, <2>3, <2>4, <2>5, <2>6 DEF LoopStep
<1>16. CASE UNCHANGED vars
  BY <1>4, <1>16 DEF vars, nodeVars, loopVars
<1> QED
  BY <1>6, <1>7, <1>8, <1>9, <1>10, <1>11, <1>12, <1>13, <1>14, <1>15, <1>16
     DEF Next, Call, Resumption

\* When calls do not overlap, what the editor shows of a settled node is so.
THEOREM HealthIsHonest == ASSUME Exclusive PROVE Spec => []HealthHonest
<1>1. Init => HealthInv
  BY DEF Init, HealthInv, LoopsMatchFlag, HealthTrue
<1>2. HealthInv => HealthHonest
  BY DEF HealthInv, HealthTrue, HealthHonest, Settled, Suspended, InCall
<1> QED
  BY <1>1, <1>2, LoopInvariant, HealthInvStep, PTL DEF Spec
=============================================================================
