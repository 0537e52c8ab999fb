------------------------ MODULE SessionEngine_proofs ------------------------
(***************************************************************************)
(* Proofs about SessionEngine, for any graph and any set of runs.          *)
(*                                                                         *)
(* The variables stay well typed whatever calls overlap.  When one client  *)
(* calls the session, no init() suspends and a paused session is resumed   *)
(* rather than started (OneClient), a session has one run at a time, stop  *)
(* and pause reach every process loop and leave none behind, and the       *)
(* registry has the engine's instances until the session is deleted, and   *)
(* none of them afterwards.  However many clients call it and however      *)
(* slowly its nodes start, a session that reads "running" once everything  *)
(* has settled is one: its newest run supervises with all nodes started.   *)
(***************************************************************************)
EXTENDS SessionEngine, WellFoundedInduction, NaturalsInduction, TLAPS

Flags     == {"new", "init", "running", "paused", "stopped", "failed"}
PcStates  == {"ready", "stop", "delete", "pause", "reap"}

-----------------------------------------------------------------------------
(* The type invariant.                                                     *)

\* A run that awaits an init() knows whose.
TypeInv == TypeOK /\ \A r \in Runs : phase[r] = "starting" => at[r] \in Nodes

\* Among the nodes still to be started there is a first one whose init() waits.
LEMMA FirstSlow ==
  ASSUME NEW I, I \subseteq Nat, I # {}
  PROVE  (CHOOSE i \in I : \A j \in I : i <= j) \in I
<1> DEFINE Less == {p \in Nat \X Nat : p[1] < p[2]}
<1>1. IsWellFoundedOn(Less, Nat)
  BY NatLessThanWellFounded DEF OpToRel
<1>2. PICK i \in I : \A j \in I : <<j, i>> \notin Less
  <2> HIDE DEF Less
  <2> QED BY <1>1, WFMin
<1>3. ASSUME NEW j \in I PROVE i <= j
  <2>1. <<j, i>> \notin Less
    BY <1>2
  <2>2. ~(j < i)
    BY <2>1
  <2> QED BY <2>2
<1>4. \E k \in I : \A j \in I : k <= j
  BY <1>3
<1> QED BY <1>4

\* Starting the nodes from k on.
LEMMA StartFromType ==
  ASSUME SessionAssumption, TypeInv, NEW r \in Runs, NEW k \in 1..(NodeCount + 1),
         NEW built \in [Instances -> Flags], NEW inits \in SUBSET Nodes,
         StartFrom(r, k, built, inits)
  PROVE  /\ flag' \in [Instances -> Flags]
         /\ alive' \subseteq Instances
         /\ slot' \subseteq Instances
         /\ phase' \in [Runs -> Phases]
         /\ at' \in [Runs -> Nodes \cup {0}]
         /\ \A q \in Runs : phase'[q] = "starting" => at'[q] \in Nodes
<1> DEFINE slow == {n \in SlowNodes : n >= k}
           last == IF slow = {} THEN NodeCount
                   ELSE (CHOOSE n \in slow : \A m \in slow : n <= m) - 1
           first == CHOOSE n \in slow : \A m \in slow : n <= m
<1>1. NodeCount \in Nat /\ SlowNodes \subseteq Nodes
  BY DEF SessionAssumption
<1>2. Nodes \subseteq Nat /\ k \in Nat
  BY <1>1 DEF Nodes
<1>3. slow # {} => first \in slow
  <2>1. slow \subseteq Nat
    BY <1>1, <1>2
  <2> HIDE DEF slow
  <2> QED
    BY <2>1, FirstSlow
<1>4. /\ slow = {} => last = NodeCount
      /\ slow # {} => first \in Nodes /\ first >= k /\ last = first - 1
  BY <1>1, <1>3
<1>5. slow = {} \/ last + 1 \in Nodes
  <2> HIDE DEF last, first, slow
  <2> QED BY <1>1, <1>2, <1>4 DEF Nodes
<1>6. last \in Nat /\ k..last \subseteq Nodes
  <2> HIDE DEF last, first, slow
  <2> QED BY <1>1, <1>2, <1>4 DEF Nodes
<1>7. PICK failed \in SUBSET (k..last) :
        LET begun == {<<r, n>> : n \in ((k..last) \ failed) \cup inits} IN
        /\ flag' = [i \in Instances |->
                      IF i[1] = r /\ i[2] \in failed THEN "failed"
                      ELSE IF i[1] = r /\ i[2] \in k..last THEN "running"
                      ELSE IF i = <<r, last + 1>> THEN "init" ELSE built[i]]
        /\ NewLoops(begun)
        /\ phase' = [phase EXCEPT ![r] = IF slow = {} THEN "supervising" ELSE "starting"]
        /\ at' = [at EXCEPT ![r] = IF slow = {} THEN 0 ELSE last + 1]
  BY DEF StartFrom
<1> HIDE DEF slow, last
<1>8. flag' \in [Instances -> Flags]
  BY <1>7 DEF Flags
<1>9. {<<r, n>> : n \in ((k..last) \ failed) \cup inits} \subseteq Instances
  BY <1>6 DEF Instances
<1>10. alive' \subseteq Instances /\ slot' \subseteq Instances
  BY <1>7, <1>9 DEF NewLoops, TypeInv, TypeOK
<1>11. /\ phase' \in [Runs -> Phases]
      /\ at' \in [Runs -> Nodes \cup {0}]
      /\ \A q \in Runs : phase'[q] = "starting" => at'[q] \in Nodes
  BY <1>5, <1>7 DEF TypeInv, TypeOK, Phases
<1> QED
  BY <1>8, <1>10, <1>11

\* Ending the loops of some instances.
LEMMA CancelLoopsType ==
  ASSUME TypeOK, NEW a \in Callers \cup Runs, NEW I \in SUBSET Instances, CancelLoops(a, I)
  PROVE  /\ alive' \subseteq Instances /\ dying' \subseteq Instances
         /\ slot' \subseteq Instances
         /\ wait' \in [Callers \cup Runs -> SUBSET Instances]
BY DEF CancelLoops, TypeOK

\* Every step keeps the variables well typed.
LEMMA TypeStep == TypeInv /\ [Next]_vars => TypeInv'
<1> SUFFICES ASSUME TypeInv, [Next]_vars PROVE TypeInv'
  OBVIOUS
<1> USE SessionAssumption
<1>0. TypeOK /\ (\A r \in Runs : phase[r] = "starting" => at[r] \in Nodes)
      /\ Current \subseteq Instances
  BY DEF TypeInv, TypeOK, Current, Instances
<1>1. ASSUME NEW h \in Handlers, Start(h) PROVE TypeInv'
  <2>1. PICK r \in FreeRuns :
          /\ task' = r
          /\ phase' = [phase EXCEPT ![r] = "created"]
          /\ flag' = [i \in Instances |-> IF i[1] = r THEN "new" ELSE flag[i]]
          /\ slot' = {i \in slot : i[1] # r}
    BY <1>1 DEF Start
  <2>2. r \in Runs
    BY DEF FreeRuns
  <2>3. /\ phase' \in [Runs -> Phases]
        /\ \A q \in Runs : phase'[q] = "starting" => phase[q] = "starting"
    BY <1>0, <2>1, <2>2 DEF TypeOK, Phases
  <2>4. flag' \in [Instances -> {"new", "init", "running", "paused", "stopped", "failed"}]
    BY <1>0, <2>1 DEF TypeOK
  <2> QED
    BY <1>0, <1>1, <2>1, <2>2, <2>3, <2>4 DEF Start, TypeInv, TypeOK, engineVars, callVars
<1>2. ASSUME NEW h \in Handlers, Stop(h) \/ Delete(h) PROVE TypeInv'
  <2>1. h \in Callers /\ (TaskUnfinished => task \in Runs)
    BY DEF TaskUnfinished, Callers
  <2>2. CASE TaskUnfinished /\ \E where \in {"stop", "delete"} : StopSession(h, where)
    <3>1. /\ status' = "stopped" /\ cancelled' \subseteq Runs
          /\ pc' \in [Callers -> {"ready", "stop", "delete", "pause", "reap"}]
          /\ joins' \in [Callers -> Runs \cup {None}]
      BY <1>0, <2>1, <2>2 DEF StopSession, TypeOK
    <3>2. UNCHANGED <<task, deleted, registered, phase, at, owner, evicted, nodeVars, wait>>
      BY <1>2, <2>2 DEF Stop, Delete, engineVars
    <3> QED
      BY <1>0, <3>1, <3>2 DEF TypeInv, TypeOK, nodeVars
  <2>3. CASE UNCHANGED <<cancelled, pc, joins>>
    BY <1>0, <1>2, <2>3
       DEF Stop, Delete, StopSession, Forget, TypeInv, TypeOK, engineVars, nodeVars
  <2> QED
    BY <1>2, <2>2, <2>3 DEF Stop, Delete
<1>3. ASSUME NEW c \in Callers, CallStep(c) PROVE TypeInv'
  <2>1. CASE StopReturns(c)
    BY <1>0, <2>1 DEF StopReturns, TypeInv, TypeOK, sessionVars, runVars, engineVars, nodeVars
  <2>2. CASE PauseReturns(c)
    BY <1>0, <2>2 DEF PauseReturns, TypeInv, TypeOK, sessionVars, runVars, engineVars, nodeVars
  <2>3. CASE DeleteReturns(c)
    <3>1. pc' \in [Callers -> {"ready", "stop", "delete", "pause", "reap"}]
      BY <1>0, <2>3 DEF DeleteReturns, TypeOK
    <3>2. joins' \in [Callers -> Runs \cup {None}]
      BY <1>0, <2>3 DEF DeleteReturns, TypeOK
    <3>3. registered' \in [Nodes -> Runs \cup {None}] /\ deleted' \in BOOLEAN
      BY <2>3 DEF DeleteReturns, Forget
    <3> QED
      BY <1>0, <2>3, <3>1, <3>2, <3>3 DEF DeleteReturns, TypeInv, TypeOK, runVars, nodeVars
  <2> QED
    BY <1>3, <2>1, <2>2, <2>3 DEF CallStep
<1>4. ASSUME NEW h \in Handlers, Pause(h) PROVE TypeInv'
  <2> DEFINE I == {i \in Current : flag[i] = "running"}
  <2>1. /\ flag' = [i \in Instances |-> IF i \in I THEN "paused" ELSE flag[i]]
        /\ CancelLoops(h, I)
        /\ pc' = [pc EXCEPT ![h] = "pause"]
        /\ status' = "paused"
        /\ UNCHANGED <<task, deleted, runVars, engineVars, joins>>
    BY <1>4 DEF Pause
  <2>2. I \in SUBSET Instances /\ h \in Callers
    BY <1>0 DEF Callers
  <2>3. flag' \in [Instances -> {"new", "init", "running", "paused", "stopped", "failed"}]
    BY <1>0, <2>1 DEF TypeOK
  <2>4. /\ alive' \subseteq Instances /\ dying' \subseteq Instances
        /\ slot' \subseteq Instances
        /\ wait' \in [Callers \cup Runs -> SUBSET Instances]
    BY <1>0, <2>1, <2>2, CancelLoopsType
  <2>5. pc' \in [Callers -> {"ready", "stop", "delete", "pause", "reap"}]
    BY <1>0, <2>1 DEF TypeOK
  <2> QED
    BY <1>0, <2>1, <2>3, <2>4, <2>5 DEF TypeInv, TypeOK, runVars, engineVars
<1>5. ASSUME NEW h \in Handlers, Resume(h) PROVE TypeInv'
  <2>1. flag' \in [Instances -> {"new", "init", "running", "paused", "stopped", "failed"}]
    BY <1>0, <1>5 DEF Resume, TypeOK
  <2>2. alive' \subseteq Instances /\ slot' \subseteq Instances
    BY <1>0, <1>5 DEF Resume, NewLoops, TypeOK
  <2> QED
    BY <1>0, <1>5, <2>1, <2>2 DEF Resume, TypeInv, TypeOK, runVars, engineVars, callVars
<1>6. ASSUME NEW h \in Handlers, Drop(h) PROVE TypeInv'
  BY <1>0, <1>6 DEF Drop, Forget, TypeInv, TypeOK, runVars, nodeVars, Callers
<1>7. CASE Reap
  <2>1. TaskUnfinished => task \in Runs
    BY DEF TaskUnfinished
  <2> QED
    BY <1>0, <1>7, <2>1
       DEF Reap, StopSession, TypeInv, TypeOK, engineVars, nodeVars, Callers
<1>8. ASSUME NEW r \in Runs, RunBegins(r) PROVE TypeInv'
  <2>1. /\ owner' \in [Nodes -> Runs \cup {None}]
        /\ registered' \in [Nodes -> Runs \cup {None}]
        /\ evicted' \subseteq Instances
    BY <1>0, <1>8 DEF RunBegins, TypeOK
  <2>2. /\ 1 \in 1..(NodeCount + 1) /\ {} \in SUBSET Nodes
        /\ flag \in [Instances -> Flags] /\ StartFrom(r, 1, flag, {})
    BY <1>0, <1>8 DEF RunBegins, TypeOK, Flags, SessionAssumption
  <2>3. /\ flag' \in [Instances -> Flags]
        /\ alive' \subseteq Instances
        /\ slot' \subseteq Instances
        /\ phase' \in [Runs -> Phases]
        /\ at' \in [Runs -> Nodes \cup {0}]
        /\ \A q \in Runs : phase'[q] = "starting" => at'[q] \in Nodes
    BY <2>2, StartFromType
  <2> QED
    BY <1>0, <1>8, <2>1, <2>3
       DEF RunBegins, TypeInv, TypeOK, Flags, sessionVars, callVars
<1>9. ASSUME NEW r \in Runs, RunFails(r) PROVE TypeInv'
  <2>1. /\ owner' \in [Nodes -> Runs \cup {None}]
        /\ registered' \in [Nodes -> Runs \cup {None}]
        /\ evicted' \subseteq Instances
    BY <1>0, <1>9 DEF RunFails, TypeOK
  <2>2. /\ phase' \in [Runs -> Phases]
        /\ \A q \in Runs : phase'[q] = "starting" => phase[q] = "starting"
    BY <1>0, <1>9 DEF RunFails, TypeOK, Phases
  <2> QED
    BY <1>0, <1>9, <2>1, <2>2
       DEF RunFails, TypeInv, TypeOK, nodeVars, callVars
<1>10. ASSUME NEW r \in Runs, InitDone(r) PROVE TypeInv'
  <2> DEFINE i == <<r, at[r]>>
             was == IF flag[i] = "init" THEN "running" ELSE flag[i]
  <2>1. at[r] \in Nodes /\ i \in Instances
    BY <1>0, <1>10 DEF InitDone, Instances
  <2>2. /\ at[r] + 1 \in 1..(NodeCount + 1)
        /\ {at[r]} \in SUBSET Nodes /\ {} \in SUBSET Nodes
    BY <2>1 DEF Nodes, SessionAssumption
  <2>3. /\ [flag EXCEPT ![i] = was] \in [Instances -> Flags]
        /\ [flag EXCEPT ![i] = "failed"] \in [Instances -> Flags]
    BY <1>0, <2>1 DEF TypeOK, Flags
  <2>4. \/ StartFrom(r, at[r] + 1, [flag EXCEPT ![i] = was], {at[r]})
        \/ StartFrom(r, at[r] + 1, [flag EXCEPT ![i] = "failed"], {})
    BY <1>10 DEF InitDone
  <2>5. /\ flag' \in [Instances -> Flags]
        /\ alive' \subseteq Instances
        /\ slot' \subseteq Instances
        /\ phase' \in [Runs -> Phases]
        /\ at' \in [Runs -> Nodes \cup {0}]
        /\ \A q \in Runs : phase'[q] = "starting" => at'[q] \in Nodes
    <3> HIDE DEF i, was
    <3> QED
      BY <2>2, <2>3, <2>4, StartFromType
  <2> QED
    BY <1>0, <1>10, <2>5
       DEF InitDone, TypeInv, TypeOK, Flags, sessionVars, engineVars, callVars
<1>11. ASSUME NEW r \in Runs, CancelledEarly(r) PROVE TypeInv'
  <2>1. flag' \in [Instances -> {"new", "init", "running", "paused", "stopped", "failed"}]
    BY <1>0, <1>11 DEF CancelledEarly, TypeOK
  <2>2. /\ phase' \in [Runs -> Phases] /\ at' \in [Runs -> Nodes \cup {0}]
        /\ \A q \in Runs : phase'[q] = "starting" => at'[q] \in Nodes
    BY <1>0, <1>11 DEF CancelledEarly, TypeOK, Phases
  <2> QED
    BY <1>0, <1>11, <2>1, <2>2
       DEF CancelledEarly, TypeInv, TypeOK, engineVars, callVars
<1>12. ASSUME NEW r \in Runs, StopAll(r) \/ PumpsDone(r) \/ StopAllCancelled(r) \/ RunEnds(r)
       PROVE  TypeInv'
  <2>1. /\ phase' \in [Runs -> Phases]
        /\ \A q \in Runs : phase'[q] = "starting" => phase[q] = "starting"
    BY <1>0, <1>12 DEF StopAll, PumpsDone, StopAllCancelled, RunEnds, TypeOK, Phases
  <2>2. wait' \in [Callers \cup Runs -> SUBSET Instances]
    BY <1>0, <1>12
       DEF StopAll, PumpsDone, StopAllCancelled, RunEnds, TypeOK, callVars
  <2> QED
    BY <1>0, <1>12, <2>1, <2>2
       DEF StopAll, PumpsDone, StopAllCancelled, RunEnds, TypeInv, TypeOK,
           sessionVars, engineVars, nodeVars, callVars
<1>13. ASSUME NEW a \in Callers \cup Runs, NEW I \in SUBSET Instances, StopNodes(a, I)
       PROVE  /\ flag' \in [Instances -> {"new", "init", "running", "paused", "stopped",
                                          "failed"}]
              /\ alive' \subseteq Instances /\ dying' \subseteq Instances
              /\ slot' \subseteq Instances
              /\ wait' \in [Callers \cup Runs -> SUBSET Instances]
  BY <1>0, <1>13, CancelLoopsType DEF StopNodes, TypeOK
<1>14. ASSUME NEW r \in Runs, Dispatch(r) PROVE TypeInv'
  <2>1. wait[r] \in SUBSET Instances /\ StopNodes(r, wait[r])
    BY <1>0, <1>14 DEF Dispatch, TypeOK
  <2>2. /\ phase' \in [Runs -> Phases]
        /\ \A q \in Runs : phase'[q] = "starting" => phase[q] = "starting"
    BY <1>0, <1>14 DEF Dispatch, TypeOK, Phases
  <2> QED
    BY <1>0, <1>13, <1>14, <2>1, <2>2
       DEF Dispatch, TypeInv, TypeOK, sessionVars, engineVars
<1>15. ASSUME NEW i \in Instances, EvictedStops(i) PROVE TypeInv'
  <2>1. Background \in Callers /\ {i} \in SUBSET Instances /\ StopNodes(Background, {i})
    BY <1>15 DEF EvictedStops, Callers
  <2> QED
    BY <1>0, <1>13, <1>15, <2>1
       DEF EvictedStops, TypeInv, TypeOK, sessionVars, runVars
<1>16. ASSUME NEW i \in Instances, LoopEnds(i) \/ LoopDies(i) PROVE TypeInv'
  BY <1>0, <1>16 DEF LoopEnds, LoopDies, TypeInv, TypeOK, sessionVars, runVars,
                     engineVars, callVars
<1>17. ASSUME NEW a \in Callers \cup Runs, NEW i \in Instances, LoopAwaited(a, i)
       PROVE  TypeInv'
  BY <1>0, <1>17 DEF LoopAwaited, TypeInv, TypeOK, sessionVars, runVars, engineVars
<1>18. CASE UNCHANGED vars
  BY <1>0, <1>18 DEF vars, sessionVars, runVars, engineVars, nodeVars, callVars,
                     TypeInv, TypeOK
<1> QED
  BY <1>1, <1>2, <1>3, <1>4, <1>5, <1>6, <1>7, <1>8, <1>9, <1>10, <1>11, <1>12, <1>14,
     <1>15, <1>16, <1>17, <1>18 DEF Next, HandlerCall, RunStep

\* A session just created is well typed.
LEMMA InitTyped == Init => TypeInv
<1> SUFFICES ASSUME Init PROVE TypeInv
  OBVIOUS
<1>1. \A r \in Runs : phase[r] = "none"
  BY DEF Init
<1>2. phase \in [Runs -> Phases] /\ at \in [Runs -> Nodes \cup {0}]
  BY DEF Init, Phases
<1>3. flag \in [Instances -> {"new", "init", "running", "paused", "stopped", "failed"}]
  BY DEF Init
<1>4. /\ owner \in [Nodes -> Runs \cup {None}]
      /\ registered \in [Nodes -> Runs \cup {None}]
  BY DEF Init
<1>5. wait \in [Callers \cup Runs -> SUBSET Instances]
  BY DEF Init
<1>6. /\ pc \in [Callers -> {"ready", "stop", "delete", "pause", "reap"}]
      /\ joins \in [Callers -> Runs \cup {None}]
  BY DEF Init
<1> QED
  BY <1>1, <1>2, <1>3, <1>4, <1>5, <1>6 DEF Init, TypeInv, TypeOK

\* The type invariant, for all calls however they overlap.
THEOREM SessionTyped == Spec => []TypeOK
<1>1. TypeInv => TypeOK
  BY DEF TypeInv
<1> QED
  BY <1>1, InitTyped, TypeStep, PTL DEF Spec

-----------------------------------------------------------------------------
(* One client.  Each part of the invariant is about one of the things the  *)
(* properties relate: who waits for which run, where the run is, whose the *)
(* instances are, and which loops they have.                               *)

OneClient ==
  /\ \A g, h \in Handlers : g = h
  /\ SlowNodes = {} /\ ~StartsPaused
  /\ {"pause", "drop"} \subseteq Patient

\* Some caller awaits the end of run r.
Asked(r) == \E c \in Callers : pc[c] \in {"stop", "delete", "reap"} /\ joins[c] = r

CallsInv ==
  /\ \A c \in Callers :
       pc[c] \in {"stop", "delete"} \/ (pc[c] = "reap" /\ joins[c] # None)
         => joins[c] = task
  /\ \A c \in Callers : pc[c] \in {"ready", "pause"} => joins[c] = None
  /\ pc[Background] \in {"ready", "reap"}
  /\ pc[Background] = "reap" => deleted /\ \A h \in Handlers : pc[h] = "ready"
  /\ \A h \in Handlers : /\ pc[h] # "reap"
                         /\ pc[h] = "pause" => ~deleted /\ status = "paused"
  /\ \A c \in Callers : pc[c] # "pause" => wait[c] = {}

RunsInv ==
  /\ \A r \in Runs : Unfinished(r) => r = task
  /\ \A r \in Runs : phase[r] # "starting"
  /\ \A r \in cancelled : phase[r] \in {"created", "supervising"}
  /\ \A r \in Runs :
       r \in cancelled \/ phase[r] \in {"pumps", "dispatch", "stopping"} => Asked(r)
  /\ status \notin {"running", "paused"} =>
       \A r \in Runs : Unfinished(r) => Asked(r)
  /\ ~deleted /\ status \in {"running", "paused"} =>
       /\ task \in Runs
       /\ phase[task] \in {"created", "supervising"}
       /\ status = "paused" => phase[task] = "supervising"
       /\ cancelled = {}
  /\ deleted => \A r \in Runs : phase[r] # "created"

\* The phases in which the instances of a run may have loops.
Shown == {"supervising", "pumps", "dispatch"}

NodesInv ==
  /\ \A i \in Instances : /\ flag[i] # "init"
                          /\ flag[i] \in {"running", "paused"} =>
                               i[1] = task /\ phase[i[1]] \in Shown
  /\ \A r \in Runs : phase[r] \in Shown => \A n \in Nodes : owner[n] = r
  /\ \A r \in Runs : phase[r] = "dispatch" => wait[r] = Current
  /\ evicted = {}
  /\ ~deleted => registered = owner
  /\ deleted => \A n \in Nodes : registered[n] = None

LoopsInv ==
  /\ \A i \in alive : i \in slot /\ flag[i] = "running"
  /\ status = "paused" => alive = {}
  /\ \A i \in dying : \E a \in Callers \cup Runs :
       i \in wait[a] /\ (a \in Runs => phase[a] = "stopping")
  /\ \A i \in alive : \A a \in Callers \cup Runs :
       i \in wait[a] => a \in Runs /\ phase[a] # "stopping"

SoleInv == CallsInv /\ RunsInv /\ NodesInv /\ LoopsInv

\* With no init() that suspends, a run starts all its nodes at once.
LEMMA StartsAll ==
  ASSUME SessionAssumption, TypeOK, SlowNodes = {}, NEW r \in Runs, StartFrom(r, 1, flag, {})
  PROVE  \E failed \in SUBSET Nodes :
           LET begun == {<<r, n>> : n \in Nodes \ failed} IN
           /\ flag' = [i \in Instances |->
                         IF i[1] = r THEN IF i[2] \in failed THEN "failed" ELSE "running"
                         ELSE flag[i]]
           /\ alive' = alive \cup begun
           /\ slot' = slot \cup begun
           /\ phase' = [phase EXCEPT ![r] = "supervising"]
<1> DEFINE slow == {n \in SlowNodes : n >= 1}
           last == IF slow = {} THEN NodeCount
                   ELSE (CHOOSE n \in slow : \A m \in slow : n <= m) - 1
<1>1. slow = {} /\ last = NodeCount
  OBVIOUS
<1>2. PICK failed \in SUBSET (1..last) :
        LET begun == {<<r, n>> : n \in ((1..last) \ failed) \cup {}} IN
        /\ flag' = [i \in Instances |->
                      IF i[1] = r /\ i[2] \in failed THEN "failed"
                      ELSE IF i[1] = r /\ i[2] \in 1..last THEN "running"
                      ELSE IF i = <<r, last + 1>> THEN "init" ELSE flag[i]]
        /\ NewLoops(begun)
        /\ phase' = [phase EXCEPT ![r] = IF slow = {} THEN "supervising" ELSE "starting"]
  BY DEF StartFrom
<1> HIDE DEF slow, last
<1>3. NodeCount \in Nat
  BY DEF SessionAssumption
<1>4. \A i \in Instances : i[2] \in Nodes /\ i # <<r, NodeCount + 1>>
  BY <1>3 DEF Instances, Nodes
<1>5. flag' = [i \in Instances |->
                 IF i[1] = r THEN IF i[2] \in failed THEN "failed" ELSE "running"
                 ELSE flag[i]]
  BY <1>1, <1>2, <1>4 DEF Nodes
<1>6. ((1..NodeCount) \ failed) \cup {} = Nodes \ failed
  BY DEF Nodes
<1> QED
  BY <1>1, <1>2, <1>5, <1>6 DEF NewLoops, Nodes

\* What one client's call may rely on: nobody else is inside one.
LEMMA CallAlone ==
  ASSUME OneClient, TypeOK, SoleInv, NEW h \in Handlers, pc[h] = "ready", ~deleted
  PROVE  /\ \A c \in Callers : pc[c] = "ready" /\ wait[c] = {}
         /\ cancelled = {}
         /\ \A r \in Runs : phase[r] \notin {"pumps", "dispatch", "stopping", "starting"}
<1>1. \A c \in Callers : pc[c] = "ready"
  BY DEF OneClient, SoleInv, CallsInv, Callers
<1>2. \A r \in Runs : ~Asked(r)
  BY <1>1 DEF Asked
<1> QED
  BY <1>1, <1>2 DEF SoleInv, CallsInv, RunsInv, TypeOK

\* Without a run that supervises or has yet to stop its nodes, no instance runs.
LEMMA NoLoops ==
  ASSUME TypeOK, SoleInv, \A r \in Runs : phase[r] \notin Shown
  PROVE  alive = {} /\ \A i \in Instances : flag[i] \notin {"init", "running", "paused"}
<1>1. \A i \in Instances : i[1] \in Runs
  BY DEF Instances
<1>2. \A i \in Instances : flag[i] \notin {"init", "running", "paused"}
  BY <1>1 DEF SoleInv, NodesInv
<1> QED
  BY <1>2 DEF SoleInv, LoopsInv, TypeOK

\* Without a caller in pause() and a run in stop(), no loop is being cancelled.
LEMMA NoneDying ==
  ASSUME SoleInv, \A c \in Callers : wait[c] = {}, \A r \in Runs : phase[r] # "stopping"
  PROVE  dying = {}
BY DEF SoleInv, LoopsInv

\* Every step of a session with one client keeps the invariant.
LEMMA SoleInvStep == OneClient /\ TypeOK /\ SoleInv /\ [Next]_vars => SoleInv'
<1> SUFFICES ASSUME OneClient, TypeOK, SoleInv, [Next]_vars PROVE SoleInv'
  OBVIOUS
<1> USE SessionAssumption
<1>0. CallsInv /\ RunsInv /\ NodesInv /\ LoopsInv
  BY DEF SoleInv
<1>1. /\ Background \in Callers /\ Handlers \subseteq Callers /\ Background \notin Handlers
      /\ \A c \in Callers : c \notin Runs /\ (c = Background \/ c \in Handlers)
      /\ None \notin Runs
      /\ \A i \in Instances : i[1] \in Runs /\ i[2] \in Nodes /\ i = <<i[1], i[2]>>
  BY DEF Callers, Instances, SessionAssumption
<1>2. ASSUME NEW h \in Handlers, Start(h) PROVE SoleInv'
  <2>1. pc[h] = "ready" /\ ~deleted /\ status \notin {"running", "paused"}
    BY <1>2 DEF Start, MayCall, MayStart, OneClient
  <2>2. /\ \A c \in Callers : pc[c] = "ready" /\ wait[c] = {}
        /\ cancelled = {}
    BY <2>1, CallAlone
  <2>3. \A q \in Runs : ~Unfinished(q)
    BY <1>0, <2>1, <2>2 DEF RunsInv, Asked
  <2>4. /\ alive = {} /\ dying = {}
        /\ \A i \in Instances : flag[i] \notin {"init", "running", "paused"}
    BY <2>2, <2>3, NoLoops, NoneDying DEF Unfinished, Shown
  <2>5. PICK r \in Runs : /\ task' = r
                          /\ phase' = [phase EXCEPT ![r] = "created"]
                          /\ flag' = [i \in Instances |-> IF i[1] = r THEN "new" ELSE flag[i]]
    BY <1>2 DEF Start, FreeRuns
  <2>6. /\ status' = "running"
        /\ UNCHANGED <<deleted, at, cancelled, engineVars, alive, dying, callVars>>
    BY <1>2 DEF Start
  <2>7. \A q \in Runs : phase'[q] = IF q = r THEN "created" ELSE phase[q]
    BY <2>5 DEF TypeOK
  <2>8. CallsInv'
    BY <1>0, <1>1, <2>2, <2>6 DEF CallsInv, callVars
  <2>9. RunsInv'
    BY <2>1, <2>2, <2>3, <2>5, <2>6, <2>7 DEF RunsInv, Unfinished
  <2>10. NodesInv'
    BY <1>0, <2>1, <2>3, <2>4, <2>5, <2>6, <2>7 DEF NodesInv, Unfinished, Shown, engineVars
  <2>11. LoopsInv'
    BY <2>4, <2>6 DEF LoopsInv
  <2> QED
    BY <2>8, <2>9, <2>10, <2>11 DEF SoleInv
<1>3. ASSUME NEW h \in Handlers, Stop(h) \/ Delete(h) PROVE SoleInv'
  <2>1. pc[h] = "ready" /\ ~deleted
    BY <1>3 DEF Stop, Delete, MayCall
  <2>2. /\ \A c \in Callers : pc[c] = "ready" /\ wait[c] = {}
        /\ cancelled = {}
        /\ \A r \in Runs : phase[r] \notin {"pumps", "dispatch", "stopping", "starting"}
    BY <2>1, CallAlone
  <2>3. CASE TaskUnfinished
    <3>1. /\ task \in Runs /\ Unfinished(task)
          /\ status' = "stopped" /\ cancelled' = {task}
          /\ \E where \in {"stop", "delete"} : pc' = [pc EXCEPT ![h] = where]
          /\ joins' = [joins EXCEPT ![h] = task]
          /\ UNCHANGED <<task, deleted, registered, phase, owner, evicted, nodeVars, wait>>
      BY <1>3, <2>2, <2>3 DEF Stop, Delete, StopSession, TaskUnfinished, engineVars
    <3>2. phase[task] \in {"created", "supervising"}
      BY <2>2, <3>1 DEF Unfinished, TypeOK, Phases
    <3>3. /\ pc'[h] \in {"stop", "delete"} /\ joins'[h] = task
          /\ \A c \in Callers : c # h => pc'[c] = pc[c] /\ joins'[c] = joins[c]
      BY <1>1, <3>1 DEF TypeOK
    <3>4. CallsInv'
      BY <1>0, <1>1, <2>2, <3>1, <3>3 DEF CallsInv, OneClient
    <3>5. Asked(task)'
      BY <1>1, <3>1, <3>3 DEF Asked
    <3>6. RunsInv'
      BY <1>0, <2>1, <2>2, <3>1, <3>2, <3>5 DEF RunsInv, Unfinished
    <3>7. NodesInv' /\ LoopsInv'
      BY <1>0, <3>1 DEF NodesInv, LoopsInv, Current, nodeVars
    <3> QED
      BY <3>4, <3>6, <3>7 DEF SoleInv
  <2>4. CASE ~TaskUnfinished
    <3>1. \A r \in Runs : ~Unfinished(r)
      BY <1>0, <2>4 DEF RunsInv, TaskUnfinished
    <3>2. /\ UNCHANGED <<cancelled, pc, joins, task, phase, owner, evicted, nodeVars, wait>>
          /\ \/ status' = "stopped" /\ UNCHANGED <<deleted, registered>>
             \/ status' = status /\ deleted' /\ registered' = [n \in Nodes |-> None]
      BY <1>3, <2>4 DEF Stop, Delete, Forget, engineVars
    <3>3. CallsInv'
      BY <1>0, <1>1, <2>2, <3>2 DEF CallsInv
    <3>4. RunsInv'
      BY <1>0, <2>2, <3>1, <3>2 DEF RunsInv, Unfinished
    <3>5. NodesInv'
      BY <1>0, <3>2 DEF NodesInv, Current, nodeVars
    <3>6. LoopsInv'
      BY <1>0, <3>2 DEF LoopsInv, nodeVars
    <3> QED
      BY <3>3, <3>4, <3>5, <3>6 DEF SoleInv
  <2> QED
    BY <2>3, <2>4
<1>4. ASSUME NEW c \in Callers, StopReturns(c) \/ DeleteReturns(c) PROVE SoleInv'
  <2>1. pc[c] \in {"stop", "reap", "delete"} /\ joins[c] \in Runs /\ ~Unfinished(joins[c])
    BY <1>4 DEF StopReturns, DeleteReturns
  <2>2. joins[c] = task
    BY <1>0, <1>1, <2>1 DEF CallsInv
  <2>3. (\A r \in Runs : ~Unfinished(r)) /\ cancelled = {}
    BY <1>0, <2>1, <2>2 DEF RunsInv, Unfinished, TypeOK
  <2>4. ~TaskUnfinished
    BY <2>3 DEF TaskUnfinished
  <2>5. /\ UNCHANGED <<status, task, runVars, owner, evicted, nodeVars, wait>>
        /\ joins' = [joins EXCEPT ![c] = None]
        /\ \/ UNCHANGED <<deleted, registered>>
           \/ deleted' /\ registered' = [n \in Nodes |-> None] /\ pc[c] = "delete"
    BY <1>4 DEF StopReturns, DeleteReturns, Forget, sessionVars, engineVars
  <2>6. pc'[c] = "ready" /\ joins'[c] = None
    BY <1>0, <1>1, <1>4, <2>4, <2>5 DEF StopReturns, DeleteReturns, CallsInv, TypeOK
  <2>7. \A d \in Callers : d # c => pc'[d] = pc[d] /\ joins'[d] = joins[d]
    BY <1>4, <2>4, <2>5 DEF StopReturns, DeleteReturns, TypeOK
  <2>8. c = Background => ~(pc[c] = "delete")
    BY <1>0 DEF CallsInv
  <2>9. CallsInv'
    BY <1>0, <1>1, <2>1, <2>5, <2>6, <2>7, <2>8 DEF CallsInv, OneClient
  <2>10. RunsInv'
    BY <1>0, <2>3, <2>5 DEF RunsInv, Unfinished, runVars
  <2>11. NodesInv'
    BY <1>0, <2>5 DEF NodesInv, Current, nodeVars, runVars
  <2>12. LoopsInv'
    BY <1>0, <2>5 DEF LoopsInv, nodeVars, runVars
  <2> QED
    BY <2>9, <2>10, <2>11, <2>12 DEF SoleInv
<1>5. ASSUME NEW c \in Callers, PauseReturns(c) PROVE SoleInv'
  <2>1. /\ pc[c] = "pause" /\ wait[c] = {} /\ pc' = [pc EXCEPT ![c] = "ready"]
        /\ UNCHANGED <<sessionVars, runVars, engineVars, nodeVars, joins, wait>>
    BY <1>5 DEF PauseReturns
  <2>2. pc'[c] = "ready" /\ \A d \in Callers : d # c => pc'[d] = pc[d]
    BY <2>1 DEF TypeOK
  <2>3. \A r : Asked(r) => Asked(r)'
    BY <2>1, <2>2 DEF Asked
  <2>4. CallsInv'
    BY <1>0, <1>1, <2>1, <2>2 DEF CallsInv, sessionVars
  <2>5. RunsInv'
    BY <1>0, <2>1, <2>3 DEF RunsInv, Unfinished, sessionVars, runVars
  <2>6. NodesInv' /\ LoopsInv'
    BY <1>0, <2>1
       DEF NodesInv, LoopsInv, Current, sessionVars, runVars, engineVars, nodeVars
  <2> QED
    BY <2>4, <2>5, <2>6 DEF SoleInv
<1>6. ASSUME NEW h \in Handlers, Pause(h) PROVE SoleInv'
  <2> DEFINE I == {i \in Current : flag[i] = "running"}
             reached == I \cap slot \cap (alive \cup dying)
  <2>1. /\ pc[h] = "ready" /\ ~deleted /\ status = "running" /\ Settled
        /\ status' = "paused"
        /\ flag' = [i \in Instances |-> IF i \in I THEN "paused" ELSE flag[i]]
        /\ CancelLoops(h, I)
        /\ pc' = [pc EXCEPT ![h] = "pause"]
        /\ UNCHANGED <<task, deleted, runVars, engineVars, joins>>
    BY <1>6 DEF Pause, MayCall, OneClient
  <2>2. /\ \A c \in Callers : pc[c] = "ready" /\ wait[c] = {}
        /\ cancelled = {}
        /\ \A r \in Runs : phase[r] \notin {"pumps", "dispatch", "stopping", "starting"}
    BY <2>1, CallAlone
  <2>3. task \in Runs /\ phase[task] = "supervising" /\ dying = {}
    BY <1>0, <2>1, <2>2, NoneDying DEF RunsInv, Settled
  <2>4. alive \subseteq I \cap slot
    <3> SUFFICES ASSUME NEW i \in alive PROVE i \in I \cap slot
      OBVIOUS
    <3>1. i \in Instances /\ i \in slot /\ flag[i] = "running"
      BY <1>0 DEF LoopsInv, TypeOK
    <3>2. i[1] = task /\ owner[i[2]] = task
      BY <1>0, <1>1, <2>3, <3>1 DEF NodesInv, Shown
    <3>3. i \in Current
      BY <1>1, <2>3, <3>1, <3>2 DEF Current
    <3> QED
      BY <3>1, <3>3
  <2>5. reached = alive
    BY <2>3, <2>4
  <2>6. /\ alive' = {} /\ dying' = alive
        /\ wait' = [wait EXCEPT ![h] = (@ \ I) \cup reached]
    BY <2>1, <2>3, <2>5 DEF CancelLoops
  <2>7. wait'[h] = alive /\ \A a \in Callers \cup Runs : a # h => wait'[a] = wait[a]
    BY <1>1, <2>2, <2>5, <2>6 DEF TypeOK
  <2>8. pc'[h] = "pause" /\ \A c \in Callers : c # h => pc'[c] = pc[c]
    BY <1>1, <2>1 DEF TypeOK
  <2>9. CallsInv'
    BY <1>0, <1>1, <2>1, <2>2, <2>7, <2>8 DEF CallsInv, OneClient
  <2>10. RunsInv'
    BY <1>0, <2>1, <2>2, <2>3 DEF RunsInv, Unfinished, runVars
  <2>11. \A i \in Instances : flag'[i] = IF i \in I THEN "paused" ELSE flag[i]
    BY <2>1
  <2>12. NodesInv'
    BY <1>0, <2>1, <2>2, <2>11 DEF NodesInv, Current, runVars, engineVars
  <2>13. LoopsInv'
    BY <1>1, <2>6, <2>7 DEF LoopsInv
  <2> QED
    BY <2>9, <2>10, <2>12, <2>13 DEF SoleInv
<1>7. ASSUME NEW h \in Handlers, Resume(h) PROVE SoleInv'
  <2> DEFINE I == {i \in Current : flag[i] = "paused"}
  <2>1. /\ pc[h] = "ready" /\ ~deleted /\ status = "paused" /\ status' = "running"
        /\ flag' = [i \in Instances |-> IF i \in I THEN "running" ELSE flag[i]]
        /\ alive' = alive \cup I /\ slot' = slot \cup I
        /\ UNCHANGED <<task, deleted, runVars, engineVars, dying, callVars>>
    BY <1>7 DEF Resume, MayCall, NewLoops
  <2>2. /\ \A c \in Callers : pc[c] = "ready" /\ wait[c] = {}
        /\ \A r \in Runs : phase[r] \notin {"pumps", "dispatch", "stopping", "starting"}
    BY <2>1, CallAlone
  <2>3. \A i \in Instances : flag'[i] = IF i \in I THEN "running" ELSE flag[i]
    BY <2>1
  <2>4. alive = {} /\ I \subseteq Instances
    BY <1>0, <2>1 DEF LoopsInv, Current, Instances, TypeOK
  <2>5. CallsInv'
    BY <1>0, <1>1, <2>1, <2>2 DEF CallsInv, callVars
  <2>6. RunsInv'
    BY <1>0, <2>1 DEF RunsInv, Unfinished, runVars
  <2>7. NodesInv'
    BY <1>0, <2>1, <2>2, <2>3 DEF NodesInv, Current, runVars, engineVars, callVars
  <2>8. LoopsInv'
    BY <1>0, <2>1, <2>2, <2>3, <2>4 DEF LoopsInv, runVars, callVars
  <2> QED
    BY <2>5, <2>6, <2>7, <2>8 DEF SoleInv
<1>8. ASSUME NEW h \in Handlers, Drop(h) PROVE SoleInv'
  <2>1. /\ pc[h] = "ready" /\ ~deleted /\ Settled /\ deleted'
        /\ registered' = [n \in Nodes |-> None]
        /\ pc' = [pc EXCEPT ![Background] = IF TaskUnfinished THEN "reap" ELSE "ready"]
        /\ UNCHANGED <<status, task, runVars, owner, evicted, nodeVars, joins, wait>>
    BY <1>8 DEF Drop, Forget, MayCall, OneClient
  <2>2. /\ \A c \in Callers : pc[c] = "ready" /\ wait[c] = {} /\ joins[c] = None
        /\ cancelled = {}
        /\ \A r \in Runs : phase[r] \notin {"pumps", "dispatch", "stopping", "starting", "created"}
    BY <1>0, <2>1, CallAlone DEF Settled, CallsInv
  <2>3. \A r \in Runs : ~Asked(r)
    BY <2>2 DEF Asked
  <2>4. /\ pc'[Background] \in {"ready", "reap"}
        /\ \A c \in Callers : c # Background => pc'[c] = pc[c]
    BY <1>1, <2>1 DEF TypeOK
  <2>5. CallsInv'
    BY <1>0, <1>1, <2>1, <2>2, <2>4 DEF CallsInv
  <2>6. RunsInv'
    BY <1>0, <2>1, <2>2, <2>3 DEF RunsInv, Unfinished, runVars
  <2>7. NodesInv'
    BY <1>0, <2>1 DEF NodesInv, Current, runVars, nodeVars
  <2>8. LoopsInv'
    BY <1>0, <2>1 DEF LoopsInv, runVars, nodeVars
  <2> QED
    BY <2>5, <2>6, <2>7, <2>8 DEF SoleInv
<1>9. CASE Reap
  <2>1. /\ pc[Background] = "reap" /\ joins[Background] = None /\ deleted
        /\ UNCHANGED <<task, deleted, phase, at, engineVars, nodeVars, wait>>
        /\ status' = "stopped"
        /\ \A h \in Handlers : pc[h] = "ready"
    BY <1>0, <1>9 DEF Reap, StopSession, CallsInv
  <2>2. \A r \in Runs : ~Asked(r)
    BY <1>1, <2>1 DEF Asked
  <2>3. /\ cancelled = {}
        /\ \A r \in Runs : phase[r] \in {"none", "supervising", "over"}
    BY <1>0, <2>1, <2>2 DEF RunsInv, TypeOK, Phases
  <2>4. CASE TaskUnfinished
    <3>1. /\ task \in Runs /\ phase[task] = "supervising"
          /\ cancelled' = {task}
          /\ pc'[Background] = "reap" /\ joins'[Background] = task
          /\ \A c \in Callers : c # Background => pc'[c] = pc[c] /\ joins'[c] = joins[c]
      BY <1>1, <1>9, <2>3, <2>4 DEF Reap, StopSession, TaskUnfinished, Unfinished, TypeOK
    <3>2. Asked(task)'
      BY <1>1, <2>1, <3>1 DEF Asked
    <3>3. CallsInv'
      BY <1>0, <1>1, <2>1, <3>1 DEF CallsInv
    <3>4. RunsInv'
      BY <1>0, <2>1, <2>3, <3>1, <3>2 DEF RunsInv, Unfinished
    <3> QED
      BY <1>0, <2>1, <3>3, <3>4
         DEF SoleInv, NodesInv, LoopsInv, Current, engineVars, nodeVars
  <2>5. CASE ~TaskUnfinished
    <3>1. /\ cancelled' = cancelled /\ joins' = joins
          /\ pc'[Background] = "ready"
          /\ \A c \in Callers : c # Background => pc'[c] = pc[c]
      BY <1>1, <1>9, <2>5 DEF Reap, TypeOK
    <3>2. \A r \in Runs : ~Unfinished(r)
      BY <1>0, <2>5 DEF RunsInv, TaskUnfinished
    <3>3. CallsInv'
      BY <1>0, <1>1, <2>1, <3>1 DEF CallsInv
    <3>4. RunsInv'
      BY <1>0, <2>1, <2>3, <3>1, <3>2 DEF RunsInv, Unfinished
    <3> QED
      BY <1>0, <2>1, <3>3, <3>4
         DEF SoleInv, NodesInv, LoopsInv, Current, engineVars, nodeVars
  <2> QED
    BY <2>4, <2>5
\* A run that has yet to begin is the only one, of a session that is neither
\* deleted nor paused, and nothing is alive.
<1>10. ASSUME NEW r \in Runs, phase[r] = "created"
       PROVE  /\ r = task /\ ~deleted /\ status # "paused"
              /\ \A q \in Runs : q # r => ~Unfinished(q)
              /\ \A c \in Callers : pc[c] # "pause" /\ wait[c] = {}
              /\ alive = {} /\ dying = {}
              /\ \A i \in Instances : flag[i] \notin {"init", "running", "paused"}
  <2>1. /\ r = task /\ ~deleted
        /\ \A q \in Runs : q # r => ~Unfinished(q)
    BY <1>0, <1>10 DEF RunsInv, Unfinished
  <2>2. status # "paused"
    BY <1>0, <1>10, <2>1 DEF RunsInv
  <2>3. \A c \in Callers : pc[c] # "pause" /\ wait[c] = {}
    BY <1>0, <1>1, <2>2 DEF CallsInv
  <2>4. \A q \in Runs : phase[q] \notin Shown /\ phase[q] # "stopping"
    BY <1>10, <2>1 DEF Unfinished, Shown
  <2> QED
    BY <2>1, <2>2, <2>3, <2>4, NoLoops, NoneDying
<1>11. ASSUME NEW r \in Runs, RunBegins(r) PROVE SoleInv'
  <2>1. /\ phase[r] = "created" /\ cancelled = {}
        /\ owner' = [n \in Nodes |-> r] /\ registered' = [n \in Nodes |-> r]
        /\ evicted' = evicted \cup {i \in Instances : registered[i[2]] = i[1]
                                                      /\ flag[i] \in {"running", "init"}}
        /\ StartFrom(r, 1, flag, {})
        /\ UNCHANGED <<sessionVars, cancelled, dying, callVars>>
    BY <1>11 DEF RunBegins, MayBegin
  <2>2. PICK failed \in SUBSET Nodes :
          LET begun == {<<r, n>> : n \in Nodes \ failed} IN
          /\ flag' = [i \in Instances |->
                        IF i[1] = r THEN IF i[2] \in failed THEN "failed" ELSE "running"
                        ELSE flag[i]]
          /\ alive' = alive \cup begun
          /\ slot' = slot \cup begun
          /\ phase' = [phase EXCEPT ![r] = "supervising"]
    BY <2>1, StartsAll DEF OneClient
  <2>3. \A q \in Runs : phase'[q] = IF q = r THEN "supervising" ELSE phase[q]
    BY <2>2 DEF TypeOK
  <2>4. evicted' = {}
    BY <1>0, <1>10, <2>1 DEF NodesInv
  <2>5. CallsInv'
    BY <1>0, <2>1 DEF CallsInv, sessionVars, callVars
  <2>6. RunsInv'
    <3>1. \A q \in Runs : Asked(q) => Asked(q)'
      BY <2>1 DEF Asked, callVars
    <3>2. \A q \in Runs : Unfinished(q)' => Unfinished(q)
      BY <2>1, <2>3 DEF Unfinished
    <3> QED
      BY <1>0, <1>10, <2>1, <2>3, <3>1, <3>2 DEF RunsInv, sessionVars
  <2>7. \A i \in Instances :
          flag'[i] = IF i[1] = r THEN IF i[2] \in failed THEN "failed" ELSE "running"
                     ELSE flag[i]
    BY <2>2
  <2>8. NodesInv'
    <3>1. \A q \in Runs : phase'[q] \in Shown => q = r
      BY <1>10, <2>1, <2>3 DEF Unfinished, Shown
    <3>2. \A q \in Runs : phase'[q] # "dispatch"
      BY <1>10, <2>1, <2>3 DEF Unfinished
    <3> QED
      BY <1>1, <1>10, <2>1, <2>3, <2>4, <2>7, <3>1, <3>2 DEF NodesInv, Shown, sessionVars
  <2>9. \A i \in alive' : i \in Instances /\ i \in slot' /\ flag'[i] = "running"
    BY <1>1, <1>10, <2>1, <2>2, <2>7 DEF Instances
  <2>10. LoopsInv'
    <3>1. /\ dying' = {} /\ status' # "paused" /\ wait' = wait
          /\ \A c \in Callers : wait[c] = {}
          /\ \A q \in Runs : phase'[q] # "stopping"
      BY <1>10, <2>1, <2>3 DEF sessionVars, callVars, Unfinished
    <3> QED
      BY <2>9, <3>1 DEF LoopsInv
  <2> QED
    BY <2>5, <2>6, <2>8, <2>10 DEF SoleInv
<1>12. ASSUME NEW r \in Runs, RunFails(r) PROVE SoleInv'
  <2>1. PICK S \in SUBSET Nodes :
          /\ owner' = [n \in Nodes |-> IF n \in S THEN r ELSE owner[n]]
          /\ registered' = [n \in Nodes |-> IF n \in S THEN r ELSE registered[n]]
          /\ evicted' = evicted \cup {i \in Instances : registered[i[2]] = i[1] /\ i[2] \in S
                                                        /\ flag[i] \in {"running", "init"}}
    BY <1>12 DEF RunFails
  <2>2. /\ phase[r] = "created" /\ cancelled = {}
        /\ phase' = [phase EXCEPT ![r] = "over"]
        /\ status' = "error"
        /\ UNCHANGED <<task, deleted, at, cancelled, nodeVars, callVars>>
    BY <1>12 DEF RunFails, MayBegin
  <2>3. \A q \in Runs : ~Unfinished(q)'
    BY <1>10, <2>2 DEF Unfinished, TypeOK
  <2>4. evicted' = {} /\ registered' = owner'
    BY <1>0, <1>10, <2>1, <2>2 DEF NodesInv
  <2>5. CallsInv'
    BY <1>0, <1>10, <2>2 DEF CallsInv, callVars
  <2>6. RunsInv'
    BY <2>2, <2>3 DEF RunsInv, Unfinished
  <2>7. NodesInv'
    BY <1>10, <2>2, <2>3, <2>4 DEF NodesInv, Unfinished, Shown, nodeVars
  <2>8. LoopsInv'
    BY <1>10, <2>2 DEF LoopsInv, nodeVars
  <2> QED
    BY <2>5, <2>6, <2>7, <2>8 DEF SoleInv
<1>13. ASSUME NEW r \in Runs, InitDone(r) \/ StopAllCancelled(r) PROVE SoleInv'
  BY <1>0, <1>13 DEF InitDone, StopAllCancelled, RunsInv
\* A cancelled run is the only one, and its session is not open any more.
<1>14. ASSUME NEW r \in Runs, r \in cancelled \/ phase[r] \in {"pumps", "dispatch", "stopping"}
       PROVE  /\ r = task /\ Unfinished(r) /\ Asked(r)
              /\ \A q \in Runs : q # r => ~Unfinished(q)
              /\ cancelled \subseteq {r}
              /\ deleted \/ status \notin {"running", "paused"}
              /\ \A c \in Callers : pc[c] # "pause" /\ wait[c] = {}
  <2>1. Unfinished(r) /\ r = task /\ Asked(r)
    BY <1>0, <1>14 DEF RunsInv, Unfinished
  <2>2. /\ \A q \in Runs : q # r => ~Unfinished(q)
        /\ cancelled \subseteq {r}
    BY <1>0, <2>1 DEF RunsInv, Unfinished, TypeOK
  <2>3. deleted \/ status \notin {"running", "paused"}
    BY <1>0, <1>14, <2>1 DEF RunsInv
  <2>4. \A c \in Callers : pc[c] # "pause" /\ wait[c] = {}
    BY <1>0, <1>1, <2>3 DEF CallsInv
  <2> QED
    BY <2>1, <2>2, <2>3, <2>4
<1>15. ASSUME NEW r \in Runs, CancelledEarly(r) PROVE SoleInv'
  <2>1. /\ r \in cancelled /\ phase[r] = "created" /\ status' = status /\ flag' = flag
        /\ phase' = [phase EXCEPT ![r] = "over"]
        /\ cancelled' = cancelled \ {r}
        /\ UNCHANGED <<task, deleted, engineVars, alive, dying, slot, callVars>>
    BY <1>0, <1>15 DEF CancelledEarly, RunsInv
  <2>2. (\A q \in Runs : ~Unfinished(q)') /\ cancelled' = {}
    BY <1>14, <2>1 DEF Unfinished, TypeOK
  <2>3. CallsInv'
    BY <1>0, <2>1 DEF CallsInv, callVars
  <2>4. RunsInv'
    BY <1>14, <2>1, <2>2 DEF RunsInv, Unfinished
  <2>5. NodesInv'
    BY <1>0, <1>10, <2>1, <2>2 DEF NodesInv, Unfinished, Shown, engineVars
  <2>6. LoopsInv'
    BY <1>10, <2>1 DEF LoopsInv
  <2> QED
    BY <2>3, <2>4, <2>5, <2>6 DEF SoleInv
<1>16. ASSUME NEW r \in Runs, StopAll(r) \/ PumpsDone(r) PROVE SoleInv'
  <2>1. /\ r \in cancelled \/ phase[r] = "pumps"
        /\ phase[r] \in {"supervising", "pumps"}
        /\ \/ phase' = [phase EXCEPT ![r] = "pumps"] /\ wait' = [wait EXCEPT ![r] = {}]
           \/ phase' = [phase EXCEPT ![r] = "dispatch"] /\ wait' = [wait EXCEPT ![r] = Current]
        /\ cancelled' = cancelled \ {r}
        /\ UNCHANGED <<sessionVars, at, engineVars, nodeVars, pc, joins>>
    BY <1>16 DEF StopAll, PumpsDone
  <2>2. /\ \A q \in Runs : q # r => phase'[q] = phase[q]
        /\ \A a \in Callers \cup Runs : a # r => wait'[a] = wait[a]
        /\ phase'[r] \in {"pumps", "dispatch"}
        /\ phase'[r] = "dispatch" => wait'[r] = Current
        /\ cancelled' = {}
    BY <1>14, <2>1 DEF TypeOK
  <2>3. Asked(r)'
    BY <1>14, <2>1 DEF Asked
  <2>4. CallsInv'
    BY <1>0, <1>1, <1>14, <2>1, <2>2 DEF CallsInv, sessionVars
  <2>5. RunsInv'
    BY <1>14, <2>1, <2>2, <2>3 DEF RunsInv, Unfinished, sessionVars
  <2>6. NodesInv'
    BY <1>0, <1>1, <1>14, <2>1, <2>2
       DEF NodesInv, Current, Unfinished, Shown, sessionVars, engineVars, nodeVars
  <2>7. LoopsInv'
    <3>1. \A i \in dying' : \E a \in Callers \cup Runs :
            i \in wait'[a] /\ (a \in Runs => phase'[a] = "stopping")
      <4> SUFFICES ASSUME NEW i \in dying
                   PROVE  \E a \in Callers \cup Runs :
                            i \in wait'[a] /\ (a \in Runs => phase'[a] = "stopping")
        BY <2>1 DEF nodeVars
      <4>1. PICK a \in Callers \cup Runs :
              i \in wait[a] /\ (a \in Runs => phase[a] = "stopping")
        BY <1>0 DEF LoopsInv
      <4>2. a # r
        BY <2>1, <4>1
      <4> QED
        BY <2>2, <4>1, <4>2
    <3>2. \A i \in alive' : \A a \in Callers \cup Runs :
            i \in wait'[a] => a \in Runs /\ phase'[a] # "stopping"
      BY <1>0, <2>1, <2>2 DEF LoopsInv, nodeVars
    <3> QED
      BY <1>0, <2>1, <3>1, <3>2 DEF LoopsInv, sessionVars, nodeVars
  <2> QED
    BY <2>4, <2>5, <2>6, <2>7 DEF SoleInv
<1>17. ASSUME NEW r \in Runs, Dispatch(r) PROVE SoleInv'
  <2> DEFINE reached == wait[r] \cap slot \cap (alive \cup dying)
  <2>1. /\ phase[r] = "dispatch"
        /\ phase' = [phase EXCEPT ![r] = "stopping"]
        /\ flag' = [i \in Instances |-> IF i \in wait[r] THEN "stopped" ELSE flag[i]]
        /\ alive' = alive \ reached
        /\ dying' = dying \cup reached
        /\ wait' = [wait EXCEPT ![r] = (@ \ wait[r]) \cup reached]
        /\ UNCHANGED <<sessionVars, at, cancelled, engineVars, pc, joins>>
    BY <1>17 DEF Dispatch, StopNodes, CancelLoops
  <2>2. \A i \in Instances : flag[i] \in {"running", "paused"} => i \in wait[r]
    <3> SUFFICES ASSUME NEW i \in Instances, flag[i] \in {"running", "paused"}
                 PROVE  i \in wait[r]
      OBVIOUS
    <3>1. i[1] = r
      BY <1>0, <1>1, <1>14, <2>1 DEF NodesInv
    <3>2. owner[i[2]] = r /\ wait[r] = Current
      BY <1>0, <1>1, <2>1 DEF NodesInv, Shown
    <3> QED
      BY <1>1, <3>1, <3>2 DEF Current
  <2>3. alive' = {}
    BY <1>0, <2>1, <2>2 DEF LoopsInv, TypeOK
  <2>4. /\ \A q \in Runs : phase'[q] = IF q = r THEN "stopping" ELSE phase[q]
        /\ wait'[r] = reached
        /\ \A a \in Callers \cup Runs : a # r => wait'[a] = wait[a]
    BY <2>1 DEF TypeOK
  <2>5. \A i \in Instances : flag'[i] \notin {"init", "running", "paused"}
    BY <1>0, <2>1, <2>2 DEF NodesInv
  <2>6. Asked(r)'
    BY <1>14, <2>1 DEF Asked
  <2>7. CallsInv'
    BY <1>0, <1>1, <1>14, <2>1, <2>4 DEF CallsInv, sessionVars
  <2>8. RunsInv'
    <3>1. r \notin cancelled
      BY <1>0, <2>1 DEF RunsInv
    <3>2. cancelled' = {}
      BY <1>14, <2>1, <3>1
    <3> QED
      BY <1>14, <2>1, <2>4, <2>6, <3>2 DEF RunsInv, Unfinished, sessionVars
  <2>9. NodesInv'
    BY <1>0, <1>14, <2>1, <2>4, <2>5
       DEF NodesInv, Unfinished, Shown, sessionVars, engineVars
  <2>10. LoopsInv'
    <3> SUFFICES ASSUME NEW i \in dying'
                 PROVE  \E a \in Callers \cup Runs :
                          i \in wait'[a] /\ (a \in Runs => phase'[a] = "stopping")
      BY <2>3 DEF LoopsInv
    <3>1. CASE i \in reached
      BY <2>4, <3>1
    <3>2. CASE i \in dying
      <4>1. PICK a \in Callers \cup Runs :
              i \in wait[a] /\ (a \in Runs => phase[a] = "stopping")
        BY <1>0, <3>2 DEF LoopsInv
      <4>2. a # r
        BY <2>1, <4>1
      <4> QED
        BY <2>4, <4>1, <4>2
    <3> QED
      BY <2>1, <3>1, <3>2
  <2> QED
    BY <2>7, <2>8, <2>9, <2>10 DEF SoleInv
<1>18. ASSUME NEW r \in Runs, RunEnds(r) PROVE SoleInv'
  <2>1. /\ phase[r] = "stopping" /\ wait[r] = {}
        /\ phase' = [phase EXCEPT ![r] = "over"]
        /\ status' = "stopped"
        /\ cancelled' = cancelled \ {r}
        /\ UNCHANGED <<task, deleted, at, engineVars, nodeVars, callVars>>
    BY <1>18 DEF RunEnds
  <2>2. (\A q \in Runs : ~Unfinished(q)') /\ cancelled' = {}
    BY <1>14, <2>1 DEF Unfinished, TypeOK
  <2>3. \A q \in Runs : phase[q] \notin Shown
    BY <1>14, <2>1 DEF Unfinished, Shown
  <2>4. alive = {} /\ \A i \in Instances : flag[i] \notin {"init", "running", "paused"}
    BY <2>3, NoLoops
  <2>5. dying = {}
    <3> SUFFICES ASSUME NEW i \in dying PROVE FALSE
      OBVIOUS
    <3>1. PICK a \in Callers \cup Runs :
            i \in wait[a] /\ (a \in Runs => phase[a] = "stopping")
      BY <1>0 DEF LoopsInv
    <3>2. a \in Runs /\ a # r
      BY <1>14, <2>1, <3>1
    <3> QED
      BY <1>14, <2>1, <3>1, <3>2 DEF Unfinished
  <2>6. CallsInv'
    BY <1>0, <1>14, <2>1 DEF CallsInv, callVars
  <2>7. RunsInv'
    BY <2>1, <2>2 DEF RunsInv, Unfinished
  <2>8. NodesInv'
    BY <1>0, <2>1, <2>2, <2>4 DEF NodesInv, Unfinished, Shown, engineVars, nodeVars
  <2>9. LoopsInv'
    BY <2>1, <2>4, <2>5 DEF LoopsInv, nodeVars
  <2> QED
    BY <2>6, <2>7, <2>8, <2>9 DEF SoleInv
<1>19. ASSUME NEW i \in Instances, EvictedStops(i) PROVE SoleInv'
  BY <1>0, <1>19 DEF EvictedStops, NodesInv
<1>20. ASSUME NEW i \in Instances, LoopEnds(i) \/ LoopDies(i) PROVE SoleInv'
  <2>1. /\ alive' \subseteq alive /\ dying' \subseteq dying
        /\ UNCHANGED <<sessionVars, runVars, engineVars, flag, slot, callVars>>
    BY <1>20 DEF LoopEnds, LoopDies
  <2>2. CallsInv'
    BY <1>0, <2>1 DEF CallsInv, sessionVars, callVars
  <2>3. RunsInv'
    BY <1>0, <2>1 DEF RunsInv, Unfinished, Asked, sessionVars, runVars, callVars
  <2>4. NodesInv'
    BY <1>0, <2>1 DEF NodesInv, Current, sessionVars, runVars, engineVars, callVars
  <2>5. LoopsInv'
    BY <1>0, <2>1 DEF LoopsInv, sessionVars, runVars, callVars
  <2> QED
    BY <2>2, <2>3, <2>4, <2>5 DEF SoleInv
<1>21. ASSUME NEW a \in Callers \cup Runs, NEW i \in Instances, LoopAwaited(a, i)
       PROVE  SoleInv'
  <2>1. /\ i \in wait[a] /\ i \notin dying /\ (a \in Runs => phase[a] = "stopping")
        /\ slot' = slot \ {i}
        /\ wait' = [wait EXCEPT ![a] = @ \ {i}]
        /\ UNCHANGED <<sessionVars, runVars, engineVars, flag, alive, dying, pc, joins>>
    BY <1>21 DEF LoopAwaited
  <2>2. i \notin alive
    BY <1>0, <2>1 DEF LoopsInv
  <2>3. \A b \in Callers \cup Runs : wait'[b] = IF b = a THEN wait[b] \ {i} ELSE wait[b]
    BY <2>1 DEF TypeOK
  <2>4. CallsInv'
    BY <1>0, <2>1, <2>3 DEF CallsInv, sessionVars
  <2>5. RunsInv'
    BY <1>0, <2>1 DEF RunsInv, Unfinished, Asked, sessionVars, runVars
  <2>6. NodesInv'
    BY <1>0, <2>1, <2>3 DEF NodesInv, Current, sessionVars, runVars, engineVars
  <2>7. LoopsInv'
    BY <1>0, <2>1, <2>2, <2>3 DEF LoopsInv, sessionVars, runVars
  <2> QED
    BY <2>4, <2>5, <2>6, <2>7 DEF SoleInv
<1>22. CASE UNCHANGED vars
  BY <1>0, <1>22
     DEF vars, sessionVars, runVars, engineVars, nodeVars, callVars, SoleInv, CallsInv,
         RunsInv, NodesInv, LoopsInv, Asked, Unfinished, Current
<1> QED
  BY <1>2, <1>3, <1>4, <1>5, <1>6, <1>7, <1>8, <1>9, <1>11, <1>12, <1>13, <1>15, <1>16,
     <1>17, <1>18, <1>19, <1>20, <1>21, <1>22 DEF Next, HandlerCall, CallStep, RunStep

\* The invariant of a session with one client holds in every state.
LEMMA SoleInvariant == ASSUME OneClient PROVE Spec => [](TypeOK /\ SoleInv)
<1>1. ASSUME Init PROVE SoleInv
  <2>1. Background \in Callers /\ \A c \in Callers : c \in Callers \cup Runs
    BY DEF Callers
  <2>2. /\ \A c \in Callers : pc[c] = "ready" /\ joins[c] = None /\ wait[c] = {}
        /\ \A r \in Runs : phase[r] = "none"
    BY <1>1, <2>1 DEF Init
  <2>3. CallsInv
    BY <1>1, <2>1, <2>2 DEF Init, CallsInv, Callers
  <2>4. RunsInv
    BY <1>1, <2>2 DEF Init, RunsInv, Unfinished
  <2>5. NodesInv
    BY <1>1, <2>2 DEF Init, NodesInv, Shown
  <2>6. LoopsInv
    BY <1>1 DEF Init, LoopsInv
  <2> QED
    BY <2>3, <2>4, <2>5, <2>6 DEF SoleInv
<1>2. TypeInv => TypeOK
  BY DEF TypeInv
<1> QED
  BY <1>1, <1>2, InitTyped, TypeStep, SoleInvStep, PTL DEF Spec

\* A session of one client has one run at a time.
THEOREM OneRun == ASSUME OneClient PROVE Spec => []OneSupervisor
<1>1. SoleInv => OneSupervisor
  BY DEF SoleInv, RunsInv, Unfinished, OneSupervisor
<1> QED
  BY <1>1, SoleInvariant, PTL

\* ... whose stop() and pause() find every process loop in its slot.
THEOREM LoopsInSlots == ASSUME OneClient PROVE Spec => []LoopsReachable
<1>1. SoleInv => LoopsReachable
  BY DEF SoleInv, LoopsInv, LoopsReachable
<1> QED
  BY <1>1, SoleInvariant, PTL

\* Once everything has settled, a session of one client that does not read
\* "running" has no process loop left in any of its instances.
THEOREM StoppedMeansQuiet == ASSUME OneClient PROVE Spec => []NotRunningIsQuiet
<1>1. ASSUME TypeOK, SoleInv, Settled, status # "running"
      PROVE  alive \cup dying = {}
  <2>1. \A c \in Callers : pc[c] = "ready" /\ wait[c] = {}
    BY <1>1 DEF Settled
  <2>2. \A r \in Runs : ~Asked(r) /\ phase[r] \in {"none", "supervising", "over"}
    BY <1>1, <2>1 DEF Settled, Asked
  <2>3. dying = {}
    BY <1>1, <2>1, <2>2, NoneDying
  <2>4. CASE status = "paused"
    BY <1>1, <2>3, <2>4 DEF SoleInv, LoopsInv
  <2>5. CASE status # "paused"
    <3>1. \A r \in Runs : ~Unfinished(r)
      BY <1>1, <2>2, <2>5 DEF SoleInv, RunsInv
    <3>2. alive = {}
      BY <1>1, <3>1, NoLoops DEF Unfinished, Shown
    <3> QED
      BY <2>3, <3>2
  <2> QED
    BY <2>4, <2>5
<1>2. TypeOK /\ SoleInv => NotRunningIsQuiet
  BY <1>1 DEF NotRunningIsQuiet
<1> QED
  BY <1>2, SoleInvariant, PTL

\* The registry has the instances of the engine while the session of one
\* client exists, and none of its own once it is deleted.
THEOREM RegistryInStep == ASSUME OneClient PROVE Spec => []RegistryCurrent
<1>1. SoleInv => RegistryCurrent
  BY DEF SoleInv, NodesInv, RegistryCurrent
<1> QED
  BY <1>1, SoleInvariant, PTL

-----------------------------------------------------------------------------
(* A session that reads "running", however many clients call it.  Its       *)
(* newest run is on its way or supervises: nobody has cancelled it, and     *)
(* what else touches its instances is an older run that is about to end,    *)
(* which makes the session read "stopped" when it does.                     *)

\* Run r will end, or is ending.
Ending(r) ==
  \/ phase[r] \in {"pumps", "dispatch", "stopping"}
  \/ r \in cancelled /\ phase[r] \in {"starting", "supervising"}

Active == status \in {"running", "paused"}

\* A cancellation is for a run that is not over, never for the newest one of a
\* session that is active: what asks for it says "stopped" first.
NewestInv ==
  /\ \A r \in cancelled : Unfinished(r)
  /\ Active => /\ task \in Runs /\ task \notin cancelled
               /\ phase[task] \in {"created", "starting", "supervising"}
  /\ status = "paused" => "pause" \in Commands
  /\ \A r \in Runs : phase[r] = "starting" => SlowNodes # {}

\* Runs begin in the order in which they were created, the newest last, with
\* instances that nobody has heard of: so no newer one evicts the newest's.
OrderInv ==
  /\ \A r \in Runs : phase[r] = "created" =>
       /\ \A n \in Nodes : registered[n] # r
       /\ \A i \in evicted : i[1] # r
  /\ task \in Runs /\ phase[task] \in {"starting", "supervising"} =>
       /\ \A r \in Runs \ {task} : phase[r] # "created"
       /\ \A i \in evicted : i[1] # task

\* The nodes from k on.
From(k) == {n \in Nodes : n >= k}

\* While no run is ending, the newest has the engine to itself: it has started
\* all nodes, or all before the one whose init() it awaits.
Standing == {"running", "failed"} \cup (IF status = "paused" THEN {"paused"} ELSE {})
WholeInv ==
  Active /\ (\A r \in Runs : ~Ending(r)) =>
    /\ phase[task] # "created" => \A n \in Nodes : owner[n] = task
    /\ phase[task] = "supervising" => \A n \in Nodes : flag[<<task, n>>] \in Standing
    /\ phase[task] = "starting" =>
         /\ \A n \in Nodes \ From(at[task]) : flag[<<task, n>>] \in {"running", "failed"}
         /\ flag[<<task, at[task]>>] = "init"

ManyInv == NewestInv /\ OrderInv /\ WholeInv

\* Starting run r's nodes from k on leaves what was built of the others.
Keeps(r, k, built) ==
  \A i \in Instances : i[1] # r \/ i[2] \notin From(k) => flag'[i] = built[i]

\* What starting the nodes from k on leaves behind.
LEMMA StartedFrom ==
  ASSUME SessionAssumption, TypeInv, NEW r \in Runs, NEW k \in 1..(NodeCount + 1),
         NEW built \in [Instances -> Flags], NEW inits \in SUBSET Nodes,
         StartFrom(r, k, built, inits)
  PROVE  /\ Keeps(r, k, built)
         /\ \A q \in Runs \ {r} : phase'[q] = phase[q] /\ at'[q] = at[q]
         /\ phase'[r] \in {"starting", "supervising"}
         /\ phase'[r] = "supervising" =>
              \A n \in From(k) : flag'[<<r, n>>] \in {"running", "failed"}
         /\ phase'[r] = "starting" =>
              /\ SlowNodes # {}
              /\ at'[r] \in From(k)
              /\ flag'[<<r, at'[r]>>] = "init"
              /\ \A n \in From(k) \ From(at'[r]) : flag'[<<r, n>>] \in {"running", "failed"}
<1> DEFINE slow == {n \in SlowNodes : n >= k}
           last == IF slow = {} THEN NodeCount
                   ELSE (CHOOSE n \in slow : \A m \in slow : n <= m) - 1
           first == CHOOSE n \in slow : \A m \in slow : n <= m
<1>1. NodeCount \in Nat /\ SlowNodes \subseteq Nodes
  BY DEF SessionAssumption
<1>2. Nodes \subseteq Nat /\ k \in Nat
  BY <1>1 DEF Nodes
<1>3. slow # {} => first \in slow
  <2>1. slow \subseteq Nat
    BY <1>1, <1>2
  <2> HIDE DEF slow
  <2> QED
    BY <2>1, FirstSlow
<1>4. /\ slow = {} => last = NodeCount
      /\ slow # {} => first \in Nodes /\ first >= k /\ last = first - 1 /\ SlowNodes # {}
  BY <1>1, <1>3
<1>5. PICK failed \in SUBSET (k..last) :
        LET begun == {<<r, n>> : n \in ((k..last) \ failed) \cup inits} IN
        /\ flag' = [i \in Instances |->
                      IF i[1] = r /\ i[2] \in failed THEN "failed"
                      ELSE IF i[1] = r /\ i[2] \in k..last THEN "running"
                      ELSE IF i = <<r, last + 1>> THEN "init" ELSE built[i]]
        /\ NewLoops(begun)
        /\ phase' = [phase EXCEPT ![r] = IF slow = {} THEN "supervising" ELSE "starting"]
        /\ at' = [at EXCEPT ![r] = IF slow = {} THEN 0 ELSE last + 1]
  BY DEF StartFrom
<1> HIDE DEF slow, last, first
<1>6. last \in Nat /\ last + 1 >= k
  BY <1>1, <1>2, <1>4 DEF Nodes
<1>7. \A i \in Instances : i = <<i[1], i[2]>> /\ i[2] \in Nat
  <2>1. \A i \in Instances : i = <<i[1], i[2]>> /\ i[2] \in Nodes
    BY DEF Instances
  <2> QED
    BY <1>2, <2>1
<1>8. Keeps(r, k, built)
  <2> SUFFICES ASSUME NEW i \in Instances, i[1] # r \/ i[2] < k
               PROVE  flag'[i] = built[i]
    BY <1>2, <1>7 DEF Keeps, From, Instances
  <2>1. i # <<r, last + 1>>
    BY <1>2, <1>6, <1>7
  <2>2. ~ (i[1] = r /\ i[2] \in k..last)
    BY <1>2, <1>6, <1>7
  <2> QED
    BY <1>5, <2>1, <2>2
<1>9. \A n \in k..last : n \in Nodes => flag'[<<r, n>>] \in {"running", "failed"}
  BY <1>5 DEF Instances
<1>10. /\ phase' = [phase EXCEPT ![r] = IF slow = {} THEN "supervising" ELSE "starting"]
       /\ at' = [at EXCEPT ![r] = IF slow = {} THEN 0 ELSE last + 1]
       /\ phase \in [Runs -> Phases] /\ at \in [Runs -> Nodes \cup {0}]
  BY <1>5 DEF TypeInv, TypeOK
<1>11. phase'[r] = "supervising" =>
         \A n \in From(k) : flag'[<<r, n>>] \in {"running", "failed"}
  <2> SUFFICES ASSUME phase'[r] = "supervising", NEW n \in Nodes, n >= k
               PROVE  n \in k..last
    BY <1>9 DEF From
  <2>1. last = NodeCount
    BY <1>4, <1>10
  <2> QED
    BY <1>1, <1>2, <2>1 DEF Nodes
<1>12. phase'[r] = "starting" =>
         /\ SlowNodes # {}
         /\ at'[r] \in From(k)
         /\ flag'[<<r, at'[r]>>] = "init"
         /\ \A n \in From(k) \ From(at'[r]) : flag'[<<r, n>>] \in {"running", "failed"}
  <2> SUFFICES ASSUME phase'[r] = "starting"
               PROVE  /\ SlowNodes # {}
                      /\ at'[r] \in From(k)
                      /\ flag'[<<r, at'[r]>>] = "init"
                      /\ \A n \in From(k) \ From(at'[r]) :
                           flag'[<<r, n>>] \in {"running", "failed"}
    OBVIOUS
  <2>1. slow # {} /\ at'[r] = last + 1
    BY <1>10
  <2>2. at'[r] \in Nodes /\ at'[r] >= k /\ at'[r] - 1 = last /\ SlowNodes # {}
    <3>1. first \in Nat /\ last = first - 1
      BY <1>2, <1>4, <2>1
    <3> QED
      BY <1>4, <1>6, <2>1, <3>1
  <2>3. flag'[<<r, last + 1>>] = "init"
    <3>1. <<r, last + 1>> \in Instances
      BY <2>1, <2>2 DEF Instances
    <3>2. last + 1 \notin k..last /\ last + 1 \notin failed
      BY <1>2, <1>6
    <3> QED
      BY <1>5, <3>1, <3>2
  <2>4. ASSUME NEW n \in From(k) \ From(at'[r]) PROVE n \in k..last /\ n \in Nodes
    BY <1>2, <1>6, <2>1, <2>2, <2>4 DEF From
  <2> QED
    BY <1>9, <2>1, <2>2, <2>3, <2>4 DEF From
<1> QED
  BY <1>8, <1>10, <1>11, <1>12

\* A run that begins, or goes on after an init(), starts nodes: here as far as
\* its phase goes, and the instances of others.
LEMMA StepStarts ==
  ASSUME SessionAssumption, TypeInv, NEW r \in Runs, RunBegins(r) \/ InitDone(r)
  PROVE  /\ \A q \in Runs \ {r} : phase'[q] = phase[q] /\ at'[q] = at[q]
         /\ phase'[r] \in {"starting", "supervising"}
         /\ phase'[r] = "starting" => SlowNodes # {}
         /\ \A i \in Instances : i[1] # r => flag'[i] = flag[i]
<1> DEFINE i == <<r, at[r]>>
           was == IF flag[i] = "init" THEN "running" ELSE flag[i]
<1>1. flag \in [Instances -> Flags] /\ NodeCount \in Nat
  BY DEF TypeInv, TypeOK, Flags, SessionAssumption
<1>2. CASE RunBegins(r)
  <2>1. StartFrom(r, 1, flag, {}) /\ 1 \in 1..(NodeCount + 1) /\ {} \in SUBSET Nodes
    BY <1>1, <1>2 DEF RunBegins
  <2>2. /\ Keeps(r, 1, flag)
        /\ \A q \in Runs \ {r} : phase'[q] = phase[q] /\ at'[q] = at[q]
        /\ phase'[r] \in {"starting", "supervising"}
        /\ phase'[r] = "starting" => SlowNodes # {}
    <3> HIDE DEF i, was
    <3> QED
      BY <1>1, <2>1, SessionAssumption, StartedFrom
  <2> QED
    BY <2>2 DEF Keeps
<1>3. CASE InitDone(r)
  <2>1. /\ at[r] \in Nodes /\ at[r] + 1 \in 1..(NodeCount + 1)
        /\ i \in Instances /\ was \in Flags /\ "failed" \in Flags
        /\ \A inits \in {{}, {at[r]}} : inits \in SUBSET Nodes
    BY <1>1, <1>3 DEF InitDone, TypeInv, Nodes, Instances, Flags
  <2>2. PICK new \in Flags, inits \in {{}, {at[r]}} :
          StartFrom(r, at[r] + 1, [flag EXCEPT ![i] = new], inits)
    BY <1>3, <2>1 DEF InitDone
  <2> DEFINE built == [flag EXCEPT ![i] = new]
  <2>3. built \in [Instances -> Flags]
    BY <1>1, <2>1
  <2>4. \A j \in Instances : j[1] # r => built[j] = flag[j]
    BY <1>1
  <2>5. StartFrom(r, at[r] + 1, built, inits)
    BY <2>2
  <2> HIDE DEF built, i, was
  <2>6. /\ Keeps(r, at[r] + 1, built)
        /\ \A q \in Runs \ {r} : phase'[q] = phase[q] /\ at'[q] = at[q]
        /\ phase'[r] \in {"starting", "supervising"}
        /\ phase'[r] = "starting" => SlowNodes # {}
    BY <2>1, <2>3, <2>5, SessionAssumption, StartedFrom
  <2> QED
    BY <2>4, <2>6 DEF Keeps
<1> QED
  BY <1>2, <1>3

\* Only start() makes a run, and only one that is free.
LEMMA NewestStep ==
  ASSUME SessionAssumption, TypeInv, NewestInv, [Next]_vars
  PROVE  NewestInv'
<1> USE SessionAssumption
<1>0. TypeOK /\ status \in {"created", "running", "paused", "stopped", "error"}
      /\ phase \in [Runs -> Phases] /\ cancelled \subseteq Runs /\ None \notin Runs
  BY DEF TypeInv, TypeOK, SessionAssumption
<1>1. ASSUME NEW h \in Handlers, Start(h) PROVE NewestInv'
  <2>1. PICK r \in FreeRuns :
          /\ task' = r /\ phase' = [phase EXCEPT ![r] = "created"]
          /\ status' = "running" /\ cancelled' = cancelled
    BY <1>1 DEF Start
  <2>2. r \in Runs /\ ~Unfinished(r)
    BY DEF FreeRuns
  <2>3. phase' \in [Runs -> Phases]
    BY <1>0, <2>1, <2>2 DEF Phases
  <2> QED
    BY <1>0, <2>1, <2>2, <2>3 DEF NewestInv, Active, Unfinished
<1>2. ASSUME NEW c \in Callers, NEW where, StopSession(c, where), TaskUnfinished,
             UNCHANGED <<task, phase>>
      PROVE  NewestInv'
  BY <1>0, <1>2 DEF StopSession, TaskUnfinished, NewestInv, Active, Unfinished
<1>3. ASSUME UNCHANGED <<task, phase, cancelled>>, status' \in {status, "stopped"}
      PROVE  NewestInv'
  BY <1>0, <1>3 DEF NewestInv, Active, Unfinished
<1>4. ASSUME NEW h \in Handlers, Stop(h) \/ Delete(h) \/ Drop(h) PROVE NewestInv'
  <2>1. h \in Callers
    BY DEF Callers
  <2> QED
    BY <1>2, <1>3, <1>4, <2>1 DEF Stop, Delete, Drop, Forget, runVars
<1>5. ASSUME NEW c \in Callers, CallStep(c) PROVE NewestInv'
  BY <1>3, <1>5 DEF CallStep, StopReturns, PauseReturns, DeleteReturns, sessionVars, runVars
<1>6. CASE Reap
  <2>1. Background \in Callers
    BY DEF Callers
  <2> QED
    BY <1>2, <1>3, <1>6, <2>1 DEF Reap
<1>7. ASSUME NEW h \in Handlers, Pause(h) PROVE NewestInv'
  BY <1>0, <1>7 DEF Pause, MayCall, NewestInv, Active, Unfinished, runVars
<1>8. ASSUME NEW h \in Handlers, Resume(h) PROVE NewestInv'
  BY <1>0, <1>8 DEF Resume, NewestInv, Active, Unfinished, runVars
<1>9. ASSUME NEW r \in Runs, RunBegins(r) \/ InitDone(r) PROVE NewestInv'
  <2>1. UNCHANGED <<sessionVars, cancelled>>
    BY <1>9 DEF RunBegins, InitDone
  <2>2. /\ \A q \in Runs \ {r} : phase'[q] = phase[q]
        /\ phase'[r] \in {"starting", "supervising"}
        /\ phase'[r] = "starting" => SlowNodes # {}
    BY <1>9, StepStarts
  <2>3. cancelled = {} \/ r \notin cancelled
    BY <1>9 DEF RunBegins, MayBegin, InitDone
  <2> QED
    BY <1>0, <2>1, <2>2, <2>3 DEF NewestInv, Active, Unfinished, sessionVars
<1>10. ASSUME NEW r \in Runs, RunFails(r) PROVE NewestInv'
  <2>1. cancelled' = {} /\ status' = "error" /\ phase' = [phase EXCEPT ![r] = "over"]
    BY <1>10 DEF RunFails, MayBegin
  <2> QED
    BY <1>0, <2>1 DEF NewestInv, Active
<1>11. ASSUME NEW r \in Runs, CancelledEarly(r) PROVE NewestInv'
  BY <1>0, <1>11 DEF CancelledEarly, NewestInv, Active, Unfinished
<1>12. ASSUME NEW r \in Runs, StopAll(r) PROVE NewestInv'
  BY <1>0, <1>12 DEF StopAll, NewestInv, Active, Unfinished, sessionVars
<1>13. ASSUME NEW r \in Runs, PumpsDone(r) \/ Dispatch(r) PROVE NewestInv'
  BY <1>0, <1>13 DEF PumpsDone, Dispatch, NewestInv, Active, Unfinished, sessionVars
<1>14. ASSUME NEW r \in Runs, StopAllCancelled(r) PROVE NewestInv'
  BY <1>0, <1>14 DEF StopAllCancelled, NewestInv, Active, Unfinished
<1>15. ASSUME NEW r \in Runs, RunEnds(r) PROVE NewestInv'
  BY <1>0, <1>15 DEF RunEnds, NewestInv, Active, Unfinished
<1>16. ASSUME NEW i \in Instances, EvictedStops(i) \/ LoopEnds(i) \/ LoopDies(i)
       PROVE  NewestInv'
  BY <1>3, <1>16 DEF EvictedStops, LoopEnds, LoopDies, sessionVars, runVars
<1>17. ASSUME NEW a \in Callers \cup Runs, NEW i \in Instances, LoopAwaited(a, i)
       PROVE  NewestInv'
  BY <1>3, <1>17 DEF LoopAwaited, sessionVars, runVars
<1>18. CASE UNCHANGED vars
  BY <1>3, <1>18 DEF vars, sessionVars, runVars
<1> QED
  BY <1>1, <1>4, <1>5, <1>6, <1>7, <1>8, <1>9, <1>10, <1>11, <1>12, <1>13, <1>14, <1>15,
     <1>16, <1>17, <1>18 DEF Next, HandlerCall, RunStep


\* A run that starts was created, and evicts none that the registry has not.
LEMMA OrderStep ==
  ASSUME SessionAssumption, TypeInv, NewestInv, OrderInv, [Next]_vars
  PROVE  OrderInv'
<1> USE SessionAssumption
<1>0. TypeOK /\ phase \in [Runs -> Phases] /\ None \notin Runs
      /\ \A i \in Instances : i[2] \in Nodes
      /\ Phases = {"none", "created", "starting", "supervising", "pumps", "dispatch",
                   "stopping", "over"}
  BY DEF TypeInv, TypeOK, SessionAssumption, Instances, Phases
<1>1. ASSUME NEW h \in Handlers, Start(h) PROVE OrderInv'
  <2>1. PICK r \in FreeRuns :
          /\ task' = r /\ phase' = [phase EXCEPT ![r] = "created"]
          /\ UNCHANGED <<registered, evicted>>
    BY <1>1 DEF Start, engineVars
  <2>2. /\ r \in Runs /\ \A n \in Nodes : registered[n] # r
        /\ \A i \in evicted : i[1] # r
    BY DEF FreeRuns
  <2>3. phase'[r] = "created" /\ \A q \in Runs \ {r} : phase'[q] = phase[q]
    BY <1>0, <2>1, <2>2
  <2> QED
    BY <2>1, <2>2, <2>3 DEF OrderInv
<1>2. ASSUME UNCHANGED <<task, evicted>>,
             registered' = registered \/ registered' = [n \in Nodes |-> None],
             \A q \in Runs : phase'[q] = "created" => phase[q] = "created",
             \A q \in Runs : phase'[q] \in {"starting", "supervising"} =>
                               phase[q] \in {"starting", "supervising"}
      PROVE  OrderInv'
  BY <1>0, <1>2 DEF OrderInv
<1>3. ASSUME NEW h \in Handlers, Stop(h) \/ Delete(h) \/ Drop(h) PROVE OrderInv'
  BY <1>2, <1>3 DEF Stop, Delete, Drop, Forget, engineVars, runVars
<1>4. ASSUME NEW c \in Callers, CallStep(c) PROVE OrderInv'
  BY <1>2, <1>4 DEF CallStep, StopReturns, PauseReturns, DeleteReturns, Forget, sessionVars,
                    runVars, engineVars
<1>5. CASE Reap
  BY <1>2, <1>5 DEF Reap, engineVars
<1>6. ASSUME NEW h \in Handlers, Pause(h) \/ Resume(h) PROVE OrderInv'
  BY <1>2, <1>6 DEF Pause, Resume, runVars, engineVars
<1>7. ASSUME NEW r \in Runs, RunBegins(r) \/ RunFails(r) PROVE OrderInv'
  <2>1. /\ phase[r] = "created" /\ task' = task
        /\ r = task => \A q \in Runs \ {r} : phase[q] # "created"
    BY <1>7 DEF RunBegins, RunFails, MayBegin, sessionVars
  <2>2. /\ \A n \in Nodes : registered'[n] \in {r, registered[n]}
        /\ \A i \in evicted' : i \in evicted \/ (i \in Instances /\ registered[i[2]] = i[1])
    BY <1>7 DEF RunBegins, RunFails
  <2>3. phase'[r] # "created" /\ \A q \in Runs \ {r} : phase'[q] = phase[q]
    <3>1. CASE RunBegins(r)
      BY <3>1, StepStarts
    <3>2. CASE RunFails(r)
      BY <1>0, <3>2 DEF RunFails
    <3> QED
      BY <1>7, <3>1, <3>2
  <2>4. ASSUME NEW q \in Runs, phase[q] = "created"
        PROVE  \A i \in evicted' : i[1] # q
    BY <1>0, <2>2, <2>4 DEF OrderInv
  <2>5. ASSUME NEW q \in Runs, phase'[q] = "created"
        PROVE  \A n \in Nodes : registered'[n] # q
    BY <2>2, <2>3, <2>5 DEF OrderInv
  <2>6. ASSUME task \in Runs, task # r PROVE phase'[task] \notin {"starting", "supervising"}
    BY <2>1, <2>3, <2>6 DEF OrderInv
  <2> QED
    BY <2>1, <2>3, <2>4, <2>5, <2>6 DEF OrderInv
<1>8. ASSUME NEW r \in Runs, InitDone(r) PROVE OrderInv'
  <2>1. phase[r] = "starting" /\ UNCHANGED <<task, registered, evicted>>
    BY <1>8 DEF InitDone, sessionVars, engineVars
  <2>2. /\ \A q \in Runs \ {r} : phase'[q] = phase[q]
        /\ phase'[r] \in {"starting", "supervising"}
    BY <1>8, StepStarts
  <2> QED
    BY <1>2, <2>1, <2>2
<1>9. ASSUME NEW r \in Runs, UNCHANGED <<task, engineVars>>, NEW p \in Phases,
             phase' = [phase EXCEPT ![r] = p], p \notin {"created", "starting", "supervising"}
      PROVE  OrderInv'
  BY <1>0, <1>2, <1>9 DEF engineVars
<1>10. ASSUME NEW r \in Runs,
              CancelledEarly(r) \/ StopAll(r) \/ PumpsDone(r) \/ Dispatch(r)
                \/ StopAllCancelled(r) \/ RunEnds(r)
       PROVE  OrderInv'
  BY <1>0, <1>2, <1>9, <1>10
     DEF CancelledEarly, StopAll, PumpsDone, Dispatch, StopAllCancelled, RunEnds, sessionVars,
         engineVars
<1>11. ASSUME NEW i \in Instances, EvictedStops(i) \/ LoopEnds(i) \/ LoopDies(i)
       PROVE  OrderInv'
  BY <1>11 DEF EvictedStops, LoopEnds, LoopDies, sessionVars, runVars, engineVars, OrderInv
<1>12. ASSUME NEW a \in Callers \cup Runs, NEW i \in Instances, LoopAwaited(a, i)
       PROVE  OrderInv'
  BY <1>2, <1>12 DEF LoopAwaited, sessionVars, runVars, engineVars
<1>13. CASE UNCHANGED vars
  BY <1>2, <1>13 DEF vars, sessionVars, runVars, engineVars
<1> QED
  BY <1>1, <1>3, <1>4, <1>5, <1>6, <1>7, <1>8, <1>10, <1>11, <1>12, <1>13
     DEF Next, HandlerCall, RunStep

\* What leaves the newest run alone leaves it whole.
LEMMA StaysWhole ==
  ASSUME SessionAssumption, TypeInv, NewestInv, WholeInv,
         Active' => status' = status,
         UNCHANGED <<task, owner>>,
         \A r \in Runs : Ending(r) => Ending(r)',
         task \in Runs => phase'[task] = phase[task] /\ at'[task] = at[task],
         task \in Runs /\ phase[task] \in {"starting", "supervising"} =>
           \A n \in Nodes : flag'[<<task, n>>] = flag[<<task, n>>]
  PROVE  WholeInv'
<1>1. Active' => status' = status /\ Active /\ task \in Runs
                 /\ phase[task] \in {"created", "starting", "supervising"}
  BY DEF Active, NewestInv
<1>2. \A r \in Runs : phase[r] = "starting" => at[r] \in Nodes
  BY DEF TypeInv
<1> QED
  BY <1>1, <1>2 DEF WholeInv, Standing

\* While no run is ending, only start() replaces the newest run, only its own
\* steps start its nodes, and only pause() and resume() touch them.
LEMMA WholeStep ==
  ASSUME SessionAssumption, TypeInv, NewestInv, OrderInv, WholeInv, [Next]_vars
  PROVE  WholeInv'
<1> USE SessionAssumption
<1>0. TypeOK /\ phase \in [Runs -> Phases] /\ None \notin Runs /\ at \in [Runs -> Nodes \cup {0}]
      /\ flag \in [Instances -> Flags]
      /\ \A r \in Runs : \A n \in Nodes : <<r, n>> \in Instances
  BY DEF TypeInv, TypeOK, SessionAssumption, Instances, Flags
<1>1. ASSUME NEW h \in Handlers, Start(h) PROVE WholeInv'
  <2>1. PICK r \in FreeRuns : task' = r /\ phase' = [phase EXCEPT ![r] = "created"]
    BY <1>1 DEF Start
  <2>2. r \in Runs /\ phase'[r] = "created"
    BY <1>0, <2>1 DEF FreeRuns
  <2> QED
    BY <2>1, <2>2 DEF WholeInv
<1>2. ASSUME UNCHANGED <<task, phase, at, owner, flag>>, cancelled \subseteq cancelled',
             status' \in {status, "stopped"}
      PROVE  WholeInv'
  <2>1. \A r \in Runs : Ending(r) => Ending(r)'
    BY <1>2 DEF Ending
  <2> QED
    BY <1>2, <2>1, StaysWhole DEF Active
<1>3. ASSUME NEW h \in Handlers, Stop(h) \/ Delete(h) \/ Drop(h) PROVE WholeInv'
  BY <1>2, <1>3 DEF Stop, Delete, Drop, Forget, StopSession, engineVars, runVars, nodeVars
<1>4. ASSUME NEW c \in Callers, CallStep(c) PROVE WholeInv'
  BY <1>2, <1>4 DEF CallStep, StopReturns, PauseReturns, DeleteReturns, Forget, sessionVars,
                    runVars, engineVars, nodeVars
<1>5. CASE Reap
  BY <1>2, <1>5 DEF Reap, StopSession, engineVars, nodeVars
<1>6. ASSUME NEW h \in Handlers, Pause(h) PROVE WholeInv'
  <2>1. /\ status = "running" /\ status' = "paused" /\ "pause" \in Commands
        /\ UNCHANGED <<task, phase, at, cancelled, owner>>
        /\ \A i \in Instances : flag'[i] = flag[i] \/ flag'[i] = "paused"
    BY <1>6 DEF Pause, MayCall, runVars, engineVars
  <2>2. SlowNodes = {}
    BY <2>1 DEF SessionAssumption
  <2>3. /\ \A r \in Runs : Ending(r)' <=> Ending(r)
        /\ task \in Runs /\ phase[task] \in {"created", "supervising"}
    BY <2>1, <2>2 DEF Ending, NewestInv, Active
  <2> QED
    BY <1>0, <2>1, <2>3 DEF WholeInv, Standing, Active
<1>7. ASSUME NEW h \in Handlers, Resume(h) PROVE WholeInv'
  <2>1. /\ status = "paused" /\ status' = "running"
        /\ UNCHANGED <<task, phase, at, cancelled, owner>>
        /\ flag' = [i \in Instances |->
                      IF i \in {j \in Current : flag[j] = "paused"} THEN "running" ELSE flag[i]]
    BY <1>7 DEF Resume, runVars, engineVars
  <2>2. SlowNodes = {}
    BY <2>1 DEF SessionAssumption, NewestInv
  <2>3. /\ \A r \in Runs : Ending(r)' <=> Ending(r)
        /\ task \in Runs /\ phase[task] \in {"created", "supervising"}
    BY <2>1, <2>2 DEF Ending, NewestInv, Active
  <2>4. ASSUME NEW n \in Nodes, owner[n] = task,
               flag[<<task, n>>] \in {"running", "failed", "paused"}
        PROVE  flag'[<<task, n>>] \in {"running", "failed"}
    <3>1. <<task, n>> \in Current /\ <<task, n>> \in Instances
      BY <1>0, <2>3, <2>4 DEF Current
    <3> QED
      BY <2>1, <2>4, <3>1
  <2> QED
    BY <2>1, <2>3, <2>4 DEF WholeInv, Standing, Active
<1>8. ASSUME NEW r \in Runs, RunBegins(r) PROVE WholeInv'
  <2>1. /\ phase[r] = "created" /\ UNCHANGED <<status, task>>
        /\ owner' = [n \in Nodes |-> r] /\ StartFrom(r, 1, flag, {})
    BY <1>8 DEF RunBegins, MayBegin, sessionVars
  <2>2. CASE task = r
    <3>1. /\ 1 \in 1..(NodeCount + 1) /\ {} \in SUBSET Nodes /\ From(1) = Nodes
      BY DEF From, Nodes, SessionAssumption
    <3>2. /\ phase'[r] = "supervising" =>
               \A n \in From(1) : flag'[<<r, n>>] \in {"running", "failed"}
          /\ phase'[r] = "starting" =>
               /\ at'[r] \in From(1)
               /\ flag'[<<r, at'[r]>>] = "init"
               /\ \A n \in From(1) \ From(at'[r]) : flag'[<<r, n>>] \in {"running", "failed"}
      BY <1>0, <2>1, <3>1, StartedFrom
    <3> QED
      BY <2>1, <2>2, <3>1, <3>2 DEF WholeInv, Standing
  <2>3. CASE task # r
    <3>1. Active => task \in Runs /\ phase[task] = "created"
      BY <2>1, <2>3 DEF NewestInv, OrderInv
    <3>2. \A q \in Runs \ {r} : phase'[q] = phase[q]
      BY <1>8, StepStarts
    <3> QED
      BY <2>1, <2>3, <3>1, <3>2 DEF WholeInv, Active
  <2> QED
    BY <2>2, <2>3
<1>9. ASSUME NEW r \in Runs, RunFails(r) PROVE WholeInv'
  BY <1>9 DEF RunFails, WholeInv, Active
<1>10. ASSUME NEW r \in Runs, InitDone(r) PROVE WholeInv'
  <2>1. /\ phase[r] = "starting" /\ r \notin cancelled /\ at[r] \in Nodes
        /\ UNCHANGED <<status, task, cancelled, owner>>
    BY <1>10 DEF InitDone, sessionVars, engineVars, TypeInv
  <2>2. /\ \A q \in Runs \ {r} : phase'[q] = phase[q] /\ at'[q] = at[q]
        /\ \A i \in Instances : i[1] # r => flag'[i] = flag[i]
    BY <1>10, StepStarts
  <2>3. \A q \in Runs : Ending(q) => Ending(q)'
    BY <2>1, <2>2 DEF Ending
  <2>4. CASE task # r
    BY <1>0, <2>1, <2>2, <2>3, <2>4, StaysWhole
  <2>5. CASE task = r /\ Active /\ \A q \in Runs : ~Ending(q)
    <3> DEFINE i == <<r, at[r]>>
               k == at[r] + 1
    <3>1. /\ i \in Instances /\ flag[i] = "init"
          /\ \A n \in Nodes : owner[n] = r
          /\ \A n \in Nodes \ From(at[r]) : flag[<<r, n>>] \in {"running", "failed"}
      BY <1>0, <2>1, <2>5 DEF WholeInv
    <3>2. /\ k \in 1..(NodeCount + 1)
          /\ \A inits \in {{}, {at[r]}} : inits \in SUBSET Nodes
          /\ Nodes \ From(k) = (Nodes \ From(at[r])) \cup {at[r]}
      BY <2>1 DEF From, Nodes, SessionAssumption
    <3>3. PICK new \in {"running", "failed"}, inits \in {{}, {at[r]}} :
            StartFrom(r, k, [flag EXCEPT ![i] = new], inits)
      BY <1>10, <3>1 DEF InitDone
    <3> DEFINE built == [flag EXCEPT ![i] = new]
    <3>4. /\ built \in [Instances -> Flags]
          /\ \A n \in Nodes \ From(k) : built[<<r, n>>] \in {"running", "failed"}
      BY <1>0, <3>1, <3>2 DEF Flags
    <3>5. StartFrom(r, k, built, inits)
      BY <3>3
    <3> HIDE DEF built, k, i
    <3>6. /\ Keeps(r, k, built)
          /\ phase'[r] = "supervising" =>
               \A n \in From(k) : flag'[<<r, n>>] \in {"running", "failed"}
          /\ phase'[r] = "starting" =>
               /\ at'[r] \in From(k)
               /\ flag'[<<r, at'[r]>>] = "init"
               /\ \A n \in From(k) \ From(at'[r]) : flag'[<<r, n>>] \in {"running", "failed"}
      BY <3>2, <3>4, <3>5, StartedFrom
    <3>7. \A n \in Nodes \ From(k) : flag'[<<r, n>>] \in {"running", "failed"}
      <4>1. \A n \in Nodes : <<r, n>> \in Instances /\ <<r, n>>[1] = r /\ <<r, n>>[2] = n
        BY <1>0
      <4> QED
        BY <3>4, <3>6, <4>1 DEF Keeps
    <3> QED
      BY <2>1, <2>5, <3>1, <3>6, <3>7 DEF WholeInv, Standing
  <2>6. CASE ~(Active /\ \A q \in Runs : ~Ending(q))
    BY <2>1, <2>3, <2>6 DEF WholeInv, Active
  <2> QED
    BY <2>4, <2>5, <2>6
<1>11. ASSUME NEW r \in Runs, CancelledEarly(r) PROVE WholeInv'
  <2>1. CASE Active'
    <3>1. /\ phase[r] = "created" /\ UNCHANGED <<status, task, owner, flag>>
          /\ phase' = [phase EXCEPT ![r] = "over"] /\ at' = [at EXCEPT ![r] = 0]
          /\ r \in cancelled /\ cancelled' = cancelled \ {r}
      BY <1>11, <2>1 DEF CancelledEarly, Active, engineVars
    <3>2. task # r
      BY <2>1, <3>1 DEF NewestInv, Active
    <3>3. \A q \in Runs : Ending(q) => Ending(q)'
      BY <1>0, <3>1 DEF Ending
    <3> QED
      BY <1>0, <3>1, <3>2, <3>3, StaysWhole
  <2>2. CASE ~Active'
    BY <2>2 DEF WholeInv
  <2> QED
    BY <2>1, <2>2
<1>12. ASSUME NEW r \in Runs, phase'[r] \in {"pumps", "dispatch", "stopping"} PROVE WholeInv'
  BY <1>12 DEF WholeInv, Ending
<1>13. ASSUME NEW r \in Runs, StopAll(r) \/ PumpsDone(r) \/ Dispatch(r) PROVE WholeInv'
  BY <1>0, <1>12, <1>13 DEF StopAll, PumpsDone, Dispatch
<1>14. ASSUME NEW r \in Runs, StopAllCancelled(r) PROVE WholeInv'
  <2>1. CASE status' = "stopped"
    BY <2>1 DEF WholeInv, Active
  <2>2. CASE phase'[r] = "stopping"
    BY <1>12, <2>2
  <2> QED
    BY <1>14, <2>1, <2>2 DEF StopAllCancelled
<1>15. ASSUME NEW r \in Runs, RunEnds(r) PROVE WholeInv'
  BY <1>15 DEF RunEnds, WholeInv, Active
<1>16. ASSUME NEW i \in Instances, EvictedStops(i) PROVE WholeInv'
  <2>1. /\ i \in evicted /\ UNCHANGED <<status, task, phase, at, cancelled, owner>>
        /\ \A j \in Instances : j # i => flag'[j] = flag[j]
    BY <1>16 DEF EvictedStops, StopNodes, sessionVars, runVars
  <2>2. \A q \in Runs : Ending(q) => Ending(q)'
    BY <2>1 DEF Ending
  <2>3. task \in Runs /\ phase[task] \in {"starting", "supervising"} =>
          \A n \in Nodes : flag'[<<task, n>>] = flag[<<task, n>>]
    BY <1>0, <2>1 DEF OrderInv
  <2> QED
    BY <2>1, <2>2, <2>3, StaysWhole
<1>17. ASSUME NEW i \in Instances, LoopEnds(i) \/ LoopDies(i) PROVE WholeInv'
  BY <1>2, <1>17 DEF LoopEnds, LoopDies, sessionVars, runVars, engineVars
<1>18. ASSUME NEW a \in Callers \cup Runs, NEW i \in Instances, LoopAwaited(a, i)
       PROVE  WholeInv'
  BY <1>2, <1>18 DEF LoopAwaited, sessionVars, runVars, engineVars
<1>19. CASE UNCHANGED vars
  BY <1>2, <1>19 DEF vars, sessionVars, runVars, engineVars, nodeVars
<1> QED
  BY <1>1, <1>3, <1>4, <1>5, <1>6, <1>7, <1>8, <1>9, <1>10, <1>11, <1>13, <1>14, <1>15,
     <1>16, <1>17, <1>18, <1>19 DEF Next, HandlerCall, RunStep

\* However many clients call a session, and however slowly its nodes start:
\* once everything has settled and it reads "running", its newest run
\* supervises, the engine has that run's instances, and all have been started.
THEOREM RunningMeansWhole == Spec => []RunningIsWhole
<1>1. Init => TypeInv /\ ManyInv
  <2> SUFFICES ASSUME Init PROVE TypeInv /\ ManyInv
    OBVIOUS
  <2>1. TypeInv
    BY InitTyped
  <2> QED
    BY <2>1, SessionAssumption
       DEF Init, ManyInv, NewestInv, OrderInv, WholeInv, Active
<1>2. (TypeInv /\ ManyInv) /\ [Next]_vars => (TypeInv /\ ManyInv)'
  BY TypeStep, NewestStep, OrderStep, WholeStep, SessionAssumption DEF ManyInv
<1>3. TypeInv /\ ManyInv => RunningIsWhole
  <2> SUFFICES ASSUME TypeInv, ManyInv, Settled, status = "running"
               PROVE  /\ phase[task] = "supervising"
                      /\ \A n \in Nodes : /\ owner[n] = task
                                          /\ flag[<<task, n>>] \in {"running", "failed"}
    BY DEF RunningIsWhole
  <2>1. Active /\ \A r \in Runs : ~Ending(r)
    BY DEF Active, Settled, Ending
  <2>2. task \in Runs /\ phase[task] = "supervising"
    BY <2>1 DEF ManyInv, NewestInv, Settled
  <2> QED
    BY <2>1, <2>2 DEF ManyInv, WholeInv, Standing
<1> QED
  BY <1>1, <1>2, <1>3, PTL DEF Spec
=============================================================================
