------------------------------ MODULE Metrics ------------------------------
(***************************************************************************)
(* core/metrics.py: a counter that outlives the nodes it is read from.     *)
(*                                                                         *)
(* Each node keeps totals of its own (items in and out, errors).  Every    *)
(* scrape adds to a counter what the total of the node registered under    *)
(* its id has grown since the scrape before.  Several instances may have   *)
(* one id, one after another or in turn: the canvas's own node and those   *)
(* of sessions; several types register themselves again in init().         *)
(*                                                                         *)
(* A definition marked "Defect" is a wrong version of the one after it, to *)
(* check that the properties would notice; no specification uses it.       *)
(***************************************************************************)
EXTENDS Naturals, FiniteSets

CONSTANTS
  Instances,   \* the nodes of one id
  NoInstance,  \* nobody has the id
  MaxCounted   \* how much the nodes count, all together; and how much of it
               \* those have that get the id back

ASSUME MetricsAssumption ==
  /\ NoInstance \notin Instances
  /\ MaxCounted \in Nat

VARIABLES
  known,      \* the instance in _nodes
  total,      \* items_in + items_out of each instance, or its error_count
  seen,       \* _last_seen of the id
  counter,    \* the counter of the id
  processed,  \* history: what all instances have counted
  regained,   \* history: the totals of those that got the id after another
  forgotten   \* history: whether a total was set back, or left _nodes

metricVars == <<known, total, seen, counter, processed, regained, forgotten>>

MetricsInit ==
  /\ known = NoInstance
  /\ total = [i \in Instances |-> 0]
  /\ seen = 0 /\ counter = 0
  /\ processed = 0 /\ regained = 0 /\ forgotten = FALSE

\* An item is read or emitted, by a node that has the id or has lost it.
Count(i) ==
  /\ processed < MaxCounted
  /\ total' = [total EXCEPT ![i] = @ + 1]
  /\ processed' = processed + 1
  /\ forgotten' = (forgotten \/ known # i)
  /\ UNCHANGED <<known, seen, counter, regained>>

\* reset().
ResetTotals(i) ==
  /\ total' = [total EXCEPT ![i] = 0]
  /\ forgotten' = (forgotten \/ total[i] # 0)
  /\ UNCHANGED <<known, seen, counter, processed, regained>>

\* register_node().
Register(i) ==
  /\ known # i
  /\ regained + total[i] <= MaxCounted
  /\ known' = i
  /\ regained' = regained + total[i]
  /\ forgotten' = (forgotten \/ known # NoInstance)
  /\ UNCHANGED <<total, seen, counter, processed>>

\* A node is deleted, or its session is.
Unregister ==
  /\ known # NoInstance
  /\ known' = NoInstance
  /\ forgotten' = TRUE
  /\ UNCHANGED <<total, seen, counter, processed, regained>>

\* Defect: a scrape adds the totals themselves, as it did once.
ScrapeTotals ==
  /\ counter' = IF known = NoInstance THEN counter ELSE counter + total[known]
  /\ seen' = IF known = NoInstance THEN 0 ELSE total[known]
  /\ UNCHANGED <<known, total, processed, regained, forgotten>>

\* update_metrics(): a counter only grows; what was seen of an id nobody has is
\* forgotten.
Scrape ==
  /\ counter' = IF known # NoInstance /\ total[known] > seen
                THEN counter + (total[known] - seen) ELSE counter
  /\ seen' = IF known = NoInstance THEN 0 ELSE total[known]
  /\ UNCHANGED <<known, total, processed, regained, forgotten>>

MetricsNext ==
  \/ \E i \in Instances : Count(i) \/ ResetTotals(i) \/ Register(i)
  \/ Unregister \/ Scrape

MetricsSpec == MetricsInit /\ [][MetricsNext]_metricVars

-----------------------------------------------------------------------------
(* Properties.                                                             *)

\* Repeated scrapes add nothing twice: a counter says more than the nodes have
\* counted only by what an instance brings along that gets its id back from
\* another one.  While one instance keeps the id and is not reset, the counter
\* misses only what came after the last scrape.
CountedOnce ==
  /\ counter <= processed + regained
  /\ ~forgotten /\ known # NoInstance => counter + (total[known] - seen) = processed
=============================================================================
