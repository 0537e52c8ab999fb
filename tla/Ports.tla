------------------------------- MODULE Ports -------------------------------
(***************************************************************************)
(* What surrounds the loop of a node: its ports (InputPort, OutputPort),   *)
(* the counters read from it (Metrics), the id it shares with others       *)
(* (Registry) and the graph it is started with (GraphRun).  The five share *)
(* no state, so a behaviour goes through one.                              *)
(***************************************************************************)
EXTENDS InputPort, OutputPort, Metrics, Registry, GraphRun

VARIABLE part    \* the one a behaviour is about

vars == <<part, inputVars, outputVars, metricVars, registryVars, graphVars>>

Init ==
  /\ part \in {"input", "output", "metrics", "registry", "graph"}
  /\ InputInit /\ OutputInit /\ MetricsInit /\ RegistryInit /\ GraphInit

Next ==
  \/ /\ part = "input" /\ InputNext
     /\ UNCHANGED <<part, outputVars, metricVars, registryVars, graphVars>>
  \/ /\ part = "output" /\ OutputNext
     /\ UNCHANGED <<part, inputVars, metricVars, registryVars, graphVars>>
  \/ /\ part = "metrics" /\ MetricsNext
     /\ UNCHANGED <<part, inputVars, outputVars, registryVars, graphVars>>
  \/ /\ part = "registry" /\ RegistryNext
     /\ UNCHANGED <<part, inputVars, outputVars, metricVars, graphVars>>
  \/ /\ part = "graph" /\ GraphNext
     /\ UNCHANGED <<part, inputVars, outputVars, metricVars, registryVars>>

Spec == Init /\ [][Next]_vars
=============================================================================
