------------------------------ MODULE Registry ------------------------------
(***************************************************************************)
(* core/web_server.py: the nodes that share one id.  _nodes holds one of   *)
(* them, the last that registered; _session_nodes holds one for every      *)
(* session; the route of the id leads to the last whose init() ran.        *)
(*                                                                         *)
(* The nodes are made by the editor (POST /nodes) and by the runs of       *)
(* sessions.  register_node() stops the one that it supersedes, if it is   *)
(* running: by a task that is scheduled, and carried out later.            *)
(*                                                                         *)
(* A definition marked "Defect" is a wrong version of the one after it, to *)
(* check that the properties would notice; no specification uses it.       *)
(***************************************************************************)
EXTENDS Naturals, FiniteSets

CONSTANTS
  Copies,     \* the node objects with this id
  Sessions,
  Editor,     \* who owns the nodes that no session has made
  NoCopy

ASSUME RegistryAssumption == Editor \notin Sessions /\ NoCopy \notin Copies

VARIABLES
  selfRegisters,  \* whether init() of this type registers the node, and its route
  owner,          \* who made each node; a node that was not made yet has none
  life,           \* "made", "running", "paused" or "stopped"
  registered,     \* _nodes[id]
  ofSession,      \* _session_nodes[session][id]
  route,          \* the node that the route's handler closes over
  stops,          \* the nodes whose stop() is scheduled
  session,        \* status of a session: "idle", "running", "ending" or "deleted"
  current,        \* the node of the session's engine
  strays          \* history: the nodes that lost the id with nobody to stop them,
                  \* and were not stopped since

registryVars ==
  <<selfRegisters, owner, life, registered, ofSession, route, stops, session, current,
    strays>>

NoOwner == "nobody"

RegistryInit ==
  /\ selfRegisters \in BOOLEAN
  /\ owner = [n \in Copies |-> NoOwner]
  /\ life = [n \in Copies |-> "stopped"]
  /\ registered = NoCopy
  /\ ofSession = [s \in Sessions |-> NoCopy]
  /\ route = NoCopy
  /\ stops = {}
  /\ session = [s \in Sessions |-> "idle"]
  /\ current = [s \in Sessions |-> NoCopy]
  /\ strays = {}

-----------------------------------------------------------------------------
(* register_node(n), for a node of the owner o.                            *)

Superseded(n) == {registered} \ {n, NoCopy}

\* Defect: a node is left to itself when another takes its place.
StoppedForNone(n) == {}

StoppedFor(n) == {m \in Superseded(n) : life[m] = "running"}

RegisterNode(n, o) ==
  /\ registered' = n
  /\ stops' = stops \cup StoppedFor(n)
  /\ ofSession' = [s \in Sessions |-> IF s = o THEN n ELSE ofSession[s]]
  /\ strays' = (strays \ {n}) \cup {m \in Superseded(n) : life[m] \in {"made", "paused"}}

\* Defect: the route of an id is never taken from the node that has it.
FirstRoute(n) == IF route = NoCopy THEN n ELSE route

\* register_route(): what was registered under the name is dropped.
RouteTo(n) == n

\* init(): the types that face HTTP register themselves, and their route; the
\* others leave both alone.
InitNode(n) ==
  IF selfRegisters
  THEN /\ RegisterNode(n, owner[n])
       /\ route' = RouteTo(n)
  ELSE UNCHANGED <<registered, stops, ofSession, strays, route>>

\* A node object that was not there yet: which one does not matter.
Unmade == {n \in Copies : owner[n] = NoOwner}
IsNew(n) == Unmade # {} /\ n = CHOOSE m \in Unmade : TRUE

-----------------------------------------------------------------------------
(* The editor, and other clients that know the id.                         *)

\* POST /nodes: start() is scheduled.
CreateNode(n) ==
  /\ IsNew(n)
  /\ registered = NoCopy
  /\ owner' = [owner EXCEPT ![n] = Editor]
  /\ life' = [life EXCEPT ![n] = "made"]
  /\ registered' = n
  /\ UNCHANGED <<selfRegisters, ofSession, route, stops, session, current, strays>>

Begins(n) ==
  /\ InitNode(n)
  /\ life' = [life EXCEPT ![n] = "running"]
  /\ UNCHANGED <<selfRegisters, owner, session, current>>

\* The scheduled start() of a node that was created.
EditorNodeBegins(n) == owner[n] = Editor /\ life[n] = "made" /\ Begins(n)

\* POST /nodes/{id}/start, for a node that was stopped or did not begin yet.
StartNode(n) ==
  /\ registered = n
  /\ life[n] \in {"made", "stopped"}
  /\ Begins(n)

\* Pausing, resuming and stopping, by id, by the session, or by a control
\* wire: a node that is paused goes on listening to its control wires, which
\* reach it when its id does not.
Tell(n, from, to) ==
  /\ life[n] \in from
  /\ life' = [life EXCEPT ![n] = to]
  /\ strays' = IF to = "stopped" THEN strays \ {n} ELSE strays
  /\ UNCHANGED <<selfRegisters, owner, registered, ofSession, route, stops, session, current>>
PauseNode(n)  == Tell(n, {"running"}, "paused")
ResumeNode(n) == Tell(n, {"paused"}, "running")
StopNode(n)   == Tell(n, {"running", "paused"}, "stopped")

\* DELETE /nodes/{id}: a node still to be started is started all the same.
DeleteNode(n) ==
  /\ registered = n
  /\ registered' = NoCopy
  /\ life' = [life EXCEPT ![n] = IF @ = "made" THEN @ ELSE "stopped"]
  /\ strays' = IF life[n] = "made" THEN strays \cup {n} ELSE strays \ {n}
  /\ UNCHANGED <<selfRegisters, owner, ofSession, route, stops, session, current>>

\* process() has raised, and init() runs again before the retry.
RetryNode(n) ==
  /\ life[n] = "running"
  /\ InitNode(n)
  /\ UNCHANGED <<selfRegisters, owner, life, session, current>>

\* The stop() that register_node() has scheduled.
ScheduledStop(n) ==
  /\ n \in stops
  /\ stops' = stops \ {n}
  /\ life' = [life EXCEPT ![n] = "stopped"]
  /\ strays' = strays \ {n}
  /\ UNCHANGED <<selfRegisters, owner, registered, ofSession, route, session, current>>

-----------------------------------------------------------------------------
(* Sessions.  What a session does beside its nodes is in SessionEngine.    *)

\* A run makes and registers its nodes; it starts them one after the other,
\* so the init() of another one may come between.
StartSession(s, n) ==
  /\ session[s] = "idle"
  /\ IsNew(n)
  /\ session' = [session EXCEPT ![s] = "running"]
  /\ owner' = [owner EXCEPT ![n] = s]
  /\ life' = [life EXCEPT ![n] = "made"]
  /\ current' = [current EXCEPT ![s] = n]
  /\ RegisterNode(n, s)
  /\ UNCHANGED <<selfRegisters, route>>

SessionNodeBegins(s) ==
  /\ session[s] \in {"running", "ending"}
  /\ current[s] # NoCopy
  /\ life[current[s]] = "made"
  /\ Begins(current[s])

\* The run is cancelled: its nodes are stopped, or not started any more.
StopSession(s) ==
  /\ session[s] \in {"running", "ending"}
  /\ session' = [session EXCEPT ![s] = IF @ = "ending" THEN "deleted" ELSE "idle"]
  /\ life' = [life EXCEPT ![current[s]] = "stopped"]
  /\ current' = [current EXCEPT ![s] = NoCopy]
  /\ strays' = strays \ {current[s]}
  /\ UNCHANGED <<selfRegisters, owner, registered, ofSession, route, stops>>

\* DELETE /sessions/{id}, with unregister_session(): the session's stop() is
\* scheduled, if it runs.  A node that was started by id beside it, or after it
\* had stopped, loses the id and goes on.
DeleteSession(s) ==
  /\ session[s] \in {"idle", "running"}
  /\ session' = [session EXCEPT ![s] = IF @ = "running" THEN "ending" ELSE "deleted"]
  /\ registered' = IF registered = ofSession[s] THEN NoCopy ELSE registered
  /\ ofSession' = [ofSession EXCEPT ![s] = NoCopy]
  /\ strays' = strays \cup {n \in {registered} \ {NoCopy, current[s]} :
                            n = ofSession[s] /\ life[n] # "stopped"}
  /\ UNCHANGED <<selfRegisters, owner, life, route, stops, current>>

RegistryNext ==
  \/ \E n \in Copies :
       \/ CreateNode(n) \/ EditorNodeBegins(n) \/ StartNode(n)
       \/ PauseNode(n) \/ ResumeNode(n) \/ StopNode(n)
       \/ DeleteNode(n) \/ RetryNode(n) \/ ScheduledStop(n)
       \/ \E s \in Sessions : StartSession(s, n)
  \/ \E s \in Sessions : SessionNodeBegins(s) \/ StopSession(s) \/ DeleteSession(s)

RegistrySpec == RegistryInit /\ [][RegistryNext]_registryVars

-----------------------------------------------------------------------------
(* Properties.                                                             *)

\* Requests over HTTP reach the node that the id names, while it runs: however
\* nodes supersede each other, retry, and come back.
RouteFollows ==
  selfRegisters /\ registered # NoCopy /\ life[registered] = "running" => route = registered

\* A node runs without having the id only if its stop() is on its way (that of
\* a superseded node, or of a deleted session), or if it was not running yet, or
\* paused, when it was superseded or deleted, or if it was started by id beside
\* the session that was deleted.
OnlyStraysRunOn ==
  \A n \in Copies :
    life[n] = "running" /\ n # registered =>
      \/ n \in stops \cup strays
      \/ \E s \in Sessions : session[s] = "ending" /\ current[s] = n

RegistryKept == RouteFollows /\ OnlyStraysRunOn

\* Claimed, and not so: sessions that share an id hide each other's nodes
\* from those who look for the id, and leave the nodes alone: none is stopped
\* while its session runs.
SessionsRunOn == \A s \in Sessions : session[s] = "running" => current[s] \notin stops
=============================================================================
