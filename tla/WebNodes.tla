------------------------------ MODULE WebNodes ------------------------------
(***************************************************************************)
(* The node types that face browsers and HTTP clients: outputs that show   *)
(* their items as event streams, and inputs that are posted to.  Their     *)
(* handlers are routes of the shared web server: they are registered by    *)
(* init() and outlive the tasks of the node, so streams are read and posts *)
(* arrive whether the node runs or not.                                    *)
(*                                                                         *)
(* A definition marked "Defect" is a wrong version of the one after it, to *)
(* check that the properties would notice; no specification uses it.       *)
(***************************************************************************)
EXTENDS NodeLoop

CONSTANT Room  \* the size of the queue towards the streams: 1000 in the code

ASSUME WebAssumption == Room \in Nat \ {0}

WebType(t, ports) ==
  [type |-> t, ports |-> ports, polls |-> "named", opt |-> <<>>, varies |-> {}]

WebOutputs == {WebType(t, <<"in">>) : t \in {"web_output", "web_output_json", "output_api"}}
WebInputs  == {WebType(t, <<>>) : t \in {"user_input", "input_web", "input_api"}}
WebTypes   == WebOutputs \cup WebInputs

-----------------------------------------------------------------------------
(* mem.queue waits for the streams, mem.streams is how many are open, and  *)
(* mem.shown (history) what they took from this queue: an item goes to one *)
(* of them.  What a stream begins with, the last twenty items of the live  *)
(* view, it takes from nobody and is left out.                             *)

\* Defect: a full queue keeps what it has.
EnqueueOldest(q, i) == IF Len(q) < Room THEN Append(q, i) ELSE q

\* put_nowait(); a full queue drops its oldest item first.
Enqueue(q, i) == Append(IF Len(q) < Room THEN q ELSE Tail(q), i)

Streams(type, ports) ==
  Each(type, LAMBDA s, p, i :
    [Give(s, i, ports, "input") EXCEPT !.mem.queue = Enqueue(@, i)])

WebOutput     == Streams("web_output", <<"out">>)
WebOutputJSON == Streams("web_output_json", <<"out">>)
ApiOutput     == Streams("output_api", <<"out", "raw">>)

\* Somebody reads a queue, or changes it, by way of a route.
Serve(types, m, o) ==
  /\ node.type \in types
  /\ mem # <<>>
  /\ mem' = m
  /\ out' = o
  /\ UNCHANGED <<node, envVars, lifeVars, loopVars, pipe, got, base>>

Streaming == {"web_output", "web_output_json", "output_api", "user_input"}

StreamOpens  == mem.streams < 2 /\ Serve(Streaming, [mem EXCEPT !.streams = @ + 1], out)
StreamCloses == mem.streams > 0 /\ Serve(Streaming, [mem EXCEPT !.streams = @ - 1], out)
StreamTakes ==
  /\ mem.streams > 0
  /\ mem.queue # <<>>
  /\ Serve(Streaming,
       [mem EXCEPT !.queue = Tail(@), !.shown = Append(@, Head(mem.queue))], out)

-----------------------------------------------------------------------------
(* Posts are numbered.  mem.posts are those being handled: each waits for  *)
(* its body, or for room in the queue that was the node's when it asked    *)
(* (the one of the init() that p.queue counts).  mem.open (history): those *)
(* that were being handled when a task of the node was cancelled.          *)

Running == life = "running"

Emits(m, n) ==
  Serve({node.type}, m,
        Append(out, Emission(n, <<"out">>, IF Running THEN "data" ELSE "late")))

\* A WebInputNode's and an ApiInputNode's handler does not await.
PostJSON ==
  /\ node.type \in {"input_web", "input_api"}
  /\ mem.posted < MaxItems
  /\ LET m == [mem EXCEPT !.posted = @ + 1]
     IN IF Running THEN Emits(m, m.posted) ELSE Serve({node.type}, m, out)

\* A UserInputNode looks whether it runs before it has the body.
PostArrives ==
  /\ mem.posted < MaxItems
  /\ LET m == [mem EXCEPT !.posted = @ + 1]
     IN Serve({"user_input"},
          IF Running THEN [m EXCEPT !.posts = @ \cup {[n |-> m.posted, queue |-> 0]}] ELSE m, out)

Accepted(p) == [mem EXCEPT !.queue = Append(@, p.n), !.posts = @ \ {p}]

\* Defect: the value is emitted before the queue has taken it.
PostIsReadEarly(p) ==
  /\ p.queue = 0
  /\ IF Len(mem.queue) < Room THEN Emits(Accepted(p), p.n)
     ELSE Emits([mem EXCEPT !.posts = (@ \ {p}) \cup {[p EXCEPT !.queue = starts]}], p.n)

\* put() waits while the queue is full: forever, if it is replaced meanwhile.
PostIsRead(p) ==
  /\ p.queue = 0
  /\ IF Len(mem.queue) < Room THEN Emits(Accepted(p), p.n)
     ELSE Serve({"user_input"},
            [mem EXCEPT !.posts = (@ \ {p}) \cup {[p EXCEPT !.queue = starts]}], out)
PostFits(p) ==
  /\ p.queue = starts
  /\ Len(mem.queue) < Room
  /\ Emits(Accepted(p), p.n)

-----------------------------------------------------------------------------

WebStep == WebOutput \/ WebOutputJSON \/ ApiOutput

RouteStep ==
  /\ mem # <<>>
  /\ \/ node.type \in Streaming /\ (StreamOpens \/ StreamCloses \/ StreamTakes)
     \/ PostJSON
     \/ node.type = "user_input" /\ \/ PostArrives
                                    \/ \E p \in mem.posts : PostIsRead(p) \/ PostFits(p)

\* init() makes a new queue; streams and posts are not the node's to end.
\* mem.since (history): what had been emitted before.
WebMem ==
  LET m == IF mem = <<>> THEN [streams |-> 0, posted |-> 0, posts |-> {}, open |-> {}] ELSE mem
  IN [queue |-> <<>>, shown |-> <<>>, since |-> Len(out),
      streams |-> m.streams, posted |-> m.posted, posts |-> m.posts, open |-> m.open]

WebCut(next) ==
  /\ life # "stopped"
  /\ life # next
  /\ life' = next
  /\ Cancel
  /\ mem' = [mem EXCEPT !.open = @ \cup {p.n : p \in mem.posts}]
  /\ UNCHANGED <<node, envVars, starts, pipe, out, got, base>>

-----------------------------------------------------------------------------
(* Properties.                                                             *)

\* The streams of an output share its items: together they show each item at
\* most once and in order, and what is neither shown nor waiting was dropped
\* while as many newer ones waited as the queue has room for.
StreamsShare ==
  node \in WebOutputs /\ mem # <<>> =>
    LET kept == mem.shown \o mem.queue
    IN /\ \A j, k \in DOMAIN kept : j < k => kept[j].n < kept[k].n
       /\ \A j \in DOMAIN Fresh :
            Contains(kept, Fresh[j]) \/ Len(Fresh) - j >= Room

\* What a UserInputNode emits is what its streams show, in the same order,
\* whichever posts had to wait for room and whenever the node was stopped.
PostsAreShown ==
  node.type = "user_input" /\ mem # <<>> =>
    mem.shown \o mem.queue =
      [k \in 1..(Len(out) - mem.since) |-> out[mem.since + k].item]

\* A node that is paused or stopped emits nothing but posts that were being
\* handled when it was: one that is still waiting for its body, or for room.
OnlyStragglers ==
  node \in WebInputs =>
    \A k \in DOMAIN out : out[k].form = "late" => out[k].item \in mem.open
=============================================================================
