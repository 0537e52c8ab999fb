------------------------ MODULE DeviceNodes_proofs ------------------------
(***************************************************************************)
(* Proofs about the nodes that hand what they read to something outside (a *)
(* service, a person, clients, a thread, inner nodes, the streams of a     *)
(* page), as node types, for any number of items and calls: it comes back  *)
(* once and in order, but for what the cuts of the node's task account     *)
(* for.                                                                    *)
(***************************************************************************)
EXTENDS BufferNodes_proofs

-----------------------------------------------------------------------------
(* What is posted to a UserInputNode is shown as it was emitted.           *)

\* What was emitted after the first n.
Since(o, n) == [k \in 1..(Len(o) - n) |-> o[n + k].item]

LEMMA SinceMore ==
  ASSUME NEW S, NEW o, IsSeq(o), NEW n \in 0..Len(o), Since(o, n) \in Seq(S), NEW e, e.item \in S
  PROVE  Since(Append(o, e), n) = Append(Since(o, n), e.item)
<1> DEFINE a == Append(o, e)
           u == Since(o, n)
           v == Append(u, e.item)
           w == Since(a, n)
<1>1. /\ Len(o) \in Nat /\ Len(a) = Len(o) + 1
      /\ \A k \in 1..Len(o) : a[k] = o[k]
      /\ a[Len(o) + 1] = e
  BY AppendSeq
<1> HIDE DEF a
<1>2. /\ DOMAIN u = 1..(Len(o) - n) /\ \A k \in 1..(Len(o) - n) : u[k] = o[n + k].item
      /\ DOMAIN w = 1..((Len(o) + 1) - n)
      /\ \A k \in 1..((Len(o) + 1) - n) : w[k] = a[n + k].item
      /\ w = [k \in 1..((Len(o) + 1) - n) |-> w[k]]
  BY <1>1 DEF Since
<1>3. u \in Seq(S) /\ Len(u) = Len(o) - n
  BY <1>1, <1>2
<1> HIDE DEF u, w
<1>4. /\ v \in Seq(S) /\ Len(v) = (Len(o) + 1) - n
      /\ \A k \in 1..(Len(o) - n) : v[k] = u[k]
      /\ v[(Len(o) - n) + 1] = e.item
  BY <1>1, <1>3
<1>5. v = [k \in 1..((Len(o) + 1) - n) |-> v[k]]
  BY <1>4
<1> HIDE DEF v
<1>6. ASSUME NEW k \in 1..((Len(o) + 1) - n) PROVE w[k] = v[k]
  <2>1. CASE k = (Len(o) - n) + 1
    <3>1. n + k = Len(o) + 1
      BY <1>1, <2>1
    <3> QED
      BY <1>1, <1>2, <1>4, <2>1, <3>1
  <2>2. CASE k # (Len(o) - n) + 1
    <3>1. k \in 1..(Len(o) - n) /\ n + k \in 1..Len(o)
      BY <1>1, <2>2
    <3> QED
      BY <1>1, <1>2, <1>4, <3>1
  <2> QED
    BY <2>1, <2>2
<1> QED
  BY <1>2, <1>5, <1>6 DEF a, u, v, w

\* An item goes from the head of what waits to the end of what was shown.
LEMMA HandedOn ==
  ASSUME NEW S, NEW s \in Seq(S), NEW q \in Seq(S), q # <<>>
  PROVE  /\ Append(s, Head(q)) \o Tail(q) = s \o q
         /\ Append(s, Head(q)) \in Seq(S) /\ Tail(q) \in Seq(S) /\ Head(q) \in S
         /\ Len(Tail(q)) = Len(q) - 1 /\ Len(q) \in Nat
<1> DEFINE a == Append(s, Head(q))
           t == Tail(q)
           u == a \o t
           v == s \o q
<1>1. /\ Len(s) \in Nat /\ Len(q) \in Nat \ {0} /\ Head(q) \in S /\ Head(q) = q[1]
      /\ a \in Seq(S) /\ Len(a) = Len(s) + 1
      /\ \A k \in 1..Len(s) : a[k] = s[k]
      /\ a[Len(s) + 1] = Head(q)
      /\ t \in Seq(S) /\ Len(t) = Len(q) - 1
      /\ \A k \in 1..(Len(q) - 1) : t[k] = q[k + 1]
  OBVIOUS
<1> HIDE DEF a, t
<1>2. /\ u \in Seq(S) /\ Len(u) = Len(a) + Len(t)
      /\ \A k \in 1..Len(a) : u[k] = a[k]
      /\ \A k \in (Len(a) + 1)..(Len(a) + Len(t)) : u[k] = t[k - Len(a)]
  <2>1. a \in Seq(S) /\ t \in Seq(S)
    BY <1>1
  <2> QED
    BY <2>1
<1>5. /\ v \in Seq(S) /\ Len(v) = Len(s) + Len(q)
      /\ \A k \in 1..Len(s) : v[k] = s[k]
      /\ \A k \in (Len(s) + 1)..(Len(s) + Len(q)) : v[k] = q[k - Len(s)]
  OBVIOUS
<1> HIDE DEF u, v
<1>3. ASSUME NEW k \in 1..(Len(s) + Len(q)) PROVE u[k] = v[k]
  <2>1. CASE k \in 1..Len(s)
    <3>1. k \in 1..Len(a)
      BY <1>1, <2>1
    <3> QED
      BY <1>1, <1>2, <1>5, <2>1, <3>1
  <2>2. CASE k = Len(s) + 1
    <3>1. k \in 1..Len(a) /\ k - Len(s) = 1 /\ k \in (Len(s) + 1)..(Len(s) + Len(q))
      BY <1>1, <2>2
    <3>2. v[k] = q[k - Len(s)]
      BY <1>2, <1>5, <3>1
    <3> QED
      BY <1>1, <1>2, <2>2, <3>1, <3>2
  <2>3. CASE k > Len(s) + 1
    <3>1. /\ k \in (Len(a) + 1)..(Len(a) + Len(t)) /\ k \in (Len(s) + 1)..(Len(s) + Len(q))
          /\ k - Len(a) \in 1..(Len(q) - 1) /\ (k - Len(a)) + 1 = k - Len(s)
      BY <1>1, <2>3
    <3>2. u[k] = t[k - Len(a)] /\ v[k] = q[k - Len(s)]
      BY <1>2, <1>5, <3>1
    <3>3. t[k - Len(a)] = q[(k - Len(a)) + 1]
      BY <1>1, <3>1
    <3> QED
      BY <3>1, <3>2, <3>3
  <2> QED
    BY <1>1, <2>1, <2>2, <2>3
<1>4. u = v
  <2>1. Len(u) = Len(v) /\ Len(u) = Len(s) + Len(q)
    BY <1>1, <1>2, <1>5
  <2> QED
    BY <1>2, <1>3, <1>5, <2>1, SameSeq
<1> QED
  BY <1>1, <1>4 DEF a, t, u, v

LEMMA JoinAppend ==
  ASSUME NEW S, NEW s \in Seq(S), NEW q \in Seq(S), NEW i \in S
  PROVE  s \o Append(q, i) = Append(s \o q, i)
OBVIOUS

LEMMA JoinTyped ==
  ASSUME NEW S, NEW s \in Seq(S), NEW q \in Seq(S)
  PROVE  s \o q \in Seq(S)
OBVIOUS

\* What is shown of a UserInputNode's posts, and what waits to be, is what it
\* has emitted since its init().
ShownKept(m, o) ==
  /\ m.posted \in Nat /\ \A p \in m.posts : p.n \in Nat
  /\ m.since \in 0..Len(o)
  /\ m.shown \in Seq(Nat) /\ m.queue \in Seq(Nat)
  /\ m.shown \o m.queue = Since(o, m.since)

ShownInv == node.type = "user_input" /\ mem # <<>> => ShownKept(mem, out)

LEMMA SinceNone == ASSUME NEW o, Len(o) \in Nat PROVE Since(o, Len(o)) = <<>>
<1>1. 1..(Len(o) - Len(o)) = {}
  OBVIOUS
<1> QED
  BY <1>1 DEF Since

LEMMA ShownMore ==
  ASSUME NEW m, NEW o, IsSeq(o), ShownKept(m, o), NEW e, e.item \in Nat,
         NEW m1, m1.posted = m.posted, m1.posts \subseteq m.posts, m1.since = m.since,
         m1.shown = m.shown, m1.queue = Append(m.queue, e.item)
  PROVE  ShownKept(m1, Append(o, e))
<1>1. /\ Len(o) \in Nat /\ Len(Append(o, e)) = Len(o) + 1
      /\ m.since \in 0..Len(o)
      /\ m.shown \in Seq(Nat) /\ m.queue \in Seq(Nat)
      /\ m.shown \o m.queue = Since(o, m.since)
  BY AppendSeq DEF ShownKept
<1>2. Since(o, m.since) \in Seq(Nat)
  <2>1. m.shown \o m.queue \in Seq(Nat)
    BY <1>1, JoinTyped
  <2> QED
    BY <1>1, <2>1
<1>3. Since(Append(o, e), m.since) = Append(Since(o, m.since), e.item)
  BY <1>1, <1>2, SinceMore
<1>4. m.shown \o Append(m.queue, e.item) = Append(m.shown \o m.queue, e.item)
  <2>1. ASSUME NEW s \in Seq(Nat), NEW q \in Seq(Nat), NEW i \in Nat
        PROVE  s \o Append(q, i) = Append(s \o q, i)
    BY JoinAppend
  <2> QED
    BY <1>1, <2>1
<1>5. m.since \in 0..(Len(o) + 1) /\ Append(m.queue, e.item) \in Seq(Nat)
  BY <1>1
<1> QED
  BY <1>1, <1>3, <1>4, <1>5 DEF ShownKept

LEMMA ShownStep ==
  ASSUME node \in AllTypes, node' = node, PostsInv, ShownInv, [Next]_vars
  PROVE  ShownInv'
<1> SUFFICES ASSUME node.type = "user_input", mem' # <<>> PROVE ShownKept(mem', out')
  BY DEF ShownInv
<1>1. node.type \in InputNames
  BY DEF InputNames
<1>2. /\ pc \in {"none", "loop"} /\ IsSeq(out) /\ Len(out) \in Nat
      /\ mem # <<>> => DOMAIN mem = PostFields /\ ShownKept(mem, out)
      /\ mem # <<>> => \A p \in mem.posts : DOMAIN p = {"n", "queue"}
  BY <1>1, AppendSeq DEF PostsInv, NotYet, PostsKept, ShownInv
<1>3. InputStep
  BY <1>1, <1>2, InputNext
<1>4. ASSUME NEW m, DOMAIN m = PostFields, mem # <<>>, m.posted \in Nat, \A p \in m.posts : p.n \in Nat,
             m.since = mem.since, m.shown \o m.queue = mem.shown \o mem.queue,
             m.shown \in Seq(Nat), m.queue \in Seq(Nat)
      PROVE  ShownKept(m, out)
  BY <1>2, <1>4 DEF ShownKept
<1>5. CASE Idle \/ Resume(<<>>)
  BY <1>2, <1>5 DEF Idle, Resume, dataVars
<1>6. CASE Start(WebMem, <<>>)
  <2>1. mem' = WebMem /\ out' = out
    BY <1>6 DEF Start
  <2>2. /\ WebMem.queue = <<>> /\ WebMem.shown = <<>> /\ WebMem.since = Len(out)
        /\ WebMem.posted = (IF mem = <<>> THEN 0 ELSE mem.posted)
        /\ WebMem.posts = (IF mem = <<>> THEN {} ELSE mem.posts)
    BY DEF WebMem
  <2>3. WebMem.posted \in Nat /\ \A p \in WebMem.posts : p.n \in Nat
    <3>1. CASE mem = <<>>
      BY <2>2, <3>1
    <3>2. CASE mem # <<>>
      <4>1. WebMem.posted = mem.posted /\ WebMem.posts = mem.posts
        BY <2>2, <3>2
      <4> QED
        BY <1>2, <3>2, <4>1 DEF ShownKept
    <3> QED
      BY <3>1, <3>2
  <2>4. <<>> \o <<>> = <<>> /\ <<>> \in Seq(Nat)
    OBVIOUS
  <2>5. Len(out) \in 0..Len(out)
    BY <1>2
  <2> QED
    BY <1>2, <2>1, <2>2, <2>3, <2>4, <2>5, SinceNone DEF ShownKept
<1>7. CASE \E next \in {"paused", "stopped"} : WebCut(next)
  <2>1. mem' = [mem EXCEPT !.open = @ \cup {p.n : p \in mem.posts}] /\ out' = out /\ mem # <<>>
    <3>1. life # "stopped"
      BY <1>7 DEF WebCut
    <3>2. starts # 0
      BY <1>1, <3>1 DEF PostsInv, NotYet
    <3>3. DOMAIN mem = PostFields
      BY <1>1, <3>2 DEF PostsInv, PostsKept
    <3> QED
      BY <1>7, <3>3 DEF WebCut, PostFields
  <2> QED
    BY <1>2, <2>1 DEF PostFields, ShownKept
<1>8. CASE mem # <<>> /\ RouteStep
  <2>1. /\ DOMAIN mem = PostFields /\ ShownKept(mem, out)
        /\ \A p \in mem.posts : DOMAIN p = {"n", "queue"}
    BY <1>2, <1>8
  <2>2. ~PostJSON
    BY DEF PostJSON
  <2>3. CASE StreamOpens \/ StreamCloses
    <3>1. PICK n : Serve(Streaming, [mem EXCEPT !.streams = n], out)
      BY <2>3 DEF StreamOpens, StreamCloses
    <3> QED
      BY <2>1, <3>1 DEF Serve, PostFields, ShownKept
  <2>4. CASE StreamTakes
    <3>1. /\ mem.queue # <<>> /\ out' = out
          /\ mem' = [mem EXCEPT !.queue = Tail(@), !.shown = Append(@, Head(mem.queue))]
      BY <2>4 DEF StreamTakes, Serve
    <3>2. mem.shown \in Seq(Nat) /\ mem.queue \in Seq(Nat)
      BY <2>1 DEF ShownKept
    <3>3. /\ Append(mem.shown, Head(mem.queue)) \o Tail(mem.queue) = mem.shown \o mem.queue
          /\ Append(mem.shown, Head(mem.queue)) \in Seq(Nat) /\ Tail(mem.queue) \in Seq(Nat)
      BY <3>1, <3>2, HandedOn
    <3>4. /\ mem'.queue = Tail(mem.queue) /\ mem'.shown = Append(mem.shown, Head(mem.queue))
          /\ mem'.posted = mem.posted /\ mem'.posts = mem.posts /\ mem'.since = mem.since
      BY <2>1, <3>1 DEF PostFields
    <3> QED
      BY <2>1, <3>1, <3>3, <3>4 DEF ShownKept
  <2>5. CASE PostArrives
    <3>1. PICK more : more = [mem EXCEPT !.posted = @ + 1]
      OBVIOUS
    <3>2. PICK p : p = [n |-> more.posted, queue |-> 0]
      OBVIOUS
    <3>3. PICK m : m = [more EXCEPT !.posts = @ \cup {p}]
      OBVIOUS
    <3>4. mem' = (IF Running THEN m ELSE more) /\ out' = out
      BY <2>5, <3>1, <3>2, <3>3 DEF PostArrives, Serve
    <3>5. /\ more.posted = mem.posted + 1 /\ more.posts = mem.posts /\ more.since = mem.since
          /\ more.shown = mem.shown /\ more.queue = mem.queue /\ DOMAIN more = PostFields
      BY <2>1, <3>1 DEF PostFields
    <3>6. mem.posted \in Nat /\ more.posted \in Nat
      BY <2>1, <3>5 DEF ShownKept
    <3>7. ShownKept(more, out)
      BY <2>1, <3>5, <3>6 DEF ShownKept
    <3>8. /\ m.posted = more.posted /\ m.posts = more.posts \cup {p} /\ m.since = more.since
          /\ m.shown = more.shown /\ m.queue = more.queue
      BY <3>3, <3>5 DEF PostFields
    <3>9. ShownKept(m, out)
      <4>1. p.n \in Nat
        BY <3>2, <3>6
      <4>2. \A r \in m.posts : r.n \in Nat
        BY <3>7, <3>8, <4>1 DEF ShownKept
      <4> QED
        BY <3>6, <3>7, <3>8, <4>2 DEF ShownKept
    <3> QED
      BY <3>4, <3>7, <3>9
  <2>6. ASSUME NEW p \in mem.posts, PostIsRead(p) \/ PostFits(p) PROVE ShownKept(mem', out')
    <3>1. p.n \in Nat
      BY <2>1 DEF ShownKept
    <3>2. /\ Accepted(p).posted = mem.posted /\ Accepted(p).posts = mem.posts \ {p}
          /\ Accepted(p).since = mem.since /\ Accepted(p).shown = mem.shown
          /\ Accepted(p).queue = Append(mem.queue, p.n)
      BY <2>1 DEF Accepted, PostFields
    <3>3. CASE Emits(Accepted(p), p.n)
      <4>1. PICK e : e = Emission(p.n, <<"out">>, IF Running THEN "data" ELSE "late")
        OBVIOUS
      <4>2. e.item = p.n
        BY <4>1 DEF Emission
      <4>3. mem' = Accepted(p) /\ out' = Append(out, e)
        BY <3>3, <4>1 DEF Emits, Serve
      <4> QED
        BY <1>2, <2>1, <3>1, <3>2, <4>2, <4>3, ShownMore
    <3>4. PICK q : q = [p EXCEPT !.queue = starts]
      OBVIOUS
    <3>5. CASE Serve({"user_input"}, [mem EXCEPT !.posts = (@ \ {p}) \cup {q}], out)
      <4>1. /\ mem'.posted = mem.posted /\ mem'.posts = (mem.posts \ {p}) \cup {q}
            /\ mem'.since = mem.since /\ mem'.shown = mem.shown /\ mem'.queue = mem.queue
            /\ out' = out
        BY <2>1, <3>5 DEF Serve, PostFields
      <4>2. q.n = p.n
        BY <2>1, <3>4
      <4> QED
        BY <2>1, <3>1, <4>1, <4>2 DEF ShownKept
    <3> QED
      BY <2>6, <3>3, <3>4, <3>5 DEF PostIsRead, PostFits
  <2> QED
    BY <1>8, <2>2, <2>3, <2>4, <2>5, <2>6 DEF RouteStep
<1> QED
  BY <1>3, <1>5, <1>6, <1>7, <1>8, Zenon DEF InputStep

LEMMA ShownMeaning == ASSUME ShownInv PROVE PostsAreShown
BY DEF ShownInv, ShownKept, PostsAreShown, Since

-----------------------------------------------------------------------------
(* The node types that ask something outside: their steps, and where their *)
(* task may wait.                                                          *)

Requests == {"http_post", "llm", "socket_client", "mcp_client"}
Handlers == Requests \cup {"process_output", "socket_server", "subgraph"}
Askers   == Handlers \cup {"user_prompt", "log_input"}

Standing ==
  CASE node.type = "process_output" -> {"none", "loop", "run", "ended"}
    [] node.type \in Requests       -> {"none", "loop", "await"}
    [] node.type = "socket_server"  -> {"none", "loop", "send", "ended"}
    [] node.type = "user_prompt"    -> {"none", "loop", "asked"}
    [] node.type = "log_input"      -> {"none", "loop", "get"}
    [] OTHER                        -> {"none", "loop"}

LEMMA StandingOf ==
  ASSUME node.type \in Askers
  PROVE  /\ node.type = "process_output" => Standing = {"none", "loop", "run", "ended"}
         /\ node.type \in Requests => Standing = {"none", "loop", "await"}
         /\ node.type = "socket_server" => Standing = {"none", "loop", "send", "ended"}
         /\ node.type = "user_prompt" => Standing = {"none", "loop", "asked"}
         /\ node.type = "log_input" => Standing = {"none", "loop", "get"}
         /\ node.type = "subgraph" => Standing = {"none", "loop"}
         /\ "none" \in Standing /\ "loop" \in Standing
         /\ Standing \subseteq {"none", "loop", "run", "await", "send", "asked", "get", "ended"}
         /\ node' = node => Standing' = Standing
<1>1. node' = node => Standing' = Standing
  BY DEF Standing
<1>2. CASE node.type \in Requests
  <2>1. node.type \notin {"process_output", "socket_server", "user_prompt", "log_input", "subgraph"}
    BY <1>2 DEF Requests
  <2>2. Standing = {"none", "loop", "await"}
    BY <1>2, <2>1 DEF Standing
  <2> QED
    BY <1>1, <2>1, <2>2
<1>3. CASE node.type \notin Requests
  <2>1. node.type \in {"process_output", "socket_server", "subgraph", "user_prompt", "log_input"}
    BY <1>3 DEF Askers, Handlers
  <2> QED
    BY <1>1, <1>3, <2>1 DEF Standing
<1> QED
  BY <1>2, <1>3

LEMMA AskerNode ==
  ASSUME node \in AllTypes, node.type \in Askers
  PROVE  /\ node \in DeviceTypes /\ node.type \in DeviceNames
         /\ node \notin StreamTypes \cup BufferTypes \cup SourceTypes \cup WebTypes
         /\ node.type \notin StreamNames \cup BufferNames \cup SourceNames \cup OutputNames
                             \cup InputNames
         /\ node.type \notin Mqtt
         /\ node.type \in Handlers => node.ports = <<"in">> /\ NodePorts = {"in"}
         /\ node.type = "user_prompt" => node.ports = <<"user">>
         /\ node.type = "log_input" => node.ports = <<>>
         /\ Polled = wired /\ NextTurn \in {wired, turn}
<1>1. /\ node.type \in DeviceNames
      /\ node.type \notin StreamNames \cup BufferNames \cup SourceNames \cup OutputNames
                          \cup InputNames
      /\ node.type \notin Mqtt
  BY DEF Askers, Handlers, Requests, Mqtt, DeviceNames, StreamNames, BufferNames, LogicNames,
         SourceNames, OutputNames, InputNames
<1>2. node \in DeviceTypes /\ node \notin StreamTypes \cup BufferTypes \cup SourceTypes \cup WebTypes
  BY <1>1, Families
<1>3. /\ node.polls \in {"named", "kept"}
      /\ node.type \in Handlers => node.ports = <<"in">>
      /\ node.type = "user_prompt" => node.ports = <<"user">>
      /\ node.type = "log_input" => node.ports = <<>>
  BY <1>2 DEF DeviceTypes, DeviceType, Handlers, Requests
<1>4. node.type \in Handlers => NodePorts = {"in"}
  BY <1>3 DEF NodePorts, ToSet
<1> QED
  BY <1>1, <1>2, <1>3, <1>4 DEF Polled, NextTurn

DeviceChange ==
  \/ Aside
  \/ Start(DeviceMem, DeviceLocal)
  \/ Resume(DeviceLocal)
  \/ \E next \in {"paused", "stopped"} : DeviceCut(next)
  \/ DeviceStep
  \/ mem # <<>> /\ OutsideStep

LEMMA DeviceNext ==
  ASSUME node \in AllTypes, node.type \in Askers, pc \in Standing, [Next]_vars
  PROVE  DeviceChange
<1>1. /\ node \in DeviceTypes
      /\ node \notin StreamTypes \cup BufferTypes \cup SourceTypes \cup WebTypes
      /\ node.type \notin StreamNames \cup BufferNames \cup SourceNames \cup OutputNames
                          \cup InputNames
      /\ node.type \notin Mqtt
      /\ pc \notin {"read", "delay", "trigger"}
      /\ node.type \notin Raising
  BY AskerNode, StandingOf DEF Raising, Askers, Handlers, Requests
<1>2. CASE UNCHANGED vars
  BY <1>2 DEF vars, loopVars, dataVars, DeviceChange, Aside
<1>3. CASE Others
  <2>1. ASSUME NEW p \in NodePorts, Wire(p) PROVE Aside
    BY <2>1 DEF Wire, loopVars, dataVars, Aside
  <2>2. ASSUME NEW p \in NodePorts, NEW ok \in BOOLEAN, Send(p, ok) PROVE Aside
    BY <2>2 DEF Send, loopVars, Aside
  <2>3. OutsideStep => mem # <<>>
    BY DEF OutsideStep
  <2> QED
    BY <1>1, <1>3, <2>1, <2>2, <2>3 DEF Others, DeviceChange, NodePorts
<1>4. CASE Control
  <2>1. FreshMem = DeviceMem /\ FreshLocal = DeviceLocal
    BY <1>1 DEF FreshMem, FreshLocal
  <2>2. node.type # "round_robin" /\ node.type # "gate"
    BY <1>1 DEF StreamNames, BufferNames
  <2>3. ASSUME NEW next, Cut(next) PROVE DeviceCut(next)
    BY <1>1, <2>2, <2>3 DEF Cut
  <2>4. ASSUME NEW k PROVE ~Rekey(k)
    BY <1>1 DEF Rekey
  <2> QED
    BY <1>1, <1>4, <2>1, <2>2, <2>3, <2>4 DEF Control, DeviceChange
<1>5. CASE Process
  <2>1. Wake => Aside
    BY DEF Wake, dataVars, Aside
  <2> QED
    BY <1>1, <1>5, <2>1, OnlySources, OnlyBuffers, OnlyPlain DEF Process, DeviceChange
<1> QED
  BY <1>2, <1>3, <1>4, <1>5 DEF Next

\* The steps of each type.
LEMMA AskerSteps ==
  ASSUME node.type \in Askers, pc \in Standing, DeviceStep
  PROVE  /\ node.type = "process_output" => ProcessOutput \/ CommandDone \/ CommandTimesOut
         /\ node.type = "http_post" => HttpPost \/ Answer
         /\ node.type = "llm" => LMStudio \/ Answer
         /\ node.type = "socket_client" => SocketOut \/ Answer
         /\ node.type = "mcp_client" => McpConnects \/ McpClient \/ Answer
         /\ node.type = "socket_server" =>
              \/ SocketBind \/ SocketServe \/ SocketSent
              \/ \E c \in Connections : SocketWrites(c)
         /\ node.type = "subgraph" => SubgraphBegins \/ SubgraphPumps \/ SubgraphEmits
         /\ node.type = "user_prompt" => UserPrompt
         /\ node.type = "log_input" => LogApplies \/ LogGets
<1>1. ProcessInput \/ ShellInput \/ ScriptInput \/ PythonInput =>
        node.type \in {"process_input", "shell_input", "script_input", "python_input"}
  BY DEF ProcessInput, ShellInput, ScriptInput, PythonInput, RunOnce, Turn
<1>2. /\ ProcessOutput => node.type = "process_output"
      /\ CommandDone \/ CommandTimesOut => node.type \in Commands
      /\ HttpPost => node.type = "http_post"
      /\ LMStudio => node.type = "llm"
      /\ SocketOut => node.type = "socket_client"
      /\ McpConnects \/ McpClient => node.type = "mcp_client"
  BY DEF ProcessOutput, CommandDone, CommandTimesOut, HttpPost, LMStudio, SocketOut, McpConnects,
         McpClient, Asks, Each
<1>3. MqttConnects \/ MqttRekeys \/ MqttConnected \/ MqttPublish => node.type \in Mqtt
  BY DEF MqttConnects, MqttRekeys, MqttConnected, MqttPublish, Mqtt
<1>4. SocketBind \/ SocketServe \/ SocketSent \/ (\E c \in Connections : SocketWrites(c))
        => node.type = "socket_server"
  BY DEF SocketBind, SocketServe, SocketSent, SocketWrites, GoOn
<1>5. /\ Listens => node.type = "socket_input"
      /\ UserPrompt => node.type = "user_prompt"
      /\ LogApplies \/ LogGets => node.type = "log_input"
  BY DEF Listens, UserPrompt, Turn, LogApplies, LogGets, GoOn
<1>6. SubgraphBegins \/ SubgraphPumps \/ SubgraphEmits => node.type = "subgraph"
  BY DEF SubgraphBegins, SubgraphPumps, SubgraphEmits
<1>7. Answer => node.type \in Requests
  BY StandingOf DEF Answer, Askers, Handlers
<1>8. node.type \notin Mqtt \cup {"socket_input", "process_input", "shell_input", "script_input", "python_input"}
  BY DEF Askers, Handlers, Requests, Mqtt
<1>9. node.type \in Commands => node.type = "process_output"
  BY <1>8 DEF Commands, CommandInputs
<1>10. node.type \in Requests => node.type \in {"http_post", "llm", "socket_client", "mcp_client"}
  BY DEF Requests
<1> QED
  BY <1>1, <1>2, <1>3, <1>4, <1>5, <1>6, <1>7, <1>8, <1>9, <1>10, Zenon DEF DeviceStep

LEMMA AskerOutside ==
  ASSUME node.type \in Askers, OutsideStep
  PROVE  /\ node.type = "process_output" => CommandForks \/ CommandExits
         /\ node.type = "mcp_client" => McpDrops
         /\ node.type = "socket_server" =>
              \E c \in Connections : ClientJoins(c) \/ ClientLeaves(c)
         /\ node.type = "subgraph" => InnerStarts \/ InnerTakes \/ InnerGives
         /\ node.type = "log_input" => LogRecord \/ ParkedThread \/ OtherLogInput
         /\ node.type \in {"process_output", "mcp_client", "socket_server", "subgraph", "log_input"}
<1>1. node.type \notin {"socket_input", "mqtt_input", "process_input", "shell_input", "script_input"}
  BY DEF Askers, Handlers, Requests
<1>2. node.type \in Commands => node.type = "process_output"
  BY <1>1 DEF Commands, CommandInputs
<1> QED
  BY <1>1, <1>2, Zenon DEF OutsideStep

\* What a poll does but for the node's own data.
DevicePoll ==
  /\ pc = "loop"
  /\ pass # <<>>
  /\ \/ TakesFrom(Head(pass))
     \/ pipe[Head(pass)] = <<>> /\ UNCHANGED <<pipe, got, mem, local, out, pc>>
  /\ \/ pass' = Tail(pass) /\ turn' = turn
     \/ turn' = NextTurn /\ pass' = turn'
     \/ turn' = <<>> /\ pass' = <<>>
  /\ UNCHANGED <<node, envVars, lifeVars, base>>

\* It emits once, or not.
Tells(o) == o = out \/ \E e : o = Append(out, e)

Pollings ==
  ProcessOutput \/ HttpPost \/ LMStudio \/ SocketOut \/ McpClient \/ SocketServe \/ SubgraphPumps

LEMMA DevicePolls ==
  ASSUME Pollings
  PROVE  /\ DevicePoll
         /\ Tells(out')
<1>1. ASSUME ProcessOutput PROVE DevicePoll /\ Tells(out')
  BY <1>1 DEF ProcessOutput, Each, Poll, Self, Becomes, Give, DevicePoll, TakesFrom, Tells
<1>2. ASSUME HttpPost \/ LMStudio
      PROVE  DevicePoll /\ Tells(out')
  BY <1>2 DEF HttpPost, LMStudio, Asks, Each, Poll, Self, Becomes, Give, DevicePoll, TakesFrom, Tells
<1>3. ASSUME SocketOut \/ McpClient
      PROVE  DevicePoll /\ Tells(out')
  BY <1>3 DEF SocketOut, McpClient, Asks, Each, Poll, Self, Becomes, DevicePoll, TakesFrom, Tells
<1>4. ASSUME SocketServe \/ SubgraphPumps
      PROVE  DevicePoll /\ Tells(out')
  BY <1>4 DEF SocketServe, SubgraphPumps, Each, Poll, Self, Becomes, DevicePoll, TakesFrom, Tells
<1> QED
  BY <1>1, <1>2, <1>3, <1>4 DEF Pollings

\* What another step of its task leaves alone.
DeviceRests ==
  /\ pc # "none" /\ pc' # "none"
  /\ UNCHANGED <<node, envVars, lifeVars, pipe, got, base>>
  /\ \/ UNCHANGED <<turn, pass>>
     \/ turn' = Polled /\ pass' = Polled
  /\ Tells(out')

Restings ==
  \/ CommandDone \/ CommandTimesOut \/ McpConnects \/ Answer
  \/ SocketBind \/ SocketSent \/ (\E c \in Connections : SocketWrites(c))
  \/ SubgraphBegins \/ SubgraphEmits

LEMMA AgainRests ==
  ASSUME NEW o, NEW m, NEW l, Again(o, m, l), pc # "none", Tells(o)
  PROVE  DeviceRests
BY DEF Again, Enter, DeviceRests

LEMMA GoOnRests ==
  ASSUME NEW t, NEW s, GoOn(t, s) \/ Turn(t, s), s.pc # "none", Tells(s.out)
  PROVE  DeviceRests
<1>1. pc # "none" /\ out' = s.out /\ pc' = s.pc
  BY DEF GoOn, Turn, Becomes
<1>2. UNCHANGED <<node, envVars, lifeVars, pipe, got, base>>
  BY DEF GoOn, Turn
<1>5. UNCHANGED <<turn, pass>>
  BY DEF GoOn, Turn
<1>3. Tells(out')
  BY <1>1
<1>4. pc' # "none"
  BY <1>1
<1> QED
  BY <1>1, <1>2, <1>3, <1>4, <1>5 DEF DeviceRests

LEMMA SelfIs ==
  DOMAIN Self = {"mem", "local", "out", "pc"} /\ Self.out = out /\ Self.pc = pc
BY DEF Self

LEMMA DeviceResting == ASSUME Restings PROVE DeviceRests
<1>1. ASSUME CommandDone \/ CommandTimesOut PROVE DeviceRests
  <2>1. PICK form, m : Reports(form, m)
    BY <1>1 DEF CommandDone, CommandTimesOut
  <2>2. pc # "none"
    BY <1>1 DEF CommandDone, CommandTimesOut
  <2>3. PICK e : e = Emission(IF node.type = "process_output" THEN local ELSE 0, <<"out">>, form)
    OBVIOUS
  <2>4. PICK o : o = Append(out, e)
    OBVIOUS
  <2>5. PICK s : s = [Self EXCEPT !.out = o, !.mem = m, !.pc = "ended", !.local = <<>>]
    OBVIOUS
  <2>6. Again(o, m, <<>>) \/ GoOn(node.type, s)
    BY <2>1, <2>3, <2>4, <2>5 DEF Reports
  <2>7. s.pc = "ended" /\ s.out = o
    BY <2>5, SelfIs
  <2> QED
    BY <2>2, <2>4, <2>6, <2>7, AgainRests, GoOnRests DEF Tells
<1>2. ASSUME McpConnects PROVE DeviceRests
  <2>1. PICK s : s = [Self EXCEPT !.local = Connected]
    OBVIOUS
  <2>2. s.pc = pc /\ s.out = out /\ pc = "loop" /\ GoOn("mcp_client", s)
    BY <1>2, <2>1, SelfIs DEF McpConnects
  <2> QED
    BY <2>2, GoOnRests DEF Tells
<1>3. ASSUME Answer PROVE DeviceRests
  <2>1. PICK ok : Again(Append(out, Emission(local, AnswerPorts(ok), IF ok THEN "result" ELSE "error")),
                        mem, AfterAnswer)
    BY <1>3 DEF Answer
  <2>2. pc # "none"
    BY <1>3 DEF Answer
  <2> QED
    BY <2>1, <2>2, AgainRests DEF Tells
<1>4. ASSUME SocketBind PROVE DeviceRests
  <2>1. PICK free \in BOOLEAN :
          GoOn("socket_server",
            IF free /\ ~mem.server THEN [Self EXCEPT !.mem.server = TRUE, !.local = Bound]
            ELSE [Give(Self, 0, <<"out">>, "error") EXCEPT !.pc = "ended"])
    BY <1>4 DEF SocketBind
  <2>2. PICK s : s = [Self EXCEPT !.mem.server = TRUE, !.local = Bound]
    OBVIOUS
  <2>3. PICK r : r = [Give(Self, 0, <<"out">>, "error") EXCEPT !.pc = "ended"]
    OBVIOUS
  <2>4. s.pc = pc /\ s.out = out /\ pc = "loop"
    BY <1>4, <2>2, SelfIs DEF SocketBind
  <2>5. r.pc = "ended" /\ r.out = Append(out, Emission(0, <<"out">>, "error"))
    BY <2>3, SelfIs DEF Give
  <2>6. GoOn("socket_server", s) \/ GoOn("socket_server", r)
    BY <2>1, <2>2, <2>3
  <2> QED
    BY <2>4, <2>5, <2>6, GoOnRests DEF Tells
<1>5. ASSUME SocketSent PROVE DeviceRests
  BY <1>5, AgainRests DEF SocketSent, Tells
<1>6. ASSUME NEW c, SocketWrites(c) PROVE DeviceRests
  <2>1. PICK s : s = [Self EXCEPT !.local.left = @ \ {c},
                        !.mem.clients[c].sent = Append(@, local.item)]
    OBVIOUS
  <2>2. s.pc = pc /\ s.out = out /\ pc = "send"
    BY <1>6, <2>1, SelfIs DEF SocketWrites
  <2>3. GoOn("socket_server", s)
    BY <1>6, <2>1 DEF SocketWrites
  <2> QED
    BY <2>2, <2>3, GoOnRests DEF Tells
<1>7. ASSUME SubgraphBegins PROVE DeviceRests
  <2>1. PICK s : s = [Self EXCEPT !.local = Begun,
                        !.mem.inner = IF @ = "none" THEN "starting" ELSE @]
    OBVIOUS
  <2>2. s.pc = pc /\ s.out = out /\ pc = "loop"
    BY <1>7, <2>1, SelfIs DEF SubgraphBegins
  <2>3. GoOn("subgraph", s)
    BY <1>7, <2>1 DEF SubgraphBegins
  <2> QED
    BY <2>2, <2>3, GoOnRests DEF Tells
<1>8. ASSUME SubgraphEmits PROVE DeviceRests
  <2>1. PICK s : s = [Give(Self, Head(mem.bout), <<"out">>, "result") EXCEPT !.mem.bout = Tail(@)]
    OBVIOUS
  <2>2. Turn("subgraph", s)
    BY <1>8, <2>1 DEF SubgraphEmits
  <2>3. s.pc = pc /\ s.out = Append(out, Emission(Head(mem.bout), <<"out">>, "result"))
    BY <2>1, SelfIs DEF Give
  <2>4. pc = "loop"
    BY <2>2 DEF Turn
  <2> QED
    BY <2>2, <2>3, <2>4, GoOnRests DEF Tells
<1> QED
  BY <1>1, <1>2, <1>3, <1>4, <1>5, <1>6, <1>7, <1>8 DEF Restings

LEMMA HandlerSteps ==
  ASSUME node.type \in Handlers, pc \in Standing, DeviceStep
  PROVE  Pollings \/ Restings
<1>1. node.type \in Askers
  BY DEF Askers
<1>2. node.type \in {"http_post", "llm", "socket_client", "mcp_client", "process_output",
                     "socket_server", "subgraph"}
  BY DEF Handlers, Requests
<1> QED
  BY <1>1, <1>2, AskerSteps DEF Pollings, Restings

\* Outside, a connection that is lost is what a task waits for.
LEMMA HandlerOutside ==
  ASSUME node.type \in Handlers, OutsideStep
  PROVE  /\ UNCHANGED <<node, envVars, lifeVars, pipe, got, base, out>>
         /\ \/ UNCHANGED <<pc, turn, pass>>
            \/ node.type = "mcp_client" /\ pc # "none" /\ pc' = "loop" /\ turn' = Polled /\ pass' = Polled
<1>1. node.type \in Askers
  BY DEF Askers
<1>2. node.type # "log_input"
  BY DEF Handlers, Requests
<1>3. ASSUME CommandForks \/ CommandExits PROVE UNCHANGED <<node, envVars, lifeVars, loopVars, pipe, got, base, out>>
  BY <1>3 DEF CommandForks, CommandExits, Outside
<1>4. ASSUME McpDrops
      PROVE  /\ UNCHANGED <<node, envVars, lifeVars, pipe, got, base, out>>
             /\ node.type = "mcp_client" /\ pc # "none" /\ pc' = "loop" /\ turn' = Polled /\ pass' = Polled
  BY <1>4 DEF McpDrops, Again, Enter
<1>5. ASSUME NEW c, ClientJoins(c) \/ ClientLeaves(c)
      PROVE  UNCHANGED <<node, envVars, lifeVars, pc, turn, pass, pipe, got, base, out>>
  BY <1>5 DEF ClientJoins, ClientLeaves, Outside, loopVars
<1>6. ASSUME InnerStarts \/ InnerTakes \/ InnerGives
      PROVE  UNCHANGED <<node, envVars, lifeVars, loopVars, pipe, got, base, out>>
  BY <1>6 DEF InnerStarts, InnerTakes, InnerGives, Outside
<1> QED
  BY <1>1, <1>2, <1>3, <1>4, <1>5, <1>6, AskerOutside DEF loopVars

\* Where the loop of such a node is, and what is on its way to it.
DeviceTyped ==
  node.type \in Askers =>
    /\ pc \in Standing
    /\ life # "running" => pc = "none"
    /\ starts \in Nat /\ cuts \in Nat
    /\ starts = 0 => NotYet
    /\ IsSeq(out)
    /\ node.type \in Handlers =>
         /\ wired \in Seq(NodePorts) /\ turn \in Seq(NodePorts) /\ pass \in Seq(NodePorts)
         /\ sent \in 0..MaxItems
         /\ pipe \in [NodePorts -> Seq(Item)] /\ got \in Seq(Item)
         /\ base \in 0..Len(got)

DeviceLines == node.type \in Handlers => \A p \in NodePorts : InLine(p)

\* A task that is cut is gone.
LEMMA TaskCut ==
  ASSUME NEW next \in {"paused", "stopped"}, DeviceCut(next)
  PROVE  /\ pc' = "none" /\ turn' = <<>> /\ pass' = <<>> /\ local' = <<>> /\ cuts' = cuts + 1
         /\ life # "stopped" /\ life' = next /\ mem' = CutMem(next)
         /\ UNCHANGED <<node, wired, sent, starts, pipe, out, got, base>>
BY DEF DeviceCut, Cancel, Leave, envVars

LEMMA TaskBegins ==
  ASSUME Start(DeviceMem, DeviceLocal) \/ Resume(DeviceLocal)
  PROVE  /\ pc' = "loop" /\ turn' = Polled /\ pass' = Polled /\ local' = DeviceLocal
         /\ life' = "running" /\ UNCHANGED <<node, wired, sent, cuts, pipe, out, got>>
         /\ \/ /\ life = "stopped" /\ starts' = starts + 1 /\ mem' = DeviceMem
               /\ base' = Len(got)
            \/ life = "paused" /\ starts' = starts /\ mem' = mem /\ base' = base
<1>1. CASE Start(DeviceMem, DeviceLocal)
  BY <1>1 DEF Start, Enter, envVars
<1>2. CASE Resume(DeviceLocal)
  BY <1>2 DEF Resume, Enter, envVars, dataVars
<1> QED
  BY <1>1, <1>2

\* Where the task waits next.
LEMMA DevicePlaces ==
  ASSUME node.type \in Askers, pc \in Standing, DeviceStep
  PROVE  pc' \in Standing \ {"none"} /\ pc # "none"
<1>1. node.type = "process_output" \/ node.type \in Requests \/ node.type = "socket_server"
      \/ node.type = "subgraph" \/ node.type = "user_prompt" \/ node.type = "log_input"
  BY DEF Askers, Handlers
<1>2. CASE node.type = "process_output"
  <2>1. Standing = {"none", "loop", "run", "ended"}
    BY <1>2, StandingOf
  <2>2. ProcessOutput => pc = "loop" /\ pc' \in {"loop", "run"}
    BY DEF ProcessOutput, Each, Poll, Self, Becomes, Give
  <2>3. ASSUME NEW f, NEW m, Reports(f, m) PROVE pc' = "loop"
    BY <1>2, <2>3 DEF Reports, Again, Enter
  <2>4. CommandDone \/ CommandTimesOut => pc = "run" /\ pc' = "loop"
    BY <2>3 DEF CommandDone, CommandTimesOut
  <2> QED
    BY <1>2, <2>1, <2>2, <2>4, AskerSteps
<1>3. CASE node.type \in Requests
  <2>1. Standing = {"none", "loop", "await"}
    BY <1>3, StandingOf
  <2>2. Answer => pc = "await" /\ pc' = "loop"
    BY DEF Answer, Again, Enter
  <2>3. HttpPost \/ LMStudio \/ SocketOut \/ McpClient => pc = "loop" /\ pc' \in {"loop", "await"}
    BY DEF HttpPost, LMStudio, SocketOut, McpClient, Asks, Each, Poll, Self, Becomes, Give
  <2>4. McpConnects => pc = "loop" /\ pc' = "loop"
    BY DEF McpConnects, GoOn, Becomes, Self
  <2> QED
    BY <1>3, <2>1, <2>2, <2>3, <2>4, AskerSteps DEF Requests
<1>4. CASE node.type = "socket_server"
  <2>1. Standing = {"none", "loop", "send", "ended"}
    BY <1>4, StandingOf
  <2>2. SocketBind => pc = "loop" /\ pc' \in {"loop", "ended"}
    BY DEF SocketBind, GoOn, Becomes, Self, Give
  <2>3. SocketServe => pc = "loop" /\ pc' \in {"loop", "send"}
    BY DEF SocketServe, Each, Poll, Self, Becomes
  <2>4. ASSUME NEW c, SocketWrites(c) PROVE pc = "send" /\ pc' = "send"
    BY <2>4 DEF SocketWrites, GoOn, Becomes, Self
  <2>5. SocketSent => pc = "send" /\ pc' = "loop"
    BY DEF SocketSent, Again, Enter
  <2> QED
    BY <1>4, <2>1, <2>2, <2>3, <2>4, <2>5, AskerSteps
<1>5. CASE node.type = "subgraph"
  <2>1. Standing = {"none", "loop"}
    BY <1>5, StandingOf
  <2>2. SubgraphBegins => pc = "loop" /\ pc' = "loop"
    BY DEF SubgraphBegins, GoOn, Becomes, Self
  <2>3. SubgraphPumps => pc = "loop" /\ pc' = "loop"
    BY DEF SubgraphPumps, Each, Poll, Self, Becomes
  <2>4. SubgraphEmits => pc = "loop" /\ pc' = "loop"
    BY DEF SubgraphEmits, Turn, Becomes, Self, Give
  <2> QED
    BY <1>5, <2>1, <2>2, <2>3, <2>4, AskerSteps
<1>6. CASE node.type = "user_prompt"
  <2>1. Standing = {"none", "loop", "asked"}
    BY <1>6, StandingOf
  <2>2. UserPrompt => pc # "none" /\ pc' \in {"loop", "asked"}
    BY DEF UserPrompt, Turn, Becomes, Self, Give, Enter
  <2> QED
    BY <1>6, <2>1, <2>2, AskerSteps
<1>7. CASE node.type = "log_input"
  <2>1. Standing = {"none", "loop", "get"}
    BY <1>7, StandingOf
  <2>2. LogApplies \/ LogGets => pc # "none" /\ pc' \in {"loop", "get"}
    BY DEF LogApplies, LogGets, GoOn, Becomes, Self, Again, Enter
  <2> QED
    BY <1>7, <2>1, <2>2, AskerSteps
<1> QED
  BY <1>1, <1>2, <1>3, <1>4, <1>5, <1>6, <1>7

LEMMA DeviceWays ==
  ASSUME node \in AllTypes, node.type \in Handlers, DeviceTyped, [Next]_vars
  PROVE  /\ \/ \E p \in NodePorts, i \in Item : SentTo(p, i) /\ base' = base /\ sent' <= MaxItems
            \/ \E p \in NodePorts : Fetches(p) /\ base' = base
            \/ UNCHANGED <<sent, pipe, got>> /\ (base' = base \/ base' = Len(got))
         /\ wired' \in Seq(NodePorts) /\ turn' \in Seq(NodePorts) /\ pass' \in Seq(NodePorts)
         /\ Tells(out')
<1> DEFINE Ways == \/ \E p \in NodePorts, i \in Item : SentTo(p, i) /\ base' = base /\ sent' <= MaxItems
                   \/ \E p \in NodePorts : Fetches(p) /\ base' = base
                   \/ UNCHANGED <<sent, pipe, got>> /\ (base' = base \/ base' = Len(got))
           Good(w, t, p) == w \in Seq(NodePorts) /\ t \in Seq(NodePorts) /\ p \in Seq(NodePorts)
<1>0. node.type \in Askers
  BY DEF Askers
<1>1. /\ pass \in Seq(NodePorts) /\ turn \in Seq(NodePorts) /\ sent \in Nat
      /\ pc \in Standing /\ Polled = wired /\ NextTurn \in {wired, turn}
      /\ Good(wired, turn, pass) /\ Good(wired, wired, wired) /\ Good(wired, <<>>, <<>>)
      /\ Good(wired, turn, turn)
      /\ pass # <<>> => Head(pass) \in NodePorts /\ Good(wired, turn, Tail(pass))
  BY <1>0, AskerNode, EmptyTyped, NodeLoopAssumption DEF DeviceTyped
<1> SUFFICES Ways /\ Good(wired', turn', pass') /\ Tells(out')
  OBVIOUS
<1>2. CASE Aside
  <2>1. ASSUME NEW p \in NodePorts, NEW ok \in BOOLEAN, Send(p, ok)
        PROVE  /\ \E i \in Item : SentTo(p, i) /\ sent' <= MaxItems
               /\ UNCHANGED <<wired, turn, pass>>
    <3> DEFINE i == [port |-> p, n |-> sent + 1, ok |-> ok]
    <3>1. i \in Item /\ sent' <= MaxItems
      BY <1>1, <2>1, NodeLoopAssumption DEF Send, Item
    <3>2. SentTo(p, i)
      BY <2>1 DEF Send, SentTo
    <3>3. UNCHANGED <<wired, turn, pass>>
      BY <2>1 DEF Send, loopVars
    <3> QED
      BY <3>1, <3>2, <3>3
  <2>2. Wake => UNCHANGED <<sent, pipe, wired>> /\ turn' = wired /\ pass' = wired
    BY <1>1 DEF Wake, envVars, dataVars
  <2>3. ASSUME NEW p \in NodePorts, Wire(p)
        PROVE  UNCHANGED <<sent, pipe, turn, pass>> /\ wired' \in Seq(NodePorts)
    <3>1. UNCHANGED <<sent, pipe, turn, pass>>
      BY <2>3 DEF Wire, loopVars, dataVars
    <3>2. PICK k \in 1..(Len(wired) + 1) : wired' = InsertAt(wired, k, p)
      BY <2>3 DEF Wire
    <3> QED
      BY <1>1, <3>1, <3>2, InsertTyped
  <2>4. UNCHANGED <<envVars, turn, pass, pipe>> => UNCHANGED <<wired, sent, turn, pass, pipe>>
    BY DEF envVars
  <2>5. UNCHANGED <<got, base, out>>
    BY <1>2 DEF Aside
  <2>6. Tells(out')
    BY <2>5 DEF Tells
  <2> HIDE DEF Ways
  <2>7. CASE \E p \in NodePorts, ok \in BOOLEAN : Send(p, ok)
    BY <1>1, <2>1, <2>5, <2>6, <2>7 DEF Ways
  <2>8. CASE UNCHANGED <<envVars, turn, pass, pipe>>
    BY <1>1, <2>4, <2>5, <2>6, <2>8 DEF Ways
  <2>9. CASE Wake
    BY <1>1, <2>2, <2>5, <2>6, <2>9 DEF Ways
  <2>10. CASE \E p \in NodePorts : Wire(p)
    BY <1>1, <2>3, <2>5, <2>6, <2>10 DEF Ways
  <2> QED
    BY <1>2, <2>7, <2>8, <2>9, <2>10 DEF Aside
<1>3. CASE Start(DeviceMem, DeviceLocal) \/ Resume(DeviceLocal)
  BY <1>1, <1>3, TaskBegins DEF Tells
<1>4. CASE \E next \in {"paused", "stopped"} : DeviceCut(next)
  BY <1>1, <1>4, TaskCut DEF Tells
<1>5. CASE DeviceStep /\ Pollings
  <2>1. DevicePoll /\ Tells(out')
    BY <1>5, DevicePolls
  <2>2. Ways
    BY <1>1, <2>1 DEF DevicePoll, Fetches, envVars
  <2>3. Good(wired', turn', pass')
    BY <1>1, <2>1 DEF DevicePoll, envVars
  <2> QED
    BY <2>1, <2>2, <2>3
<1>6. CASE DeviceStep /\ Restings
  <2>1. DeviceRests
    BY <1>6, DeviceResting
  <2> QED
    BY <1>1, <2>1 DEF DeviceRests, envVars
<1>7. CASE OutsideStep
  BY <1>1, <1>7, HandlerOutside DEF envVars, Tells
<1> HIDE DEF Ways, Good
<1> QED
  BY <1>0, <1>1, <1>2, <1>3, <1>4, <1>5, <1>6, <1>7, DeviceNext, HandlerSteps DEF DeviceChange

LEMMA DeviceInLine ==
  ASSUME node \in AllTypes, node' = node, node.type \in Handlers, DeviceTyped, DeviceLines, [Next]_vars
  PROVE  /\ pipe' \in [NodePorts -> Seq(Item)] /\ got' \in Seq(Item)
         /\ sent' \in 0..MaxItems /\ base' \in 0..Len(got')
         /\ \A q \in NodePorts : InLine(q)'
<1>0. node.type \in Askers
  BY DEF Askers
<1>1. /\ pipe \in [NodePorts -> Seq(Item)] /\ got \in Seq(Item) /\ sent \in 0..MaxItems
      /\ base \in 0..Len(got) /\ Len(got) \in Nat
      /\ \A p \in NodePorts : InLine(p)
  BY <1>0 DEF DeviceTyped, DeviceLines
<1>2. sent \in Nat /\ \A i \in Item : i.n \in Nat
  BY <1>1, NodeLoopAssumption DEF Item
<1> DEFINE Good == /\ pipe' \in [NodePorts -> Seq(Item)] /\ got' \in Seq(Item)
                   /\ sent' \in 0..MaxItems /\ base' \in 0..Len(got')
                   /\ \A q \in NodePorts : InLine(q)'
<1>3. ASSUME NEW p \in NodePorts, NEW i \in Item, SentTo(p, i), base' = base, sent' <= MaxItems
      PROVE  Good
  <2>1. Append(pipe[p], i) \in Seq(Item)
    BY <1>1
  <2>2. ASSUME NEW q \in NodePorts PROVE InLine(q)'
    <3>1. InLine(q)
      BY <1>1
    <3> QED
      BY <1>1, <1>2, <1>3, <3>1, SentInLine
  <2>3. pipe' \in [NodePorts -> Seq(Item)] /\ got' = got /\ sent' \in 0..MaxItems
    BY <1>1, <1>2, <1>3, <2>1, NodeLoopAssumption DEF SentTo
  <2> QED
    BY <1>1, <1>3, <2>2, <2>3
<1>4. ASSUME NEW p \in NodePorts, Fetches(p), base' = base PROVE Good
  <2>1. Tail(pipe[p]) \in Seq(Item) /\ Head(pipe[p]) \in Item
    BY <1>1, <1>4 DEF Fetches, TakesFrom
  <2>2. ASSUME NEW q \in NodePorts PROVE InLine(q)'
    <3>1. InLine(q) /\ InLine(p)
      BY <1>1
    <3> QED
      BY <1>1, <1>2, <1>4, <3>1, FetchedInLine
  <2>3. /\ pipe' = [pipe EXCEPT ![p] = Tail(@)] /\ sent' = sent
        /\ got' = Append(got, Head(pipe[p]))
    BY <1>4 DEF Fetches, TakesFrom
  <2>4. pipe' \in [NodePorts -> Seq(Item)]
    BY <1>1, <2>1, <2>3
  <2>5. got' \in Seq(Item) /\ Len(got') = Len(got) + 1
    BY <1>1, <2>1, <2>3
  <2>6. base' \in 0..Len(got')
    BY <1>1, <1>4, <2>5
  <2> QED
    BY <1>1, <2>2, <2>3, <2>4, <2>5, <2>6
<1>5. ASSUME UNCHANGED <<sent, pipe, got>>, base' = base \/ base' = Len(got) PROVE Good
  BY <1>1, <1>5 DEF InLine
<1> HIDE DEF Good
<1>6. Good
  BY <1>3, <1>4, <1>5, DeviceWays
<1> QED
  BY <1>6 DEF Good

LEMMA DeviceTypedStep ==
  ASSUME node \in AllTypes, node' = node, DeviceTyped, DeviceLines, [Next]_vars
  PROVE  DeviceTyped' /\ DeviceLines'
<1> SUFFICES ASSUME node.type \in Askers PROVE DeviceTyped' /\ DeviceLines'
  BY DEF DeviceTyped, DeviceLines, Askers
<1>1. /\ pc \in Standing /\ Standing' = Standing
      /\ life # "running" => pc = "none"
      /\ starts \in Nat /\ cuts \in Nat
      /\ starts = 0 => NotYet
      /\ IsSeq(out)
      /\ "none" \in Standing /\ "loop" \in Standing
      /\ NodePorts' = NodePorts /\ Item' = Item
  BY StandingOf DEF DeviceTyped, NodePorts, Item
<1>2. ASSUME NEW o, Tells(o) PROVE IsSeq(o)
  <2>1. \A e : IsSeq(Append(out, e))
    BY <1>1, AppendSeq
  <2> QED
    BY <1>1, <1>2, <2>1, Zenon DEF Tells
<1> DEFINE Same == UNCHANGED <<lifeVars, pc>> /\ (mem # <<>> \/ UNCHANGED <<mem, out>>)
           Good == /\ pc' \in Standing
                   /\ life' # "running" => pc' = "none"
                   /\ starts' \in Nat /\ cuts' \in Nat
                   /\ starts' = 0 => NotYet'
                   /\ IsSeq(out')
<1>3. ASSUME Same /\ IsSeq(out') PROVE Good
  BY <1>1, <1>3 DEF lifeVars, NotYet
<1>4. ASSUME Aside PROVE Good
  <2>1. UNCHANGED <<lifeVars, pc, mem, out>>
    BY <1>4 DEF Aside
  <2> QED
    BY <1>1, <1>3, <2>1
<1>5. ASSUME Start(DeviceMem, DeviceLocal) \/ Resume(DeviceLocal) PROVE Good
  <2>1. /\ pc' = "loop" /\ life' = "running" /\ cuts' = cuts /\ out' = out
        /\ starts' \in Nat /\ starts' # 0
    BY <1>1, <1>5, TaskBegins DEF NotYet
  <2> QED
    BY <1>1, <2>1
<1>6. ASSUME \E next \in {"paused", "stopped"} : DeviceCut(next) PROVE Good
  <2>1. pc' = "none" /\ cuts' = cuts + 1 /\ starts' = starts /\ out' = out /\ life # "stopped"
    BY <1>6, TaskCut
  <2> QED
    BY <1>1, <2>1 DEF NotYet
<1>7. ASSUME DeviceStep PROVE Good
  <2>1. pc' \in Standing \ {"none"} /\ pc # "none"
    BY <1>1, <1>7, DevicePlaces
  <2>2. UNCHANGED lifeVars /\ Tells(out')
    <3>1. CASE node.type \in Handlers
      BY <1>1, <1>7, <3>1, HandlerSteps, DevicePolls, DeviceResting DEF DevicePoll, DeviceRests
    <3>2. UserPrompt => UNCHANGED lifeVars /\ Tells(out')
      BY DEF UserPrompt, Turn, Becomes, Self, Give, Tells
    <3>3. LogApplies \/ LogGets => UNCHANGED lifeVars /\ Tells(out')
      BY DEF LogApplies, LogGets, GoOn, Becomes, Self, Again, Tells
    <3> QED
      BY <1>1, <1>7, <3>1, <3>2, <3>3, AskerSteps DEF Askers
  <2> QED
    BY <1>1, <1>2, <2>1, <2>2 DEF lifeVars, NotYet
<1>8. ASSUME mem # <<>> /\ OutsideStep PROVE Good
  <2>1. CASE node.type \in Handlers
    <3>1. UNCHANGED <<lifeVars, out>> /\ (pc' = pc \/ (pc # "none" /\ pc' = "loop"))
      BY <1>8, <2>1, HandlerOutside
    <3> QED
      BY <1>1, <1>8, <3>1 DEF lifeVars, NotYet
  <2>2. LogRecord \/ ParkedThread \/ OtherLogInput => UNCHANGED <<lifeVars, pc, out>>
    BY DEF LogRecord, ParkedThread, OtherLogInput, Outside, loopVars
  <2>3. node.type \in Handlers \/ LogRecord \/ ParkedThread \/ OtherLogInput
    BY <1>8, AskerOutside DEF Askers
  <2> QED
    BY <1>1, <1>3, <1>8, <2>1, <2>2, <2>3
<1>9. Good
  <2> HIDE DEF Good
  <2> QED
    BY <1>1, <1>4, <1>5, <1>6, <1>7, <1>8, DeviceNext DEF DeviceChange
<1>10. node.type \in Handlers =>
        /\ wired' \in Seq(NodePorts) /\ turn' \in Seq(NodePorts) /\ pass' \in Seq(NodePorts)
        /\ pipe' \in [NodePorts -> Seq(Item)] /\ got' \in Seq(Item)
        /\ sent' \in 0..MaxItems /\ base' \in 0..Len(got')
        /\ \A q \in NodePorts : InLine(q)'
  BY DeviceWays, DeviceInLine
<1> QED
  BY <1>1, <1>9, <1>10 DEF DeviceTyped, DeviceLines

LEMMA AskersInit == ASSUME NodeInit PROVE DeviceTyped /\ DeviceLines
<1> USE DEF NodeInit, Init
<1>1. \A S : <<>> \in Seq(S)
  BY EmptyTyped
<1>2. pipe \in [NodePorts -> Seq(Item)] /\ \A p \in NodePorts : pipe[p] = <<>>
  BY <1>1 DEF NodePorts
<1>3. node.type \in Askers => pc \in Standing
  BY StandingOf
<1>4. NotYet
  BY DEF NotYet
<1>5. DeviceLines
  BY <1>2 DEF DeviceLines, InLine
<1> QED
  BY <1>1, <1>2, <1>3, <1>4, <1>5, NoneIsSeq, NodeLoopAssumption DEF DeviceTyped

-----------------------------------------------------------------------------
(* Questions to the user.                                                  *)

AskedTwice(o) == {k \in 1..(Len(o) - 1) : o[k].to = o[k + 1].to}

EndsAsking(o) == Len(o) > 0 /\ o[Len(o)].to = <<"prompt">>

\* A question that was cut is the last thing said, until the next one.
Unanswered(o, p) == IF EndsAsking(o) /\ p # "asked" THEN 1 ELSE 0

AskedInv ==
  node.type = "user_prompt" =>
    /\ pc = "asked" => EndsAsking(out)
    /\ Cardinality(AskedTwice(out)) + Unanswered(out, pc) <= cuts

LEMMA AskedMore ==
  ASSUME NEW o, IsSeq(o), NEW e
  PROVE  /\ AskedTwice(Append(o, e)) =
              AskedTwice(o) \cup (IF Len(o) > 0 /\ o[Len(o)].to = e.to THEN {Len(o)} ELSE {})
         /\ IsFiniteSet(AskedTwice(o)) /\ Len(o) \notin AskedTwice(o)
         /\ EndsAsking(Append(o, e)) <=> e.to = <<"prompt">>
         /\ Cardinality(AskedTwice(o)) \in Nat
         /\ Cardinality(AskedTwice(Append(o, e))) =
              Cardinality(AskedTwice(o)) + (IF Len(o) > 0 /\ o[Len(o)].to = e.to THEN 1 ELSE 0)
<1> DEFINE a == Append(o, e)
           R == AskedTwice(o)
           Again1 == Len(o) > 0 /\ o[Len(o)].to = e.to
<1>1. /\ Len(o) \in Nat /\ Len(a) = Len(o) + 1
      /\ \A k \in 1..Len(o) : a[k] = o[k]
      /\ a[Len(o) + 1] = e
  BY AppendSeq
<1>2. EndsAsking(a) <=> e.to = <<"prompt">>
  BY <1>1 DEF EndsAsking
<1> HIDE DEF a
<1>3. R \subseteq 1..(Len(o) - 1) /\ IsFiniteSet(R) /\ Len(o) \notin R
  <2>1. R \subseteq 1..(Len(o) - 1) /\ Len(o) \notin 1..(Len(o) - 1) /\ Len(o) - 1 \in Int
    BY <1>1 DEF AskedTwice
  <2>2. IsFiniteSet(1..(Len(o) - 1))
    BY <2>1, FS_Interval
  <2> QED
    BY <2>1, <2>2, FS_Subset
<1>4. Cardinality(R) \in Nat /\ Cardinality(R \cup {Len(o)}) = Cardinality(R) + 1
  BY <1>3, FS_CardinalityType, FS_AddElement
<1>5. ASSUME NEW k \in 1..((Len(o) + 1) - 1)
      PROVE  a[k].to = a[k + 1].to <=> k \in R \/ (k = Len(o) /\ Again1)
  <2>1. k \in 1..Len(o) /\ a[k] = o[k] /\ k \in Nat
    BY <1>1
  <2>2. CASE k = Len(o)
    BY <1>1, <1>3, <2>1, <2>2
  <2>3. CASE k # Len(o)
    <3>1. k \in 1..(Len(o) - 1) /\ k + 1 \in 1..Len(o)
      BY <1>1, <2>1, <2>3
    <3>2. a[k + 1] = o[k + 1]
      BY <1>1, <3>1
    <3> QED
      BY <2>1, <2>3, <3>1, <3>2 DEF AskedTwice
  <2> QED
    BY <2>2, <2>3
<1>6. AskedTwice(a) = R \cup (IF Again1 THEN {Len(o)} ELSE {})
  <2>1. ASSUME NEW k PROVE k \in AskedTwice(a) <=> k \in R \cup (IF Again1 THEN {Len(o)} ELSE {})
    <3>1. k \in AskedTwice(a) <=> k \in 1..((Len(o) + 1) - 1) /\ a[k].to = a[k + 1].to
      BY <1>1 DEF AskedTwice
    <3>2. k \in R => k \in 1..((Len(o) + 1) - 1)
      BY <1>1, <1>3
    <3>3. k = Len(o) /\ Again1 => k \in 1..((Len(o) + 1) - 1)
      BY <1>1
    <3> HIDE DEF R, Again1
    <3> QED
      BY <1>5, <3>1, <3>2, <3>3
  <2> QED
    BY <2>1
<1> HIDE DEF R, Again1
<1>7. Cardinality(AskedTwice(a)) = Cardinality(R) + (IF Again1 THEN 1 ELSE 0)
  <2>1. CASE Again1
    BY <1>4, <1>6, <2>1
  <2>2. CASE ~Again1
    <3>1. AskedTwice(a) = R
      BY <1>6, <2>2
    <3> QED
      BY <1>4, <2>2, <3>1
  <2> QED
    BY <2>1, <2>2
<1> QED
  BY <1>2, <1>3, <1>4, <1>6, <1>7 DEF a, R, Again1

LEMMA AskedStep ==
  ASSUME node \in AllTypes, node' = node, DeviceTyped, AskedInv, [Next]_vars
  PROVE  AskedInv'
<1> SUFFICES ASSUME node.type = "user_prompt"
             PROVE  /\ pc' = "asked" => EndsAsking(out')
                    /\ Cardinality(AskedTwice(out')) + Unanswered(out', pc') <= cuts'
  BY DEF AskedInv
<1>1. node.type \in Askers
  BY DEF Askers
<1>2. /\ pc \in Standing /\ IsSeq(out) /\ cuts \in Nat
      /\ pc = "asked" => EndsAsking(out)
      /\ Cardinality(AskedTwice(out)) + Unanswered(out, pc) <= cuts
  BY <1>1 DEF DeviceTyped, AskedInv
<1>3. Cardinality(AskedTwice(out)) \in Nat /\ Unanswered(out, pc) \in 0..1
  BY <1>2, AskedMore DEF Unanswered
<1>4. ASSUME UNCHANGED <<pc, out, cuts>>
      PROVE  /\ pc' = "asked" => EndsAsking(out')
             /\ Cardinality(AskedTwice(out')) + Unanswered(out', pc') <= cuts'
  BY <1>2, <1>4
<1>5. CASE Aside
  BY <1>4, <1>5 DEF Aside, lifeVars
<1>6. CASE Start(DeviceMem, DeviceLocal) \/ Resume(DeviceLocal)
  <2>1. pc' = "loop" /\ UNCHANGED <<cuts, out>> /\ life # "running"
    BY <1>6, TaskBegins
  <2>2. pc = "none"
    BY <1>1, <2>1 DEF DeviceTyped
  <2>3. Unanswered(out', pc') = Unanswered(out, pc)
    BY <2>1, <2>2 DEF Unanswered
  <2> QED
    BY <1>2, <2>1, <2>3
<1>7. CASE \E next \in {"paused", "stopped"} : DeviceCut(next)
  <2>1. pc' = "none" /\ out' = out /\ cuts' = cuts + 1
    BY <1>7, TaskCut
  <2>2. Unanswered(out', pc') <= Unanswered(out, pc) + 1 /\ Unanswered(out', pc') \in 0..1
    BY <2>1 DEF Unanswered
  <2> QED
    BY <1>2, <1>3, <2>1, <2>2
<1>8. CASE DeviceStep
  <2>1. UserPrompt
    BY <1>1, <1>2, <1>8, AskerSteps
  <2>2. CASE Turn("user_prompt", [Give(Self, 0, <<"prompt">>, "input") EXCEPT !.pc = "asked"])
    <3>1. PICK e : e = Emission(0, <<"prompt">>, "input")
      OBVIOUS
    <3>2. out' = Append(out, e) /\ pc' = "asked" /\ pc = "loop" /\ cuts' = cuts
      BY <2>2, <3>1 DEF Turn, Becomes, Give, Self, lifeVars
    <3>3. e.to = <<"prompt">>
      BY <3>1 DEF Emission
    <3>4. EndsAsking(out') /\ Unanswered(out', pc') = 0
      BY <1>2, <3>2, <3>3, AskedMore DEF Unanswered
    <3>5. Cardinality(AskedTwice(out')) = Cardinality(AskedTwice(out)) + Unanswered(out, pc)
      BY <1>2, <3>2, <3>3, AskedMore DEF Unanswered, EndsAsking
    <3> QED
      BY <1>2, <1>3, <3>2, <3>4, <3>5
  <2>3. CASE ~Turn("user_prompt", [Give(Self, 0, <<"prompt">>, "input") EXCEPT !.pc = "asked"])
    <3>1. /\ pc = "asked" /\ pc' = "loop" /\ cuts' = cuts
          /\ \E i, f : out' = Append(out, Emission(i, <<"out">>, f))
      BY <2>1, <2>3 DEF UserPrompt, Enter, lifeVars
    <3>2. PICK i, f : out' = Append(out, Emission(i, <<"out">>, f))
      BY <3>1
    <3>3. PICK e : e = Emission(i, <<"out">>, f)
      OBVIOUS
    <3>4. out' = Append(out, e) /\ e.to = <<"out">> /\ <<"out">> # <<"prompt">>
      BY <3>2, <3>3 DEF Emission
    <3>5. ~EndsAsking(out') /\ Unanswered(out', pc') = 0
      BY <1>2, <3>4, AskedMore DEF Unanswered
    <3>6. out[Len(out)].to # e.to
      BY <1>2, <3>1, <3>4 DEF EndsAsking
    <3>7. Cardinality(AskedTwice(out')) = Cardinality(AskedTwice(out))
      BY <1>2, <1>3, <3>4, <3>6, AskedMore
    <3> QED
      BY <1>2, <1>3, <3>1, <3>5, <3>7
  <2> QED
    BY <2>2, <2>3
<1>9. ~OutsideStep
  BY <1>1, AskerOutside
<1> QED
  BY <1>1, <1>2, <1>5, <1>6, <1>7, <1>8, <1>9, DeviceNext DEF DeviceChange

LEMMA AskedMeaning == ASSUME DeviceTyped, AskedInv PROVE QuestionsAnswered
<1> SUFFICES ASSUME node.type = "user_prompt" PROVE QuestionsAnswered
  BY DEF QuestionsAnswered
<1>1. node.type \in Askers
  BY DEF Askers
<1>2. /\ IsSeq(out) /\ cuts \in Nat
      /\ Cardinality(AskedTwice(out)) + Unanswered(out, pc) <= cuts
  BY <1>1 DEF DeviceTyped, AskedInv
<1>3. Cardinality(AskedTwice(out)) \in Nat /\ Unanswered(out, pc) \in 0..1
  BY <1>2, AskedMore DEF Unanswered
<1>4. Cardinality(AskedTwice(out)) <= cuts
  BY <1>2, <1>3
<1> QED
  BY <1>4 DEF QuestionsAnswered, AskedTwice

-----------------------------------------------------------------------------
(* Records of a logger.                                                    *)

LogFields ==
  {"attached", "queue", "parked", "records", "first", "lost", "other", "saved", "level"}

\* The records that were shown and those that wait, in order.
LogRow(q, o, n) ==
  /\ q \in Seq(Nat)
  /\ \A k \in DOMAIN q : q[k] <= n /\ \A j \in DOMAIN q : j < k => q[j] < q[k]
  /\ \A k \in DOMAIN o :
       /\ o[k].item \in Nat /\ o[k].item <= n
       /\ \A j \in DOMAIN o : j < k => o[j].item < o[k].item
       /\ \A j \in DOMAIN q : o[k].item < q[j]

Accounted(q, o, lost, n) ==
  (\E k \in DOMAIN o : o[k].item = n) \/ (\E k \in DOMAIN q : q[k] = n) \/ n \in lost

LogKept(m, o, c) ==
  /\ DOMAIN m = LogFields
  /\ m.records \in Nat /\ m.first \in Nat /\ m.parked \in Nat
  /\ LogRow(m.queue, o, m.records)
  /\ \A n \in (m.first + 1)..m.records : Accounted(m.queue, o, m.lost, n)
  /\ IsFiniteSet(m.lost) /\ Cardinality(m.lost) + m.parked <= c

LogInv == node.type = "log_input" /\ starts # 0 => LogKept(mem, out, cuts)

LEMMA LogSame ==
  ASSUME NEW m, NEW o, NEW c, LogKept(m, o, c), NEW m1, NEW c1, DOMAIN m1 = LogFields,
         m1.records = m.records, m1.first = m.first, m1.queue = m.queue, m1.lost = m.lost,
         m1.parked \in Nat, Cardinality(m.lost) + m1.parked <= c1
  PROVE  LogKept(m1, o, c1)
BY DEF LogKept

\* A record arrives, is shown, or is taken by a thread for nobody.
LEMMA RowArrives ==
  ASSUME NEW q, NEW o, NEW n \in Nat, LogRow(q, o, n)
  PROVE  /\ LogRow(Append(q, n + 1), o, n + 1)
         /\ \A lost, i : i = n + 1 \/ Accounted(q, o, lost, i) =>
              Accounted(Append(q, n + 1), o, lost, i)
<1> DEFINE t == Append(q, n + 1)
<1>1. /\ q \in Seq(Nat) /\ Len(q) \in Nat /\ DOMAIN q = 1..Len(q)
      /\ \A k \in 1..Len(q) : q[k] \in Nat
      /\ t \in Seq(Nat) /\ DOMAIN t = 1..(Len(q) + 1)
      /\ \A k \in 1..Len(q) : t[k] = q[k]
      /\ t[Len(q) + 1] = n + 1
  BY DEF LogRow
<1> HIDE DEF t
<1>2. /\ \A k \in 1..Len(q) : q[k] <= n /\ \A j \in 1..Len(q) : j < k => q[j] < q[k]
      /\ \A k \in DOMAIN o :
           /\ o[k].item \in Nat /\ o[k].item <= n
           /\ \A j \in DOMAIN o : j < k => o[j].item < o[k].item
           /\ \A j \in 1..Len(q) : o[k].item < q[j]
  BY <1>1 DEF LogRow
<1>3. ASSUME NEW k \in 1..(Len(q) + 1)
      PROVE  /\ t[k] <= n + 1 /\ \A j \in 1..(Len(q) + 1) : j < k => t[j] < t[k]
             /\ \A j \in DOMAIN o : o[j].item < t[k]
  <2>1. CASE k = Len(q) + 1
    <3>1. \A j \in 1..(Len(q) + 1) : j < k => j \in 1..Len(q)
      BY <1>1, <2>1
    <3>2. \A j \in 1..Len(q) : t[j] <= n /\ t[j] \in Nat
      BY <1>1, <1>2
    <3>3. t[k] = n + 1
      BY <1>1, <2>1
    <3> QED
      BY <1>2, <3>1, <3>2, <3>3
  <2>2. CASE k # Len(q) + 1
    <3>1. k \in 1..Len(q) /\ t[k] = q[k] /\ q[k] \in Nat /\ q[k] <= n
      BY <1>1, <1>2, <2>2
    <3>2. \A j \in 1..(Len(q) + 1) : j < k => j \in 1..Len(q) /\ t[j] = q[j]
      BY <1>1, <3>1
    <3> QED
      BY <1>2, <3>1, <3>2
  <2> QED
    BY <2>1, <2>2
<1>4. \A k \in DOMAIN o : o[k].item <= n + 1
  BY <1>2
<1>5. LogRow(t, o, n + 1)
  BY <1>1, <1>2, <1>3, <1>4 DEF LogRow
<1>6. ASSUME NEW lost, NEW i, i = n + 1 \/ Accounted(q, o, lost, i)
      PROVE  Accounted(t, o, lost, i)
  <2>1. CASE i = n + 1
    <3>1. Len(q) + 1 \in DOMAIN t /\ t[Len(q) + 1] = i
      BY <1>1, <2>1
    <3> QED
      BY <3>1 DEF Accounted
  <2>2. CASE \E k \in DOMAIN q : q[k] = i
    <3>1. \E k \in DOMAIN t : t[k] = i
      BY <1>1, <2>2
    <3> QED
      BY <3>1 DEF Accounted
  <2> QED
    BY <1>6, <2>1, <2>2 DEF Accounted
<1> QED
  BY <1>5, <1>6 DEF t

LEMMA RowShrinks ==
  ASSUME NEW q, NEW o, NEW n \in Nat, LogRow(q, o, n), q # <<>>
  PROVE  /\ LogRow(Tail(q), o, n)
         /\ Head(q) \in Nat /\ Head(q) <= n
         /\ \A k \in DOMAIN o : o[k].item < Head(q)
         /\ \A k \in DOMAIN Tail(q) : Head(q) < Tail(q)[k]
         /\ \A k \in DOMAIN q : q[k] = Head(q) \/ \E j \in DOMAIN Tail(q) : q[k] = Tail(q)[j]
<1> DEFINE t == Tail(q)
<1>1. /\ q \in Seq(Nat) /\ Len(q) \in Nat \ {0} /\ DOMAIN q = 1..Len(q)
      /\ Head(q) = q[1] /\ 1 \in 1..Len(q) /\ Head(q) \in Nat
      /\ t \in Seq(Nat) /\ DOMAIN t = 1..(Len(q) - 1)
      /\ \A k \in 1..(Len(q) - 1) : t[k] = q[k + 1]
  BY DEF LogRow
<1> HIDE DEF t
<1>2. /\ \A k \in 1..Len(q) : q[k] <= n /\ \A j \in 1..Len(q) : j < k => q[j] < q[k]
      /\ \A k \in DOMAIN o :
           /\ o[k].item \in Nat /\ o[k].item <= n
           /\ \A j \in DOMAIN o : j < k => o[j].item < o[k].item
           /\ \A j \in 1..Len(q) : o[k].item < q[j]
  BY <1>1 DEF LogRow
<1>3. ASSUME NEW k \in 1..(Len(q) - 1)
      PROVE  /\ t[k] <= n /\ \A j \in 1..(Len(q) - 1) : j < k => t[j] < t[k]
             /\ \A j \in DOMAIN o : o[j].item < t[k]
             /\ Head(q) < t[k]
  <2>1. k + 1 \in 1..Len(q) /\ t[k] = q[k + 1] /\ 1 < k + 1
    BY <1>1
  <2>2. \A j \in 1..(Len(q) - 1) : j < k => j + 1 \in 1..Len(q) /\ t[j] = q[j + 1] /\ j + 1 < k + 1
    BY <1>1
  <2>3. \A j \in 1..(Len(q) - 1) : j < k => t[j] < t[k]
    BY <1>2, <2>1, <2>2
  <2> QED
    BY <1>1, <1>2, <2>1, <2>3
<1>4. LogRow(t, o, n)
  BY <1>1, <1>2, <1>3 DEF LogRow
<1>5. ASSUME NEW k \in 1..Len(q) PROVE q[k] = q[1] \/ \E j \in DOMAIN t : q[k] = t[j]
  <2>1. CASE k # 1
    <3>1. k - 1 \in 1..(Len(q) - 1) /\ (k - 1) + 1 = k
      BY <1>1, <2>1
    <3>2. t[k - 1] = q[k]
      BY <1>1, <3>1
    <3> QED
      BY <1>1, <3>1, <3>2
  <2> QED
    BY <2>1
<1> QED
  BY <1>1, <1>2, <1>3, <1>4, <1>5 DEF t

LEMMA RowShows ==
  ASSUME NEW q, NEW o, IsSeq(o), NEW n \in Nat, LogRow(q, o, n), q # <<>>,
         NEW e, e.item = Head(q)
  PROVE  /\ LogRow(Tail(q), Append(o, e), n)
         /\ \A lost, i : Accounted(q, o, lost, i) => Accounted(Tail(q), Append(o, e), lost, i)
<1> DEFINE t == Tail(q)
           a == Append(o, e)
<1>1. /\ LogRow(t, o, n)
      /\ e.item \in Nat /\ e.item <= n
      /\ \A k \in DOMAIN o : o[k].item < e.item
      /\ \A k \in DOMAIN t : e.item < t[k]
      /\ \A k \in DOMAIN q : q[k] = e.item \/ \E j \in DOMAIN t : q[k] = t[j]
  BY RowShrinks
<1>2. /\ DOMAIN o = 1..Len(o) /\ Len(o) \in Nat
      /\ DOMAIN a = 1..(Len(o) + 1)
      /\ \A k \in 1..Len(o) : a[k] = o[k]
      /\ a[Len(o) + 1] = e
  BY AppendSeq
<1> HIDE DEF t, a
<1>3. /\ t \in Seq(Nat)
      /\ \A k \in DOMAIN t : t[k] <= n /\ \A j \in DOMAIN t : j < k => t[j] < t[k]
      /\ \A k \in 1..Len(o) :
           /\ o[k].item \in Nat /\ o[k].item <= n
           /\ \A j \in 1..Len(o) : j < k => o[j].item < o[k].item
           /\ \A j \in DOMAIN t : o[k].item < t[j]
  BY <1>1, <1>2 DEF LogRow
<1>4. ASSUME NEW k \in 1..(Len(o) + 1)
      PROVE  /\ a[k].item \in Nat /\ a[k].item <= n
             /\ \A j \in 1..(Len(o) + 1) : j < k => a[j].item < a[k].item
             /\ \A j \in DOMAIN t : a[k].item < t[j]
  <2>1. \A j \in 1..(Len(o) + 1) : j < k => j \in 1..Len(o) /\ a[j] = o[j]
    BY <1>2
  <2>2. CASE k = Len(o) + 1
    <3>1. \A j \in 1..Len(o) : o[j].item < e.item
      BY <1>1, <1>2
    <3> QED
      BY <1>1, <1>2, <2>1, <2>2, <3>1
  <2>3. CASE k # Len(o) + 1
    <3>1. k \in 1..Len(o) /\ a[k] = o[k]
      BY <1>2, <2>3
    <3> QED
      BY <1>3, <2>1, <3>1
  <2> QED
    BY <2>2, <2>3
<1>5. LogRow(t, a, n)
  BY <1>2, <1>3, <1>4 DEF LogRow
<1>6. ASSUME NEW lost, NEW i, Accounted(q, o, lost, i) PROVE Accounted(t, a, lost, i)
  <2>1. CASE \E k \in DOMAIN o : o[k].item = i
    <3>1. \E k \in DOMAIN a : a[k].item = i
      BY <1>2, <2>1
    <3> QED
      BY <3>1 DEF Accounted
  <2>2. CASE \E k \in DOMAIN q : q[k] = i
    <3>1. i = e.item \/ \E j \in DOMAIN t : t[j] = i
      BY <1>1, <2>2
    <3>2. i = e.item => \E k \in DOMAIN a : a[k].item = i
      BY <1>2
    <3> QED
      BY <3>1, <3>2 DEF Accounted
  <2> QED
    BY <1>6, <2>1, <2>2 DEF Accounted
<1> QED
  BY <1>5, <1>6 DEF t, a

\* What the node's init() and its cuts make of what it keeps.
LEMMA LogMem ==
  ASSUME node.type = "log_input"
  PROVE  /\ DOMAIN DeviceMem = LogFields
         /\ DeviceMem.queue = <<>> /\ DeviceMem.parked = 0 /\ DeviceMem.records = DeviceMem.first
         /\ DeviceMem.first = (IF mem = <<>> THEN 0 ELSE mem.records)
         /\ DeviceMem.lost = (IF mem = <<>> THEN {} ELSE mem.lost)
<1>1. node.type \notin Commands \cup Mqtt \cup {"mcp_client", "socket_server", "socket_input", "subgraph"}
  BY DEF Commands, CommandInputs, Mqtt
<1> DEFINE m == IF mem = <<>> THEN [level |-> Quiet, other |-> 0, records |-> 0, lost |-> {}]
                ELSE mem
           d == [attached |-> TRUE, queue |-> <<>>, parked |-> 0,
                 records |-> m.records, first |-> m.records, lost |-> m.lost,
                 other |-> m.other, saved |-> m.level, level |-> Lower(m.level, Verbose)]
<1>2. DeviceMem = d
  BY <1>1, Zenon DEF DeviceMem
<1>3. m.records = (IF mem = <<>> THEN 0 ELSE mem.records) /\ m.lost = (IF mem = <<>> THEN {} ELSE mem.lost)
  OBVIOUS
<1> HIDE DEF m
<1>4. /\ DOMAIN d = LogFields
      /\ d.queue = <<>> /\ d.parked = 0 /\ d.records = m.records /\ d.first = m.records
      /\ d.lost = m.lost
  BY DEF LogFields
<1> QED
  BY <1>2, <1>3, <1>4

LEMMA LogCut ==
  ASSUME node.type = "log_input", DOMAIN mem = LogFields, mem.parked \in Nat, NEW next
  PROVE  /\ DOMAIN CutMem(next) = LogFields
         /\ CutMem(next).records = mem.records /\ CutMem(next).first = mem.first
         /\ CutMem(next).queue = mem.queue /\ CutMem(next).lost = mem.lost
         /\ CutMem(next).parked \in Nat /\ CutMem(next).parked <= mem.parked + 1
<1>1. node.type \notin Commands \cup Mqtt \cup {"mcp_client", "socket_server", "socket_input", "subgraph"}
  BY DEF Commands, CommandInputs, Mqtt
<1>2. PICK n : n = mem.parked + (IF pc = "get" THEN 1 ELSE 0)
  OBVIOUS
<1>3. n \in Nat /\ n <= mem.parked + 1
  BY <1>2
<1>4. PICK m : m = [mem EXCEPT !.parked = n]
  OBVIOUS
<1>5. PICK r : r = [m EXCEPT !.attached = FALSE, !.level = mem.saved]
  OBVIOUS
<1>6. CutMem(next) = IF next = "stopped" THEN r ELSE m
  BY <1>1, <1>2, <1>4, <1>5 DEF CutMem
<1>7. /\ DOMAIN m = LogFields /\ m.records = mem.records /\ m.first = mem.first
      /\ m.queue = mem.queue /\ m.lost = mem.lost /\ m.parked = n
  BY <1>4 DEF LogFields
<1>8. /\ DOMAIN r = LogFields /\ r.records = mem.records /\ r.first = mem.first
      /\ r.queue = mem.queue /\ r.lost = mem.lost /\ r.parked = n
  BY <1>5, <1>7 DEF LogFields
<1> QED
  BY <1>3, <1>6, <1>7, <1>8

LEMMA LogBegins ==
  ASSUME node.type = "log_input", DeviceTyped, LogInv
  PROVE  LogKept(DeviceMem, out, cuts)
<1>1. node.type \in Askers
  BY DEF Askers
<1>2. PICK d : d = DeviceMem
  OBVIOUS
<1>3. /\ DOMAIN d = LogFields
      /\ d.queue = <<>> /\ d.parked = 0 /\ d.records = d.first
      /\ d.first = (IF mem = <<>> THEN 0 ELSE mem.records)
      /\ d.lost = (IF mem = <<>> THEN {} ELSE mem.lost)
  BY <1>2, LogMem
<1>4. <<>> \in Seq(Nat) /\ DOMAIN <<>> = {}
  OBVIOUS
<1>5. cuts \in Nat
  BY <1>1 DEF DeviceTyped
<1>6. /\ d.first \in Nat /\ IsFiniteSet(d.lost) /\ Cardinality(d.lost) <= cuts
      /\ LogRow(<<>>, out, d.first)
  <2>1. CASE mem = <<>>
    <3>1. starts = 0
      BY <2>1 DEF LogInv, LogKept, LogFields
    <3>2. out = <<>>
      BY <1>1, <3>1 DEF DeviceTyped, NotYet
    <3>3. LogRow(<<>>, <<>>, 0)
      BY <1>4 DEF LogRow
    <3>4. d.first = 0 /\ d.lost = {} /\ IsFiniteSet({}) /\ Cardinality({}) = 0
      BY <1>3, <2>1, FS_EmptySet
    <3> QED
      BY <1>5, <3>2, <3>3, <3>4
  <2>2. CASE mem # <<>>
    <3>1. starts # 0
      BY <1>1, <2>2 DEF DeviceTyped, NotYet
    <3>2. LogKept(mem, out, cuts)
      BY <3>1 DEF LogInv
    <3>3. d.first = mem.records /\ d.lost = mem.lost
      BY <1>3, <2>2
    <3>4. /\ mem.records \in Nat /\ mem.parked \in Nat /\ LogRow(mem.queue, out, mem.records)
          /\ IsFiniteSet(mem.lost) /\ Cardinality(mem.lost) + mem.parked <= cuts
      BY <3>2 DEF LogKept
    <3>5. LogRow(<<>>, out, mem.records)
      BY <1>4, <3>4 DEF LogRow
    <3>6. Cardinality(mem.lost) <= cuts
      <4>1. Cardinality(mem.lost) \in Nat
        BY <3>4, FS_CardinalityType
      <4> QED
        BY <1>5, <3>4, <4>1
    <3> QED
      BY <3>3, <3>4, <3>5, <3>6
  <2> QED
    BY <2>1, <2>2
<1>7. \A n \in (d.first + 1)..d.records : Accounted(d.queue, out, d.lost, n)
  <2>1. (d.first + 1)..d.first = {}
    BY <1>6
  <2> QED
    BY <1>3, <2>1
<1>8. d.records \in Nat /\ d.parked \in Nat /\ LogRow(d.queue, out, d.records)
  BY <1>3, <1>6
<1>9. Cardinality(d.lost) + d.parked <= cuts
  <2>1. Cardinality(d.lost) \in Nat
    BY <1>6, FS_CardinalityType
  <2> QED
    BY <1>3, <1>6, <2>1
<1> QED
  BY <1>2, <1>3, <1>6, <1>7, <1>8, <1>9 DEF LogKept

LEMMA LogTakes ==
  ASSUME node.type = "log_input", LogKept(mem, out, cuts), IsSeq(out), cuts \in Nat, LogGets
  PROVE  LogKept(mem', out', cuts')
<1>1. cuts' = cuts
  BY DEF LogGets, Again, lifeVars
<1>2. CASE mem' = mem /\ out' = out
  BY <1>1, <1>2
<1>3. CASE ~(mem' = mem /\ out' = out)
  <2>1. PICK e : e = Emission(Head(mem.queue), <<"out">>, "data")
    OBVIOUS
  <2>2. PICK m : m = [mem EXCEPT !.queue = Tail(@)]
    OBVIOUS
  <2>3. mem.queue # <<>> /\ mem' = m /\ out' = Append(out, e)
    BY <1>3, <2>1, <2>2 DEF LogGets, Again
  <2>4. /\ DOMAIN mem = LogFields /\ mem.records \in Nat /\ mem.first \in Nat /\ mem.parked \in Nat
        /\ LogRow(mem.queue, out, mem.records)
        /\ \A n \in (mem.first + 1)..mem.records : Accounted(mem.queue, out, mem.lost, n)
        /\ IsFiniteSet(mem.lost) /\ Cardinality(mem.lost) + mem.parked <= cuts
    BY DEF LogKept
  <2>5. /\ DOMAIN m = LogFields /\ m.records = mem.records /\ m.first = mem.first
        /\ m.parked = mem.parked /\ m.lost = mem.lost /\ m.queue = Tail(mem.queue)
    BY <2>2, <2>4 DEF LogFields
  <2>6. e.item = Head(mem.queue)
    BY <2>1 DEF Emission
  <2>7. /\ LogRow(Tail(mem.queue), Append(out, e), mem.records)
        /\ \A i : Accounted(mem.queue, out, mem.lost, i) =>
                    Accounted(Tail(mem.queue), Append(out, e), mem.lost, i)
    BY <2>3, <2>4, <2>6, RowShows
  <2>8. \A n \in (m.first + 1)..m.records : Accounted(m.queue, Append(out, e), m.lost, n)
    BY <2>4, <2>5, <2>7
  <2>9. LogKept(m, Append(out, e), cuts)
    BY <2>4, <2>5, <2>7, <2>8 DEF LogKept
  <2> QED
    BY <1>1, <2>3, <2>9
<1> QED
  BY <1>2, <1>3

LEMMA LogOutside ==
  ASSUME node.type = "log_input", LogKept(mem, out, cuts), cuts \in Nat,
         LogRecord \/ ParkedThread \/ OtherLogInput
  PROVE  LogKept(mem', out', cuts')
<1>1. cuts' = cuts /\ out' = out
  BY DEF LogRecord, ParkedThread, OtherLogInput, Outside, lifeVars
<1>2. /\ DOMAIN mem = LogFields /\ mem.records \in Nat /\ mem.first \in Nat /\ mem.parked \in Nat
      /\ LogRow(mem.queue, out, mem.records)
      /\ \A n \in (mem.first + 1)..mem.records : Accounted(mem.queue, out, mem.lost, n)
      /\ IsFiniteSet(mem.lost) /\ Cardinality(mem.lost) + mem.parked <= cuts
  BY DEF LogKept
<1>3. Cardinality(mem.lost) \in Nat
  BY <1>2, FS_CardinalityType
<1>4. CASE LogRecord
  <2>1. PICK m : m = [mem EXCEPT !.queue = Append(@, mem.records + 1), !.records = @ + 1]
    OBVIOUS
  <2>2. mem' = m
    BY <1>4, <2>1 DEF LogRecord, Outside
  <2>3. /\ DOMAIN m = LogFields /\ m.records = mem.records + 1 /\ m.first = mem.first
        /\ m.parked = mem.parked /\ m.lost = mem.lost /\ m.queue = Append(mem.queue, mem.records + 1)
    BY <1>2, <2>1 DEF LogFields
  <2>4. /\ LogRow(m.queue, out, m.records)
        /\ \A i : i = mem.records + 1 \/ Accounted(mem.queue, out, mem.lost, i) =>
                    Accounted(m.queue, out, m.lost, i)
    BY <1>2, <2>3, RowArrives
  <2>5. ASSUME NEW n \in (m.first + 1)..m.records PROVE Accounted(m.queue, out, m.lost, n)
    <3>1. n = mem.records + 1 \/ n \in (mem.first + 1)..mem.records
      BY <1>2, <2>3
    <3> QED
      BY <1>2, <2>4, <3>1
  <2>6. m.records \in Nat /\ m.first \in Nat /\ m.parked \in Nat
    BY <1>2, <2>3
  <2> QED
    BY <1>1, <1>2, <2>2, <2>3, <2>4, <2>5, <2>6 DEF LogKept
<1>5. CASE OtherLogInput
  <2>1. PICK m : m = [mem EXCEPT !.other = mem.level, !.level = Verbose]
    OBVIOUS
  <2>2. PICK r : r = [mem EXCEPT !.other = 0, !.level = mem.other]
    OBVIOUS
  <2>3. mem' = m \/ mem' = r
    BY <1>5, <2>1, <2>2 DEF OtherLogInput, Outside
  <2>4. /\ DOMAIN m = LogFields /\ m.records = mem.records /\ m.first = mem.first
        /\ m.queue = mem.queue /\ m.lost = mem.lost /\ m.parked = mem.parked
    BY <1>2, <2>1 DEF LogFields
  <2>5. /\ DOMAIN r = LogFields /\ r.records = mem.records /\ r.first = mem.first
        /\ r.queue = mem.queue /\ r.lost = mem.lost /\ r.parked = mem.parked
    BY <1>2, <2>2 DEF LogFields
  <2> QED
    BY <1>1, <1>2, <2>3, <2>4, <2>5, LogSame
<1>6. CASE ParkedThread
  <2>1. PICK m : m = [mem EXCEPT !.parked = @ - 1]
    OBVIOUS
  <2>2. PICK r : r = [mem EXCEPT !.parked = @ - 1, !.queue = Tail(@), !.lost = @ \cup {Head(mem.queue)}]
    OBVIOUS
  <2>3. mem.parked > 0 /\ (mem' = m \/ (mem.queue # <<>> /\ mem' = r))
    BY <1>6, <2>1, <2>2 DEF ParkedThread, Outside
  <2>4. /\ DOMAIN m = LogFields /\ m.records = mem.records /\ m.first = mem.first
        /\ m.queue = mem.queue /\ m.lost = mem.lost /\ m.parked = mem.parked - 1
    BY <1>2, <2>1 DEF LogFields
  <2>5. /\ DOMAIN r = LogFields /\ r.records = mem.records /\ r.first = mem.first
        /\ r.queue = Tail(mem.queue) /\ r.lost = mem.lost \cup {Head(mem.queue)}
        /\ r.parked = mem.parked - 1
    BY <1>2, <2>2 DEF LogFields
  <2>6. mem.parked - 1 \in Nat
    BY <1>2, <2>3
  <2>7. CASE mem' = m
    <3>1. Cardinality(mem.lost) + m.parked <= cuts
      BY <1>2, <1>3, <2>4
    <3> QED
      BY <1>1, <2>4, <2>6, <2>7, <3>1, LogSame
  <2>8. CASE mem.queue # <<>> /\ mem' = r
    <3>1. /\ LogRow(Tail(mem.queue), out, mem.records)
          /\ \A k \in DOMAIN mem.queue :
               mem.queue[k] = Head(mem.queue) \/ \E j \in DOMAIN Tail(mem.queue) : mem.queue[k] = Tail(mem.queue)[j]
      BY <1>2, <2>8, RowShrinks
    <3>2. ASSUME NEW n \in (r.first + 1)..r.records PROVE Accounted(r.queue, out, r.lost, n)
      <4>1. Accounted(mem.queue, out, mem.lost, n)
        BY <1>2, <2>5
      <4>2. CASE \E k \in DOMAIN mem.queue : mem.queue[k] = n
        <5>1. n = Head(mem.queue) \/ \E j \in DOMAIN Tail(mem.queue) : Tail(mem.queue)[j] = n
          BY <3>1, <4>2
        <5> QED
          BY <2>5, <5>1 DEF Accounted
      <4>3. CASE ~\E k \in DOMAIN mem.queue : mem.queue[k] = n
        BY <2>5, <4>1, <4>3 DEF Accounted
      <4> QED
        BY <4>2, <4>3
    <3>3. IsFiniteSet(r.lost) /\ Cardinality(r.lost) <= Cardinality(mem.lost) + 1 /\ Cardinality(r.lost) \in Nat
      <4>1. PICK h : h = Head(mem.queue)
        OBVIOUS
      <4>2. /\ IsFiniteSet(mem.lost \cup {h})
            /\ Cardinality(mem.lost \cup {h}) =
                 (IF h \in mem.lost THEN Cardinality(mem.lost) ELSE Cardinality(mem.lost) + 1)
        BY <1>2, FS_AddElement
      <4> QED
        BY <1>3, <2>5, <4>1, <4>2
    <3>4. Cardinality(r.lost) + r.parked <= cuts
      BY <1>2, <1>3, <2>5, <3>3
    <3>5. r.records \in Nat /\ r.first \in Nat /\ r.parked \in Nat
      BY <1>2, <2>5, <2>6
    <3>6. LogRow(r.queue, out, r.records)
      BY <2>5, <3>1
    <3> QED
      BY <1>1, <2>5, <2>8, <3>2, <3>3, <3>4, <3>5, <3>6 DEF LogKept
  <2> QED
    BY <2>3, <2>7, <2>8
<1> QED
  BY <1>4, <1>5, <1>6

LEMMA LogStep ==
  ASSUME node \in AllTypes, node' = node, DeviceTyped, LogInv, [Next]_vars
  PROVE  LogInv'
<1> SUFFICES ASSUME node.type = "log_input", starts' # 0 PROVE LogKept(mem', out', cuts')
  BY DEF LogInv
<1>1. node.type \in Askers
  BY DEF Askers
<1>2. /\ pc \in Standing /\ IsSeq(out) /\ cuts \in Nat
      /\ starts = 0 => NotYet
      /\ starts # 0 => LogKept(mem, out, cuts)
  BY <1>1 DEF DeviceTyped, LogInv
<1>3. CASE Aside
  BY <1>2, <1>3 DEF Aside, lifeVars
<1>4. CASE Start(DeviceMem, DeviceLocal) \/ Resume(DeviceLocal)
  <2>1. UNCHANGED <<cuts, out>> /\ (mem' = DeviceMem \/ (starts' = starts /\ mem' = mem))
    BY <1>4, TaskBegins
  <2>2. LogKept(DeviceMem, out, cuts)
    BY LogBegins
  <2> QED
    BY <1>2, <2>1, <2>2
<1>5. CASE \E next \in {"paused", "stopped"} : DeviceCut(next)
  <2>1. PICK next \in {"paused", "stopped"} : DeviceCut(next)
    BY <1>5
  <2>2. mem' = CutMem(next) /\ out' = out /\ cuts' = cuts + 1 /\ life # "stopped"
    BY <2>1, TaskCut
  <2>3. LogKept(mem, out, cuts)
    BY <1>2, <2>2 DEF NotYet
  <2>4. /\ DOMAIN mem = LogFields /\ mem.parked \in Nat
        /\ IsFiniteSet(mem.lost) /\ Cardinality(mem.lost) + mem.parked <= cuts
    BY <2>3 DEF LogKept
  <2>5. PICK m : m = CutMem(next)
    OBVIOUS
  <2>6. /\ DOMAIN m = LogFields /\ m.records = mem.records /\ m.first = mem.first
        /\ m.queue = mem.queue /\ m.lost = mem.lost
        /\ m.parked \in Nat /\ m.parked <= mem.parked + 1
    BY <2>4, <2>5, LogCut
  <2>7. Cardinality(mem.lost) + m.parked <= cuts + 1
    BY <1>2, <2>4, <2>6, FS_CardinalityType
  <2> QED
    BY <2>2, <2>3, <2>5, <2>6, <2>7, LogSame
<1>6. CASE DeviceStep
  <2>1. LogApplies \/ LogGets
    BY <1>1, <1>2, <1>6, AskerSteps
  <2>2. LogKept(mem, out, cuts)
    BY <1>2, <2>1 DEF LogApplies, LogGets, NotYet
  <2>3. CASE LogApplies
    <3>1. PICK s : s = [Self EXCEPT !.pc = "get", !.mem.level = Lower(@, Verbose)]
      OBVIOUS
    <3>2. GoOn("log_input", s)
      BY <2>3, <3>1 DEF LogApplies
    <3>3. mem' = s.mem /\ out' = s.out /\ cuts' = cuts
      BY <3>2 DEF GoOn, Becomes, lifeVars
    <3>4. s.out = out /\ s.mem = [mem EXCEPT !.level = Lower(@, Verbose)]
      BY <3>1 DEF Self
    <3>5. DOMAIN mem = LogFields /\ mem.parked \in Nat /\ Cardinality(mem.lost) + mem.parked <= cuts
      BY <2>2 DEF LogKept
    <3>6. PICK m : m = [mem EXCEPT !.level = Lower(@, Verbose)]
      OBVIOUS
    <3>7. /\ DOMAIN m = LogFields /\ m.records = mem.records /\ m.first = mem.first
          /\ m.queue = mem.queue /\ m.lost = mem.lost /\ m.parked = mem.parked
      BY <3>5, <3>6 DEF LogFields
    <3>8. LogKept(m, out, cuts)
      BY <2>2, <3>5, <3>7, LogSame
    <3> QED
      BY <3>3, <3>4, <3>6, <3>8
  <2>4. CASE LogGets
    BY <1>2, <2>2, <2>4, LogTakes
  <2> QED
    BY <2>1, <2>3, <2>4
<1>7. CASE mem # <<>> /\ OutsideStep
  <2>1. LogKept(mem, out, cuts)
    BY <1>2, <1>7 DEF NotYet
  <2>2. LogRecord \/ ParkedThread \/ OtherLogInput
    BY <1>1, <1>7, AskerOutside
  <2> QED
    BY <1>2, <2>1, <2>2, LogOutside
<1> QED
  BY <1>1, <1>2, <1>3, <1>4, <1>5, <1>6, <1>7, DeviceNext DEF DeviceChange

LEMMA LogMeaning == ASSUME DeviceTyped, LogInv PROVE LogRecordsKept
<1> SUFFICES ASSUME node.type = "log_input", mem # <<>> PROVE LogRecordsKept
  BY DEF LogRecordsKept
<1>1. node.type \in Askers
  BY DEF Askers
<1>2. LogKept(mem, out, cuts)
  BY <1>1 DEF DeviceTyped, NotYet, LogInv
<1> DEFINE shown == [k \in DOMAIN out |-> out[k].item]
<1>3. \A j, k \in DOMAIN shown : j < k => shown[j] < shown[k]
  BY <1>2 DEF LogKept, LogRow
<1>4. ASSUME NEW n \in (mem.first + 1)..mem.records
      PROVE  n \in ToSet(shown) \cup ToSet(mem.queue) \cup mem.lost
  <2>1. Accounted(mem.queue, out, mem.lost, n)
    BY <1>2 DEF LogKept
  <2>2. (\E k \in DOMAIN out : out[k].item = n) => n \in ToSet(shown)
    BY DEF ToSet
  <2>3. (\E k \in DOMAIN mem.queue : mem.queue[k] = n) => n \in ToSet(mem.queue)
    BY DEF ToSet
  <2> QED
    BY <2>1, <2>2, <2>3 DEF Accounted
<1>5. Cardinality(mem.lost) + mem.parked <= cuts
  BY <1>2 DEF LogKept
<1> QED
  BY <1>3, <1>4, <1>5 DEF LogRecordsKept

-----------------------------------------------------------------------------
(* What a subgraph carries.                                                *)

CarryFields == {"inner", "bin", "held", "bout", "orphans"}

Whole(s, a, b, c) == s \o a \o b \o c

\* What was emitted and what is on its way inside ends with what was read.
Carried(m, o, new) ==
  /\ DOMAIN m = CarryFields
  /\ m.bout \in Seq(Item) /\ m.held \in Seq(Item) /\ m.bin \in Seq(Item)
  /\ ItemsIn(o) \in Seq(Item)
  /\ EndsWith(Whole(ItemsIn(o), m.bout, m.held, m.bin), new)

CarriedInv == node.type = "subgraph" /\ starts # 0 => Carried(mem, out, Fresh)

LEMMA JoinedThrice ==
  ASSUME NEW S, NEW s \in Seq(S), NEW a \in Seq(S), NEW b \in Seq(S)
  PROVE  (s \o (a \o b)) \o <<>> = (s \o a) \o b
<1> DEFINE u == s \o (a \o b)
           v == (s \o a) \o b
<1>1. /\ s \o a \in Seq(S) /\ a \o b \in Seq(S)
      /\ Len(s) \in Nat /\ Len(a) \in Nat /\ Len(b) \in Nat
      /\ Len(s \o a) = Len(s) + Len(a) /\ Len(a \o b) = Len(a) + Len(b)
      /\ \A k \in 1..(Len(s) + Len(a)) : (s \o a)[k] = IF k <= Len(s) THEN s[k] ELSE a[k - Len(s)]
      /\ \A k \in 1..(Len(a) + Len(b)) : (a \o b)[k] = IF k <= Len(a) THEN a[k] ELSE b[k - Len(a)]
  OBVIOUS
<1>2. /\ u \in Seq(S) /\ Len(u) = Len(s) + (Len(a) + Len(b))
      /\ \A k \in 1..Len(u) : u[k] = IF k <= Len(s) THEN s[k] ELSE (a \o b)[k - Len(s)]
  BY <1>1
<1>3. /\ v \in Seq(S) /\ Len(v) = (Len(s) + Len(a)) + Len(b)
      /\ \A k \in 1..Len(v) :
           v[k] = IF k <= Len(s) + Len(a) THEN (s \o a)[k] ELSE b[k - (Len(s) + Len(a))]
  BY <1>1
<1>4. u \o <<>> = u
  BY <1>2
<1> HIDE DEF u, v
<1>5. Len(u) = Len(v)
  BY <1>1, <1>2, <1>3
<1>6. ASSUME NEW k \in 1..Len(u) PROVE u[k] = v[k]
  <2>1. CASE k <= Len(s)
    <3>1. k \in 1..(Len(s) + Len(a)) /\ k \in 1..Len(v) /\ k <= Len(s) + Len(a)
      BY <1>1, <1>5, <2>1
    <3> QED
      BY <1>1, <1>2, <1>3, <2>1, <3>1
  <2>2. CASE k > Len(s) /\ k <= Len(s) + Len(a)
    <3>1. /\ k \in 1..(Len(s) + Len(a)) /\ k \in 1..Len(v)
          /\ k - Len(s) \in 1..(Len(a) + Len(b)) /\ k - Len(s) <= Len(a)
          /\ ~(k <= Len(s))
      BY <1>1, <1>2, <1>5, <2>2
    <3>2. u[k] = a[k - Len(s)]
      BY <1>1, <1>2, <3>1
    <3>3. v[k] = a[k - Len(s)]
      BY <1>1, <1>3, <2>2, <3>1
    <3> QED
      BY <3>2, <3>3
  <2>3. CASE k > Len(s) + Len(a)
    <3>1. /\ k \in 1..Len(v) /\ ~(k <= Len(s)) /\ ~(k <= Len(s) + Len(a))
          /\ k - Len(s) \in 1..(Len(a) + Len(b)) /\ ~(k - Len(s) <= Len(a))
          /\ (k - Len(s)) - Len(a) = k - (Len(s) + Len(a))
      BY <1>1, <1>2, <1>5, <2>3
    <3>2. u[k] = b[(k - Len(s)) - Len(a)]
      BY <1>1, <1>2, <3>1
    <3>3. v[k] = b[k - (Len(s) + Len(a))]
      BY <1>3, <3>1
    <3> QED
      BY <3>1, <3>2, <3>3
  <2> QED
    BY <1>1, <1>2, <2>1, <2>2, <2>3
<1>7. u = v
  BY <1>2, <1>3, <1>5, <1>6, SameSeq
<1> QED
  BY <1>4, <1>7 DEF u, v

\* Its steps move items, and lose none.
PutsIn(S, s, a, b, c) ==
  \A i \in S : Append(c, i) \in Seq(S) /\ Whole(s, a, b, Append(c, i)) = Append(Whole(s, a, b, c), i)
HandsOut(S, s, a, b, c) ==
  a # <<>> => /\ Append(s, Head(a)) \in Seq(S) /\ Tail(a) \in Seq(S)
              /\ Whole(Append(s, Head(a)), Tail(a), b, c) = Whole(s, a, b, c)
HandsIn(S, s, a, b, c) ==
  c # <<>> /\ b = <<>> => /\ <<Head(c)>> \in Seq(S) /\ Tail(c) \in Seq(S)
                          /\ Whole(s, a, <<Head(c)>>, Tail(c)) = Whole(s, a, b, c)
HandsOver(S, s, a, b, c) ==
  /\ a \o b \in Seq(S) /\ <<>> \in Seq(S)
  /\ Whole(s, a \o b, <<>>, c) = Whole(s, a, b, c)

LEMMA WholeMoves ==
  ASSUME NEW S, NEW s \in Seq(S), NEW a \in Seq(S), NEW b \in Seq(S), NEW c \in Seq(S)
  PROVE  /\ Whole(s, a, b, c) \in Seq(S)
         /\ PutsIn(S, s, a, b, c) /\ HandsOut(S, s, a, b, c) /\ HandsIn(S, s, a, b, c)
         /\ HandsOver(S, s, a, b, c)
<1>1. s \o a \in Seq(S) /\ s \o a \o b \in Seq(S) /\ s \o a \o b \o c \in Seq(S)
  OBVIOUS
<1>2. ASSUME NEW i \in S
      PROVE  Append(c, i) \in Seq(S) /\ s \o a \o b \o Append(c, i) = Append(s \o a \o b \o c, i)
  <2>1. PICK x : x = s \o a \o b
    OBVIOUS
  <2>2. x \in Seq(S) => x \o Append(c, i) = Append(x \o c, i)
    BY JoinAppend
  <2>3. Append(c, i) \in Seq(S)
    OBVIOUS
  <2> QED
    BY <1>1, <2>1, <2>2, <2>3
<1>3. ASSUME a # <<>>
      PROVE  /\ Append(s, Head(a)) \in Seq(S) /\ Tail(a) \in Seq(S)
             /\ Append(s, Head(a)) \o Tail(a) = s \o a
  BY <1>3, HandedOn
<1>4. ASSUME c # <<>>, b = <<>>
      PROVE  /\ <<Head(c)>> \in Seq(S) /\ Tail(c) \in Seq(S)
             /\ s \o a \o <<Head(c)>> \o Tail(c) = s \o a \o b \o c
  <2>1. PICK x \in Seq(S) : x = s \o a
    BY <1>1
  <2>2. Append(x, Head(c)) \o Tail(c) = x \o c /\ Tail(c) \in Seq(S) /\ Head(c) \in S
    BY <1>4, HandedOn
  <2>3. <<Head(c)>> \in Seq(S) /\ x \o <<>> = x
    BY <2>2
  <2>4. x \o <<Head(c)>> = Append(x, Head(c))
    <3>1. PICK i \in S : i = Head(c)
      BY <2>2
    <3>2. x \o <<i>> = Append(x, i)
      OBVIOUS
    <3> QED
      BY <3>1, <3>2
  <2> QED
    BY <1>4, <2>1, <2>2, <2>3, <2>4
<1>5. s \o (a \o b) \o <<>> = s \o a \o b
  BY JoinedThrice
<1>6. a \o b \in Seq(S) /\ <<>> \in Seq(S)
  OBVIOUS
<1> QED
  BY <1>1, <1>2, <1>3, <1>4, <1>5, <1>6 DEF Whole, PutsIn, HandsOut, HandsIn, HandsOver

LEMMA SubgraphMem ==
  ASSUME node.type = "subgraph"
  PROVE  /\ DOMAIN DeviceMem = CarryFields
         /\ DeviceMem.bin = <<>> /\ DeviceMem.held = <<>> /\ DeviceMem.bout = <<>>
         /\ \A next : CutMem(next) \in {mem, [mem EXCEPT !.inner = "none"]}
<1>1. node.type \in Keepers
  BY DEF Keepers
<1>2. /\ DeviceMem = [inner |-> "none", bin |-> <<>>, held |-> <<>>, bout |-> <<>>,
                      orphans |-> IF mem = <<>> THEN 0
                                  ELSE mem.orphans + (IF mem.inner = "running" THEN 1 ELSE 0)]
      /\ \A next : CutMem(next) \in {mem, [mem EXCEPT !.inner = "none"]}
  BY <1>1, OfType
<1> QED
  BY <1>2 DEF CarryFields

LEMMA PumpsOf ==
  ASSUME SubgraphPumps, DOMAIN mem = CarryFields
  PROVE  /\ out' = out /\ base' = base /\ DOMAIN mem' = CarryFields
         /\ mem'.bout = mem.bout /\ mem'.held = mem.held
         /\ \/ /\ pipe[Head(pass)] # <<>>
               /\ got' = Append(got, Head(pipe[Head(pass)]))
               /\ mem'.bin = Append(mem.bin, Head(pipe[Head(pass)]))
            \/ got' = got /\ mem'.bin = mem.bin
<1> DEFINE i == Head(pipe[Head(pass)])
<1>1. PICK s : s = [Self EXCEPT !.mem.bin = Append(@, i)]
  OBVIOUS
<1>2. /\ base' = base
      /\ \/ pipe[Head(pass)] # <<>> /\ Becomes(s) /\ got' = Append(got, i)
         \/ Becomes(Self) /\ got' = got
  BY <1>1 DEF SubgraphPumps, Each, Poll
<1>3. Self.mem = mem /\ Self.out = out
  BY DEF Self
<1>4. s.out = out /\ s.mem = [mem EXCEPT !.bin = Append(@, i)]
  BY <1>1 DEF Self
<1>5. PICK m : m = [mem EXCEPT !.bin = Append(@, i)]
  OBVIOUS
<1>6. DOMAIN m = CarryFields /\ m.bout = mem.bout /\ m.held = mem.held /\ m.bin = Append(mem.bin, i)
  BY <1>5 DEF CarryFields
<1> HIDE DEF i
<1> QED
  BY <1>2, <1>3, <1>4, <1>5, <1>6 DEF Becomes, i

LEMMA CarriedSame ==
  ASSUME NEW m, NEW o, NEW new, Carried(m, o, new), NEW m1, DOMAIN m1 = CarryFields,
         m1.bout = m.bout, m1.held = m.held, m1.bin = m.bin
  PROVE  Carried(m1, o, new)
BY DEF Carried

LEMMA CarriedStep ==
  ASSUME node \in AllTypes, node' = node, DeviceTyped, DeviceTyped', CarriedInv, [Next]_vars
  PROVE  CarriedInv'
<1> SUFFICES ASSUME node.type = "subgraph", starts' # 0 PROVE Carried(mem', out', Fresh')
  <2>1. Item' = Item
    BY DEF Item, NodePorts
  <2> QED
    BY <2>1 DEF CarriedInv, Carried
<1>1. node.type \in Askers /\ node.type \in Handlers
  BY DEF Askers, Handlers
<1>2. /\ pc \in Standing /\ IsSeq(out) /\ pass \in Seq(NodePorts)
      /\ starts = 0 => NotYet
      /\ starts # 0 => Carried(mem, out, Fresh)
      /\ pipe \in [NodePorts -> Seq(Item)] /\ got \in Seq(Item) /\ base \in 0..Len(got)
      /\ Fresh \in Seq(Item)
  BY <1>1, FreshTyped DEF DeviceTyped, CarriedInv
<1>3. ASSUME starts # 0, UNCHANGED <<got, base, out>>, DOMAIN mem' = CarryFields, mem'.bout = mem.bout,
             mem'.held = mem.held, mem'.bin = mem.bin
      PROVE  Carried(mem', out', Fresh')
  <2>1. Fresh' = Fresh
    BY <1>3 DEF Fresh
  <2>2. Carried(mem', out, Fresh)
    BY <1>2, <1>3, CarriedSame
  <2> QED
    BY <1>3, <2>1, <2>2
<1>0. starts # 0 => DOMAIN mem = CarryFields
  BY <1>2 DEF Carried
<1>4. CASE Aside
  BY <1>0, <1>3, <1>4 DEF Aside, lifeVars
<1>5. CASE Start(DeviceMem, DeviceLocal) \/ Resume(DeviceLocal)
  <2>1. /\ got' = got /\ out' = out
        /\ \/ mem' = DeviceMem /\ base' = Len(got)
           \/ starts' = starts /\ mem' = mem /\ base' = base
    BY <1>5, TaskBegins
  <2>2. CASE mem' = DeviceMem /\ base' = Len(got)
    <3>1. ItemsIn(out) \in Seq(Item)
      <4>1. CASE starts = 0
        <5>1. out = <<>>
          BY <1>2, <4>1 DEF NotYet
        <5>2. ItemsIn(<<>>) = <<>> /\ <<>> \in Seq(Item)
          BY DEF ItemsIn
        <5> QED
          BY <5>1, <5>2
      <4>2. CASE starts # 0
        BY <1>2, <4>2 DEF Carried
      <4> QED
        BY <4>1, <4>2
    <3>2. Fresh' = <<>>
      BY <1>2, <2>1, <2>2, FreshNone
    <3>3. PICK w : w = Whole(ItemsIn(out), <<>>, <<>>, <<>>)
      OBVIOUS
    <3>4. <<>> \in Seq(Item)
      OBVIOUS
    <3>5. w \in Seq(Item)
      BY <3>1, <3>3, <3>4, WholeMoves
    <3>6. EndsWith(w, <<>>)
      BY <3>5, EndsSame
    <3>7. PICK d : d = DeviceMem
      OBVIOUS
    <3>8. DOMAIN d = CarryFields /\ d.bin = <<>> /\ d.held = <<>> /\ d.bout = <<>>
      BY <3>7, SubgraphMem
    <3>9. Carried(d, out, <<>>)
      BY <3>1, <3>3, <3>4, <3>6, <3>8 DEF Carried
    <3> QED
      BY <2>1, <2>2, <3>2, <3>7, <3>9
  <2>3. CASE starts' = starts /\ mem' = mem /\ base' = base
    BY <1>0, <1>3, <2>1, <2>3
  <2> QED
    BY <2>1, <2>2, <2>3
<1>6. CASE \E next \in {"paused", "stopped"} : DeviceCut(next)
  <2>1. PICK next \in {"paused", "stopped"} : DeviceCut(next)
    BY <1>6
  <2>2. UNCHANGED <<got, base, out>> /\ mem' = CutMem(next) /\ starts' = starts
    BY <2>1, TaskCut
  <2>3. PICK m : m = [mem EXCEPT !.inner = "none"]
    OBVIOUS
  <2>4. mem' = mem \/ mem' = m
    BY <2>2, <2>3, SubgraphMem
  <2>5. DOMAIN mem = CarryFields
    BY <1>0, <2>2
  <2>6. DOMAIN m = CarryFields /\ m.bin = mem.bin /\ m.bout = mem.bout /\ m.held = mem.held
    BY <2>3, <2>5 DEF CarryFields
  <2> QED
    BY <1>3, <2>2, <2>4, <2>5, <2>6
<1>7. CASE DeviceStep
  <2>1. SubgraphBegins \/ SubgraphPumps \/ SubgraphEmits
    BY <1>1, <1>2, <1>7, AskerSteps
  <2>2. starts # 0
    BY <1>2, <2>1 DEF SubgraphBegins, SubgraphPumps, SubgraphEmits, Each, Poll, Turn, NotYet
  <2>3. /\ DOMAIN mem = CarryFields
        /\ mem.bout \in Seq(Item) /\ mem.held \in Seq(Item) /\ mem.bin \in Seq(Item)
        /\ ItemsIn(out) \in Seq(Item)
        /\ EndsWith(Whole(ItemsIn(out), mem.bout, mem.held, mem.bin), Fresh)
    BY <1>2, <2>2 DEF Carried
  <2>4. CASE SubgraphBegins
    <3>1. PICK s : s = [Self EXCEPT !.local = Begun,
                        !.mem.inner = IF @ = "none" THEN "starting" ELSE @]
      OBVIOUS
    <3>2. GoOn("subgraph", s)
      BY <2>4, <3>1 DEF SubgraphBegins
    <3>3. s.out = out /\ s.mem = [mem EXCEPT !.inner = IF @ = "none" THEN "starting" ELSE @]
      BY <3>1 DEF Self
    <3>4. PICK m : m = [mem EXCEPT !.inner = IF @ = "none" THEN "starting" ELSE @]
      OBVIOUS
    <3>5. DOMAIN m = CarryFields /\ m.bin = mem.bin /\ m.bout = mem.bout /\ m.held = mem.held
      BY <2>3, <3>4 DEF CarryFields
    <3>6. UNCHANGED <<got, base, out>> /\ mem' = m
      BY <3>2, <3>3, <3>4 DEF GoOn, Becomes
    <3> QED
      BY <1>3, <2>2, <3>5, <3>6
  <2>5. CASE SubgraphPumps
    <3>1. /\ out' = out /\ base' = base /\ DOMAIN mem' = CarryFields
          /\ mem'.bout = mem.bout /\ mem'.held = mem.held
          /\ \/ /\ pipe[Head(pass)] # <<>>
                /\ got' = Append(got, Head(pipe[Head(pass)]))
                /\ mem'.bin = Append(mem.bin, Head(pipe[Head(pass)]))
             \/ got' = got /\ mem'.bin = mem.bin
      BY <2>3, <2>5, PumpsOf
    <3>2. CASE got' = got /\ mem'.bin = mem.bin
      BY <1>3, <2>2, <3>1, <3>2
    <3>3. CASE ~(got' = got /\ mem'.bin = mem.bin)
      <4>1. Head(pass) \in NodePorts
        BY <1>2, <2>5 DEF SubgraphPumps, Each, Poll
      <4>2. PICK i \in Item : i = Head(pipe[Head(pass)])
        BY <1>2, <3>1, <3>3, <4>1
      <4>3. got' = Append(got, i) /\ mem'.bin = Append(mem.bin, i)
        BY <3>1, <3>3, <4>2
      <4>4. Fresh' = Append(Fresh, i)
        BY <1>2, <3>1, <4>3, FreshMore
      <4>5. PICK w : w = Whole(ItemsIn(out), mem.bout, mem.held, mem.bin)
        OBVIOUS
      <4>6. /\ w \in Seq(Item)
            /\ Append(mem.bin, i) \in Seq(Item)
            /\ Whole(ItemsIn(out), mem.bout, mem.held, Append(mem.bin, i)) = Append(w, i)
        <5>1. w \in Seq(Item) /\ PutsIn(Item, ItemsIn(out), mem.bout, mem.held, mem.bin)
          BY <2>3, <4>5, WholeMoves
        <5> QED
          BY <4>5, <5>1 DEF PutsIn
      <4>7. EndsWith(Append(w, i), Append(Fresh, i))
        BY <1>2, <2>3, <4>5, <4>6, EndsAppend
      <4> QED
        BY <2>3, <3>1, <4>3, <4>4, <4>6, <4>7 DEF Carried
    <3> QED
      BY <3>2, <3>3
  <2>6. CASE SubgraphEmits
    <3>1. PICK e : e = Emission(Head(mem.bout), <<"out">>, "result")
      OBVIOUS
    <3>2. PICK s : s = [Give(Self, Head(mem.bout), <<"out">>, "result") EXCEPT !.mem.bout = Tail(@)]
      OBVIOUS
    <3>3. s.out = Append(out, e) /\ s.mem = [mem EXCEPT !.bout = Tail(@)]
      BY <3>1, <3>2 DEF Give, Self
    <3>4. PICK m : m = [mem EXCEPT !.bout = Tail(@)]
      OBVIOUS
    <3>5. /\ DOMAIN m = CarryFields /\ m.bin = mem.bin /\ m.bout = Tail(mem.bout)
          /\ m.held = mem.held
      BY <2>3, <3>4 DEF CarryFields
    <3>6. Turn("subgraph", s) /\ mem.bout # <<>>
      BY <2>6, <3>2 DEF SubgraphEmits
    <3>7. UNCHANGED <<got, base>> /\ mem' = m /\ out' = Append(out, e)
      BY <3>3, <3>4, <3>6 DEF Turn, Becomes
    <3>8. ItemsIn(out') = Append(ItemsIn(out), Head(mem.bout))
      <4>1. e.item = Head(mem.bout)
        BY <3>1 DEF Emission
      <4> QED
        BY <1>2, <3>7, <4>1, ItemsAppend
    <3>9. /\ Append(ItemsIn(out), Head(mem.bout)) \in Seq(Item) /\ Tail(mem.bout) \in Seq(Item)
          /\ Whole(Append(ItemsIn(out), Head(mem.bout)), Tail(mem.bout), mem.held, mem.bin)
               = Whole(ItemsIn(out), mem.bout, mem.held, mem.bin)
      <4>1. HandsOut(Item, ItemsIn(out), mem.bout, mem.held, mem.bin)
        BY <2>3, WholeMoves
      <4> QED
        BY <3>6, <4>1 DEF HandsOut
    <3>10. Fresh' = Fresh
      BY <3>7 DEF Fresh
    <3> QED
      BY <2>3, <3>5, <3>7, <3>8, <3>9, <3>10 DEF Carried
  <2> QED
    BY <2>1, <2>4, <2>5, <2>6
<1>8. CASE mem # <<>> /\ OutsideStep
  <2>1. InnerStarts \/ InnerTakes \/ InnerGives
    BY <1>1, <1>8, AskerOutside
  <2>2. starts # 0 /\ UNCHANGED <<got, base, out>>
    BY <1>2, <1>8, <2>1 DEF NotYet, InnerStarts, InnerTakes, InnerGives, Outside
  <2>3. /\ DOMAIN mem = CarryFields
        /\ mem.bout \in Seq(Item) /\ mem.held \in Seq(Item) /\ mem.bin \in Seq(Item)
        /\ ItemsIn(out) \in Seq(Item)
        /\ EndsWith(Whole(ItemsIn(out), mem.bout, mem.held, mem.bin), Fresh)
        /\ Fresh' = Fresh
    BY <1>2, <2>2 DEF Carried, Fresh
  <2>4. CASE InnerStarts
    <3>1. PICK m : m = [mem EXCEPT !.inner = "running"]
      OBVIOUS
    <3>2. mem' = m
      BY <2>4, <3>1 DEF InnerStarts, Outside
    <3>3. DOMAIN m = CarryFields /\ m.bin = mem.bin /\ m.bout = mem.bout /\ m.held = mem.held
      BY <2>3, <3>1 DEF CarryFields
    <3> QED
      BY <1>3, <2>2, <3>2, <3>3
  <2>5. CASE InnerTakes
    <3>1. PICK m : m = [mem EXCEPT !.held = <<Head(mem.bin)>>, !.bin = Tail(@)]
      OBVIOUS
    <3>2. mem' = m /\ mem.held = <<>> /\ mem.bin # <<>>
      BY <2>5, <3>1 DEF InnerTakes, Outside
    <3>3. /\ DOMAIN m = CarryFields /\ m.bin = Tail(mem.bin) /\ m.bout = mem.bout
          /\ m.held = <<Head(mem.bin)>>
      BY <2>3, <3>1 DEF CarryFields
    <3>4. /\ <<Head(mem.bin)>> \in Seq(Item) /\ Tail(mem.bin) \in Seq(Item)
          /\ Whole(ItemsIn(out), mem.bout, <<Head(mem.bin)>>, Tail(mem.bin))
               = Whole(ItemsIn(out), mem.bout, mem.held, mem.bin)
      <4>1. HandsIn(Item, ItemsIn(out), mem.bout, mem.held, mem.bin)
        BY <2>3, WholeMoves
      <4> QED
        BY <3>2, <4>1 DEF HandsIn
    <3> QED
      BY <2>2, <2>3, <3>2, <3>3, <3>4 DEF Carried
  <2>6. CASE InnerGives
    <3>1. PICK m : m = [mem EXCEPT !.bout = @ \o mem.held, !.held = <<>>]
      OBVIOUS
    <3>2. mem' = m
      BY <2>6, <3>1 DEF InnerGives, Outside
    <3>3. /\ DOMAIN m = CarryFields /\ m.bin = mem.bin /\ m.bout = mem.bout \o mem.held
          /\ m.held = <<>>
      BY <2>3, <3>1 DEF CarryFields
    <3>4. /\ mem.bout \o mem.held \in Seq(Item) /\ <<>> \in Seq(Item)
          /\ Whole(ItemsIn(out), mem.bout \o mem.held, <<>>, mem.bin)
               = Whole(ItemsIn(out), mem.bout, mem.held, mem.bin)
      <4>1. HandsOver(Item, ItemsIn(out), mem.bout, mem.held, mem.bin)
        BY <2>3, WholeMoves
      <4> QED
        BY <4>1 DEF HandsOver
    <3> QED
      BY <2>2, <2>3, <3>2, <3>3, <3>4 DEF Carried
  <2> QED
    BY <2>1, <2>4, <2>5, <2>6
<1> QED
  BY <1>1, <1>2, <1>4, <1>5, <1>6, <1>7, <1>8, DeviceNext DEF DeviceChange

LEMMA CarriedMeaning == ASSUME DeviceTyped, CarriedInv PROVE SubgraphConserves
<1> SUFFICES ASSUME node.type = "subgraph", mem # <<>> PROVE SubgraphConserves
  BY DEF SubgraphConserves
<1>1. node.type \in Askers /\ node.type \in Handlers
  BY DEF Askers, Handlers
<1>2. /\ Carried(mem, out, Fresh)
      /\ got \in Seq(Item) /\ base \in 0..Len(got) /\ Fresh \in Seq(Item)
  BY <1>1, FreshTyped DEF DeviceTyped, NotYet, CarriedInv
<1>3. PICK w : w = Whole(ItemsIn(out), mem.bout, mem.held, mem.bin)
  OBVIOUS
<1>4. w \in Seq(Item) /\ EndsWith(w, Fresh)
  BY <1>2, <1>3, WholeMoves DEF Carried
<1>5. IsSuffix(Fresh, w)
  BY <1>2, <1>4, SuffixMeaning
<1>6. w = ([k \in DOMAIN out |-> out[k].item] \o mem.bout \o mem.held \o mem.bin)
  BY <1>3 DEF Whole, ItemsIn
<1> QED
  BY <1>5, <1>6 DEF SubgraphConserves

-----------------------------------------------------------------------------
(* Answers.                                                                *)

AnswersIn(o) == {k \in DOMAIN o : o[k].form # "input"}

\* What was read on the one port has grown numbers.
Rising(g) == \A k \in DOMAIN g : \A j \in DOMAIN g : j < k => g[j].n < g[k].n

\* hand is 1 while item, the last that was read, has no answer yet; lost counts
\* those that never get one.
Answered(o, g, hand, item, lost) ==
  /\ \A k \in AnswersIn(o) : \E j \in DOMAIN g : o[k].item = g[j]
  /\ \A k \in AnswersIn(o) : \A j \in AnswersIn(o) : j < k => o[j].item.n < o[k].item.n
  /\ hand = 1 => /\ Len(g) > 0 /\ item = g[Len(g)]
                 /\ \A k \in AnswersIn(o) : o[k].item.n < item.n
  /\ hand \in 0..1 /\ lost \in Nat
  /\ Cardinality(AnswersIn(o)) + hand <= Len(g)
  /\ Len(g) <= Cardinality(AnswersIn(o)) + hand + lost

\* What one more emission makes of the answers.
MoreAnswers(o, e, a) ==
  /\ IsFiniteSet(AnswersIn(o)) /\ Cardinality(AnswersIn(o)) \in Nat
  /\ e.form = "input" => AnswersIn(a) = AnswersIn(o)
  /\ e.form # "input" =>
       /\ AnswersIn(a) = AnswersIn(o) \cup {Len(o) + 1}
       /\ Cardinality(AnswersIn(a)) = Cardinality(AnswersIn(o)) + 1
  /\ \A k \in AnswersIn(o) : a[k] = o[k] /\ k <= Len(o)
  /\ a[Len(o) + 1] = e /\ Len(o) \in Nat
  /\ AnswersIn(o) \subseteq Nat

LEMMA AnswersMore ==
  ASSUME NEW o, IsSeq(o), NEW e
  PROVE  MoreAnswers(o, e, Append(o, e))
<1> DEFINE a == Append(o, e)
           A == AnswersIn(o)
<1>1. /\ DOMAIN o = 1..Len(o) /\ Len(o) \in Nat
      /\ DOMAIN a = 1..(Len(o) + 1)
      /\ \A k \in 1..Len(o) : a[k] = o[k]
      /\ a[Len(o) + 1] = e
  BY AppendSeq
<1> HIDE DEF a
<1>2. A \subseteq 1..Len(o)
  BY <1>1 DEF AnswersIn
<1>3. IsFiniteSet(A)
  <2>1. IsFiniteSet(1..Len(o))
    BY <1>1, FS_Interval
  <2> QED
    BY <1>2, <2>1, FS_Subset
<1>4. Len(o) + 1 \notin A /\ A \subseteq Nat
  BY <1>1, <1>2
<1>5. Cardinality(A) \in Nat /\ Cardinality(A \cup {Len(o) + 1}) = Cardinality(A) + 1
  BY <1>3, <1>4, FS_CardinalityType, FS_AddElement
<1>6. ASSUME NEW k PROVE k \in AnswersIn(a) <=> k \in A \/ (k = Len(o) + 1 /\ e.form # "input")
  <2>1. k \in AnswersIn(a) <=> k \in 1..(Len(o) + 1) /\ a[k].form # "input"
    BY <1>1 DEF AnswersIn
  <2>2. k \in A <=> k \in 1..Len(o) /\ o[k].form # "input"
    BY <1>1 DEF AnswersIn
  <2>3. k \in 1..(Len(o) + 1) <=> k \in 1..Len(o) \/ k = Len(o) + 1
    BY <1>1
  <2>4. Len(o) + 1 \notin 1..Len(o)
    BY <1>1
  <2> HIDE DEF A
  <2> QED
    BY <1>1, <2>1, <2>2, <2>3, <2>4
<1>7. \A k \in A : a[k] = o[k] /\ k <= Len(o)
  BY <1>1, <1>2
<1> HIDE DEF A
<1>8. e.form = "input" => AnswersIn(a) = A
  BY <1>6
<1>9. e.form # "input" => AnswersIn(a) = A \cup {Len(o) + 1}
  BY <1>6
<1> QED
  BY <1>1, <1>3, <1>4, <1>5, <1>7, <1>8, <1>9 DEF a, A, MoreAnswers

LEMMA AnswerTold ==
  ASSUME NEW o, IsSeq(o), NEW g, NEW h, NEW i, NEW l, Answered(o, g, h, i, l),
         NEW e, e.form = "input"
  PROVE  Answered(Append(o, e), g, h, i, l)
<1>1. MoreAnswers(o, e, Append(o, e))
  BY AnswersMore
<1>2. PICK a : a = Append(o, e)
  OBVIOUS
<1>3. AnswersIn(a) = AnswersIn(o) /\ \A k \in AnswersIn(o) : a[k] = o[k]
  BY <1>1, <1>2 DEF MoreAnswers
<1>4. Answered(a, g, h, i, l)
  BY <1>3 DEF Answered
<1> QED
  BY <1>2, <1>4

LEMMA AnswerGiven ==
  ASSUME NEW o, IsSeq(o), NEW S, \A i \in S : i.n \in Nat, NEW g \in Seq(S), NEW i, NEW l,
         Answered(o, g, 1, i, l), NEW e, e.form # "input", e.item = i, NEW i1
  PROVE  Answered(Append(o, e), g, 0, i1, l)
<1>1. PICK a : a = Append(o, e)
  OBVIOUS
<1>2. PICK A : A = AnswersIn(o)
  OBVIOUS
<1>3. PICK c : c = Cardinality(A)
  OBVIOUS
<1>4. PICK n : n = Len(o) + 1
  OBVIOUS
<1>5. /\ AnswersIn(a) = A \cup {n} /\ Cardinality(AnswersIn(a)) = c + 1
      /\ c \in Nat /\ \A k \in A : a[k] = o[k] /\ k < n /\ k # n
      /\ a[n] = e /\ n \in Nat /\ A \subseteq Nat
  <2>1. MoreAnswers(o, e, a)
    BY <1>1, AnswersMore
  <2>2. /\ AnswersIn(a) = A \cup {n} /\ Cardinality(AnswersIn(a)) = c + 1
        /\ c \in Nat /\ a[n] = e /\ n \in Nat /\ A \subseteq Nat
    BY <1>2, <1>3, <1>4, <2>1 DEF MoreAnswers
  <2>3. \A k \in A : a[k] = o[k] /\ k <= Len(o) /\ k \in Nat /\ Len(o) \in Nat
    BY <1>2, <2>1, <2>2 DEF MoreAnswers
  <2>4. \A k \in A : k < n /\ k # n
    BY <1>4, <2>3
  <2> QED
    BY <2>2, <2>3, <2>4
<1>6. /\ \A k \in A : \E j \in DOMAIN g : o[k].item = g[j]
      /\ \A k \in A : \A j \in A : j < k => o[j].item.n < o[k].item.n
      /\ Len(g) > 0 /\ i = g[Len(g)] /\ \A k \in A : o[k].item.n < i.n
      /\ l \in Nat /\ c + 1 <= Len(g) /\ Len(g) <= c + 1 + l
  BY <1>2, <1>3 DEF Answered
<1>7. ASSUME NEW k \in A \cup {n} PROVE \E j \in DOMAIN g : a[k].item = g[j]
  <2>1. Len(g) \in DOMAIN g
    BY <1>6
  <2> QED
    BY <1>5, <1>6, <2>1
<1>8. ASSUME NEW k \in A \cup {n}, NEW j \in A \cup {n}, j < k PROVE a[j].item.n < a[k].item.n
  <2>1. CASE k = n
    <3>1. j \in A
      BY <1>5, <1>8, <2>1
    <3> QED
      BY <1>5, <1>6, <2>1, <3>1
  <2>2. CASE k \in A
    <3>1. j \in A
      BY <1>5, <1>8, <2>2
    <3> QED
      BY <1>5, <1>6, <1>8, <2>2, <3>1
  <2> QED
    BY <2>1, <2>2
<1>9. (c + 1) + 0 <= Len(g) /\ Len(g) <= (c + 1) + 0 + l /\ 0 \in 0..1 /\ 0 # 1
  BY <1>5, <1>6
<1>10. Answered(a, g, 0, i1, l)
  BY <1>5, <1>6, <1>7, <1>8, <1>9 DEF Answered
<1> QED
  BY <1>1, <1>10

LEMMA AnswerDue ==
  ASSUME NEW o, IsSeq(o), NEW S, \A i \in S : i.n \in Nat, NEW g \in Seq(S), NEW i0, NEW l,
         Answered(o, g, 0, i0, l), NEW i \in S, Rising(Append(g, i))
  PROVE  Answered(o, Append(g, i), 1, i, l)
<1>1. PICK t : t = Append(g, i)
  OBVIOUS
<1>2. PICK A : A = AnswersIn(o)
  OBVIOUS
<1>3. PICK c : c = Cardinality(A)
  OBVIOUS
<1>4. c \in Nat
  BY <1>2, <1>3, AnswersMore DEF MoreAnswers
<1>5. /\ Len(g) \in Nat /\ DOMAIN g = 1..Len(g) /\ Len(t) = Len(g) + 1 /\ DOMAIN t = 1..(Len(g) + 1)
      /\ \A k \in 1..Len(g) : t[k] = g[k]
      /\ t[Len(g) + 1] = i
  BY <1>1
<1>6. /\ \A k \in A : \E j \in 1..Len(g) : o[k].item = g[j]
      /\ \A k \in A : \A j \in A : j < k => o[j].item.n < o[k].item.n
      /\ l \in Nat /\ c + 0 <= Len(g) /\ Len(g) <= c + 0 + l
  BY <1>2, <1>3, <1>5 DEF Answered
<1>7. ASSUME NEW k \in A
      PROVE  (\E j \in DOMAIN t : o[k].item = t[j]) /\ o[k].item.n < i.n
  <2>1. PICK j \in 1..Len(g) : o[k].item = g[j]
    BY <1>6
  <2>2. j \in DOMAIN t /\ Len(g) + 1 \in DOMAIN t /\ j < Len(g) + 1 /\ t[j] = g[j]
    BY <1>5
  <2>3. t[j].n < t[Len(g) + 1].n
    BY <1>1, <2>2 DEF Rising
  <2> QED
    BY <1>5, <2>1, <2>2, <2>3
<1>8. c + 1 <= Len(t) /\ Len(t) <= c + 1 + l /\ Len(t) > 0 /\ i = t[Len(t)] /\ 1 \in 0..1
  BY <1>4, <1>5, <1>6
<1>9. Answered(o, t, 1, i, l)
  BY <1>2, <1>3, <1>6, <1>7, <1>8 DEF Answered
<1> QED
  BY <1>1, <1>9

LEMMA AnswerLost ==
  ASSUME NEW o, IsSeq(o), NEW g, Len(g) \in Nat, NEW h, NEW i, NEW l, Answered(o, g, h, i, l), NEW i1
  PROVE  Answered(o, g, 0, i1, l + 1)
<1>1. PICK c : c = Cardinality(AnswersIn(o))
  OBVIOUS
<1>2. c \in Nat
  BY <1>1, AnswersMore DEF MoreAnswers
<1>3. h \in 0..1 /\ l \in Nat /\ c + h <= Len(g) /\ Len(g) <= c + h + l
  BY <1>1 DEF Answered
<1>4. c + 0 <= Len(g) /\ Len(g) <= c + 0 + (l + 1) /\ l + 1 \in Nat /\ 0 \in 0..1 /\ 0 # 1
  BY <1>2, <1>3
<1> QED
  BY <1>1, <1>4 DEF Answered

LEMMA AnswerNone == ASSUME NEW o, NEW g, NEW i, NEW l, Answered(o, g, 0, i, l), NEW i1
                    PROVE  Answered(o, g, 0, i1, l)
BY DEF Answered

Hand(p) == IF p \in {"run", "await"} THEN 1 ELSE 0
LostSoFar(m, c) == c + (IF node.type = "mcp_client" /\ m # <<>> THEN m.drops ELSE 0)

DropsKept(m) == node.type = "mcp_client" /\ m # <<>> => DOMAIN m = {"drops"} /\ m.drops \in Nat

\* A process output that has no command answers nothing.
Mute == NoCommand /\ node.opt.allowed

AnsweredInv ==
  node.type \in Answering =>
    IF Mute THEN AnswersIn(out) = {} /\ Hand(pc) = 0
    ELSE Answered(out, got, Hand(pc), local, LostSoFar(mem, cuts)) /\ DropsKept(mem)

\* What an item that is read leads to.
TakenUp(i) ==
  \/ /\ Hand(pc') = 1 /\ local' = i
     /\ out' = out \/ \E e : e.form = "input" /\ out' = Append(out, e)
  \/ Hand(pc') = 0 /\ \E e : e.form # "input" /\ e.item = i /\ out' = Append(out, e)

LEMMA AskPolls ==
  ASSUME ProcessOutput \/ HttpPost \/ LMStudio \/ SocketOut \/ McpClient
  PROVE  /\ Hand(pc) = 0 /\ (node.type # "process_output" => mem' = mem)
         /\ \/ UNCHANGED <<got, out>> /\ Hand(pc') = 0
            \/ Mute /\ out' = out /\ Hand(pc') = 0
            \/ /\ ~Mute /\ pass # <<>> /\ pipe[Head(pass)] # <<>>
               /\ got' = Append(got, Head(pipe[Head(pass)]))
               /\ TakenUp(Head(pipe[Head(pass)]))
<1> DEFINE i == Head(pipe[Head(pass)])
           Took(s) == /\ pass # <<>> /\ pipe[Head(pass)] # <<>> /\ got' = Append(got, i)
                      /\ Becomes(s)
           None == Becomes(Self) /\ got' = got
           Good == /\ Hand(pc) = 0 /\ (node.type # "process_output" => mem' = mem)
                   /\ \/ UNCHANGED <<got, out>> /\ Hand(pc') = 0
                      \/ Mute /\ out' = out /\ Hand(pc') = 0
                      \/ /\ ~Mute /\ pass # <<>> /\ pipe[Head(pass)] # <<>>
                         /\ got' = Append(got, i)
                         /\ TakenUp(i)
<1>1. /\ Self.mem = mem /\ Self.out = out /\ Self.pc = pc /\ Self.local = local
      /\ DOMAIN Self = {"mem", "local", "out", "pc"}
  BY DEF Self
<1>2. ASSUME None, pc = "loop" PROVE Good
  <2>1. UNCHANGED <<mem, out, pc, got>>
    BY <1>1, <1>2 DEF Becomes
  <2>2. Hand(pc) = 0 /\ Hand(pc') = 0
    BY <1>2, <2>1 DEF Hand
  <2> QED
    BY <2>1, <2>2
<1>3. ASSUME ~Mute, NEW s, Took(s), pc = "loop", s.pc \in {"run", "await"}, s.local = i,
             s.mem = mem \/ node.type = "process_output",
             s.out = out \/ \E e : e.form = "input" /\ s.out = Append(out, e)
      PROVE  Good
  <2>1. /\ mem' = s.mem /\ local' = i /\ out' = s.out /\ pc' = s.pc
        /\ pass # <<>> /\ pipe[Head(pass)] # <<>> /\ got' = Append(got, i)
    BY <1>3 DEF Becomes
  <2>2. Hand(pc) = 0 /\ Hand(pc') = 1
    BY <1>3, <2>1 DEF Hand
  <2> HIDE DEF i
  <2>3. TakenUp(i)
    BY <1>3, <2>1, <2>2 DEF TakenUp
  <2> QED
    BY <1>3, <2>1, <2>2, <2>3
<1>4. ASSUME ~Mute, NEW a, a # "", Asks(node.type, a) PROVE Good
  <2>1. PICK e : e = Emission(i, <<a>>, "input")
    OBVIOUS
  <2>2. PICK s : s = [Give(Self, i, <<a>>, "input") EXCEPT !.pc = "await", !.local = i]
    OBVIOUS
  <2>3. pc = "loop" /\ (Took(s) \/ None)
    BY <1>4, <2>2 DEF Asks, Each, Poll
  <2>4. s.pc = "await" /\ s.local = i /\ s.mem = mem /\ s.out = Append(out, e) /\ e.form = "input"
    BY <2>1, <2>2 DEF Give, Self, Emission
  <2> HIDE DEF Good, Took, None, i
  <2> QED
    BY <1>2, <1>3, <1>4, <2>3, <2>4
<1>5. ASSUME ~Mute, Asks(node.type, "") PROVE Good
  <2>2. PICK s : s = [Self EXCEPT !.pc = "await", !.local = i]
    OBVIOUS
  <2>3. pc = "loop" /\ (Took(s) \/ None)
    BY <1>5, <2>2 DEF Asks, Each, Poll
  <2>4. s.pc = "await" /\ s.local = i /\ s.mem = mem /\ s.out = out
    BY <2>2 DEF Self
  <2> HIDE DEF Good, Took, None, i
  <2> QED
    BY <1>2, <1>3, <1>5, <2>3, <2>4
<1>6. ASSUME ProcessOutput PROVE Good
  <2>1. PICK e : e = Emission(i, <<"out">>, "error")
    OBVIOUS
  <2>2. PICK s : s = [Self EXCEPT !.pc = "run", !.local = i, !.mem = Launched(@)]
    OBVIOUS
  <2>3. PICK r : r = Give(Self, i, <<"out">>, "error")
    OBVIOUS
  <2>4. /\ pc = "loop" /\ node.type = "process_output"
        /\ (Mute /\ Took(Self)) \/ (~Mute /\ (Took(s) \/ Took(r))) \/ None
    BY <1>6, <2>2, <2>3 DEF ProcessOutput, Each, Poll, Mute
  <2>5. s.pc = "run" /\ s.local = i /\ s.out = out
    BY <2>2 DEF Self
  <2>6. r.pc = pc /\ r.out = Append(out, e) /\ e.form # "input" /\ e.item = i
    BY <2>1, <2>3 DEF Give, Self, Emission
  <2>7. ASSUME ~Mute, Took(r) PROVE Good
    <3>1. /\ out' = r.out /\ pc' = r.pc
          /\ pass # <<>> /\ pipe[Head(pass)] # <<>> /\ got' = Append(got, i)
      BY <2>7 DEF Becomes
    <3>2. Hand(pc) = 0 /\ Hand(pc') = 0
      BY <2>4, <2>6, <3>1 DEF Hand
    <3> HIDE DEF i
    <3>3. TakenUp(i)
      BY <2>6, <3>1, <3>2 DEF TakenUp
    <3> QED
      BY <2>4, <2>7, <3>1, <3>2, <3>3
  <2>8. ASSUME Mute, Took(Self) PROVE Good
    <3>1. out' = out /\ pc' = pc
      BY <1>1, <2>8 DEF Becomes
    <3>2. Hand(pc) = 0 /\ Hand(pc') = 0
      BY <2>4, <3>1 DEF Hand
    <3> QED
      BY <2>4, <2>8, <3>1, <3>2
  <2> HIDE DEF Good, Took, None, i
  <2> QED
    BY <1>2, <1>3, <2>4, <2>5, <2>7, <2>8
<1>7. Good
  <2> HIDE DEF Good
  <2>1. HttpPost => Asks(node.type, "request") /\ ~Mute
    BY DEF HttpPost, Asks, Each, Mute, NoCommand
  <2>2. LMStudio => Asks(node.type, "prompt") /\ ~Mute
    BY DEF LMStudio, Asks, Each, Mute, NoCommand
  <2>3. SocketOut => Asks(node.type, "") /\ ~Mute
    BY DEF SocketOut, Asks, Each, Mute, NoCommand
  <2>4. McpClient => Asks(node.type, "") /\ ~Mute
    BY DEF McpClient, Asks, Each, Mute, NoCommand
  <2>5. "request" # "" /\ "prompt" # ""
    OBVIOUS
  <2> QED
    BY <1>4, <1>5, <1>6, <2>1, <2>2, <2>3, <2>4, <2>5
<1> QED
  BY <1>7

LEMMA AskedMem ==
  ASSUME node.type \in Answering, DropsKept(mem)
  PROVE  /\ LostSoFar(DeviceMem, cuts) = LostSoFar(mem, cuts) /\ DropsKept(DeviceMem)
         /\ \A next : LostSoFar(CutMem(next), cuts) = LostSoFar(mem, cuts) /\ DropsKept(CutMem(next))
<1>1. CASE node.type # "mcp_client"
  BY <1>1 DEF LostSoFar, DropsKept
<1>2. CASE node.type = "mcp_client"
  <2>1. node.type \notin Commands \cup Mqtt \cup {"socket_server", "socket_input", "log_input", "subgraph"}
    BY <1>2 DEF Commands, CommandInputs, Mqtt
  <2>2. PICK n : n = IF mem = <<>> THEN 0 ELSE mem.drops
    OBVIOUS
  <2>3. DeviceMem = [drops |-> n]
    BY <1>2, <2>1, <2>2, Zenon DEF DeviceMem
  <2>4. PICK d : d = [drops |-> n]
    OBVIOUS
  <2>5. d # <<>> /\ DOMAIN d = {"drops"} /\ d.drops = n
    BY <2>4
  <2>6. \A next : CutMem(next) = mem
    BY <1>2, <2>1 DEF CutMem
  <2>7. n \in Nat
    BY <1>2, <2>2 DEF DropsKept
  <2> QED
    BY <1>2, <2>2, <2>3, <2>4, <2>5, <2>6, <2>7 DEF LostSoFar, DropsKept
<1> QED
  BY <1>1, <1>2

LEMMA AnswersOf ==
  ASSUME node.type \in Answering, Answer \/ CommandDone \/ CommandTimesOut
  PROVE  /\ Hand(pc) = 1 /\ Hand(pc') = 0 /\ got' = got /\ cuts' = cuts
         /\ node.type = "mcp_client" => mem' = mem
         /\ \E e : e.form # "input" /\ e.item = local /\ out' = Append(out, e)
<1> DEFINE Good == /\ Hand(pc) = 1 /\ Hand(pc') = 0 /\ got' = got /\ cuts' = cuts
                   /\ node.type = "mcp_client" => mem' = mem
                   /\ \E e : e.form # "input" /\ e.item = local /\ out' = Append(out, e)
<1>1. ASSUME Answer PROVE Good
  <2>1. PICK ok \in BOOLEAN : Again(Append(out, Emission(local, AnswerPorts(ok), IF ok THEN "result" ELSE "error")),
                        mem, AfterAnswer)
    BY <1>1 DEF Answer
  <2>2. PICK f : f = IF ok THEN "result" ELSE "error"
    OBVIOUS
  <2>3. PICK e : e = Emission(local, AnswerPorts(ok), f)
    OBVIOUS
  <2>4. e.form # "input" /\ e.item = local
    BY <2>2, <2>3 DEF Emission
  <2>5. Again(Append(out, e), mem, AfterAnswer) /\ pc = "await"
    BY <1>1, <2>1, <2>2, <2>3 DEF Answer
  <2>6. pc' = "loop" /\ got' = got /\ mem' = mem /\ out' = Append(out, e) /\ cuts' = cuts
    BY <2>5 DEF Again, Enter, lifeVars
  <2> QED
    BY <2>4, <2>5, <2>6 DEF Hand
<1>2. ASSUME CommandDone \/ CommandTimesOut PROVE Good
  <2>1. pc = "run" /\ node.type \in Commands
    BY <1>2 DEF CommandDone, CommandTimesOut
  <2>2. node.type = "process_output"
    BY <2>1 DEF Answering, Commands, CommandInputs
  <2>3. PICK f, m : Reports(f, m) /\ f # "input"
    BY <1>2 DEF CommandDone, CommandTimesOut
  <2>4. PICK e : e = Emission(local, <<"out">>, f)
    OBVIOUS
  <2>5. e.form # "input" /\ e.item = local
    BY <2>3, <2>4 DEF Emission
  <2>6. Again(Append(out, e), m, <<>>)
    BY <2>2, <2>3, <2>4 DEF Reports
  <2>7. pc' = "loop" /\ got' = got /\ out' = Append(out, e) /\ cuts' = cuts
    BY <2>6 DEF Again, Enter, lifeVars
  <2> QED
    BY <2>1, <2>2, <2>5, <2>7 DEF Hand
<1> QED
  BY <1>1, <1>2

LEMMA RisesNext ==
  ASSUME node \in AllTypes, node' = node, node.type \in Handlers, DeviceTyped', DeviceLines'
  PROVE  Rising(got')
<1>1. node'.type \in Handlers /\ node'.type \in Askers
  BY DEF Askers
<1>2. NodePorts = {"in"}
  BY AskerNode DEF Askers
<1>3. NodePorts' = {"in"} /\ Item' = Item
  BY <1>2 DEF NodePorts, Item
<1>4. got' \in Seq(Item) /\ InLine("in")'
  BY <1>1, <1>3 DEF DeviceTyped, DeviceLines, Askers, Handlers, Requests
<1>5. \A k \in DOMAIN got' : got'[k].port = "in"
  <2>1. \A j \in Item : j.port = "in"
    BY <1>2 DEF Item
  <2> QED
    BY <1>4, <2>1
<1> QED
  BY <1>4, <1>5 DEF InLine, Rising

LEMMA AnsweredTaken ==
  ASSUME node \in AllTypes, node' = node, node.type \in Answering, DeviceTyped, DeviceTyped', DeviceLines',
         AnsweredInv, ~Mute, cuts' = cuts,
         ProcessOutput \/ HttpPost \/ LMStudio \/ SocketOut \/ McpClient
  PROVE  Answered(out', got', Hand(pc'), local', LostSoFar(mem', cuts')) /\ DropsKept(mem')
<1>1. node.type \in Askers /\ node.type \in Handlers
  BY DEF Askers, Handlers, Requests, Answering
<1>2. /\ IsSeq(out) /\ pass \in Seq(NodePorts) /\ pipe \in [NodePorts -> Seq(Item)]
      /\ got \in Seq(Item)
  BY <1>1 DEF DeviceTyped
<1>3. \A i \in Item : i.n \in Nat
  BY NodeLoopAssumption DEF Item
<1>4. PICK l : l = LostSoFar(mem, cuts)
  OBVIOUS
<1>5. /\ Answered(out, got, 0, local, l) /\ DropsKept(mem)
      /\ Hand(pc) = 0 /\ (node.type # "process_output" => mem' = mem)
  BY <1>4, AskPolls DEF AnsweredInv
<1>6. LostSoFar(mem', cuts') = l /\ DropsKept(mem')
  BY <1>4, <1>5 DEF LostSoFar, DropsKept
<1>7. CASE UNCHANGED <<got, out>> /\ Hand(pc') = 0
  BY <1>5, <1>6, <1>7, AnswerNone
<1>8. CASE ~(UNCHANGED <<got, out>> /\ Hand(pc') = 0)
  <2>1. /\ pass # <<>> /\ pipe[Head(pass)] # <<>>
        /\ got' = Append(got, Head(pipe[Head(pass)]))
        /\ TakenUp(Head(pipe[Head(pass)]))
    BY <1>8, AskPolls
  <2>2. PICK i \in Item : i = Head(pipe[Head(pass)])
    BY <1>2, <2>1
  <2>3. Rising(got')
    BY <1>1, RisesNext
  <2>4. PICK g : g = Append(got, i)
    OBVIOUS
  <2>5. Answered(out, g, 1, i, l)
    BY <1>2, <1>3, <1>5, <2>1, <2>2, <2>3, <2>4, AnswerDue
  <2>6. got' = g /\ TakenUp(i) /\ g \in Seq(Item)
    BY <1>2, <2>1, <2>2, <2>4
  <2>7. CASE Hand(pc') = 1 /\ local' = i /\ out' = out
    BY <1>6, <2>5, <2>6, <2>7
  <2>8. ASSUME Hand(pc') = 1 /\ local' = i, NEW e, e.form = "input", out' = Append(out, e)
        PROVE  Answered(out', got', Hand(pc'), local', LostSoFar(mem', cuts')) /\ DropsKept(mem')
    <3>1. Answered(Append(out, e), g, 1, i, l)
      BY <1>2, <2>5, <2>8, AnswerTold
    <3> QED
      BY <1>6, <2>6, <2>8, <3>1
  <2>9. ASSUME Hand(pc') = 0, NEW e, e.form # "input", e.item = i, out' = Append(out, e)
        PROVE  Answered(out', got', Hand(pc'), local', LostSoFar(mem', cuts')) /\ DropsKept(mem')
    <3>1. Answered(Append(out, e), g, 0, local', l)
      BY <1>2, <1>3, <2>5, <2>6, <2>9, AnswerGiven
    <3> QED
      BY <1>6, <2>6, <2>9, <3>1
  <2> QED
    BY <2>6, <2>7, <2>8, <2>9 DEF TakenUp
<1> QED
  BY <1>7, <1>8

\* Without a command nothing is started, and nothing answered.
LEMMA MuteStep ==
  ASSUME node \in AllTypes, node.type \in Answering, DeviceTyped, Mute,
         AnswersIn(out) = {}, Hand(pc) = 0, [Next]_vars
  PROVE  AnswersIn(out') = {} /\ Hand(pc') = 0
<1>1. node.type = "process_output" /\ node.type \in Askers
  BY DEF Mute, NoCommand, Answering, Askers, Handlers
<1>2. pc \in Standing
  BY <1>1 DEF DeviceTyped
<1> SUFFICES out' = out /\ Hand(pc') = 0
  OBVIOUS
<1>3. CASE Aside
  BY <1>3 DEF Aside
<1>4. CASE Start(DeviceMem, DeviceLocal) \/ Resume(DeviceLocal)
  BY <1>4, TaskBegins DEF Hand
<1>5. CASE \E next \in {"paused", "stopped"} : DeviceCut(next)
  BY <1>5, TaskCut DEF Hand
<1>6. CASE DeviceStep
  <2>1. ProcessOutput \/ CommandDone \/ CommandTimesOut
    BY <1>1, <1>2, <1>6, AskerSteps
  <2>2. pc # "run"
    BY DEF Hand
  <2>3. ProcessOutput
    BY <2>1, <2>2 DEF CommandDone, CommandTimesOut
  <2> QED
    BY <2>3, AskPolls
<1>7. CASE mem # <<>> /\ OutsideStep
  <2>1. CommandForks \/ CommandExits
    BY <1>1, <1>7, AskerOutside
  <2> QED
    BY <2>1 DEF CommandForks, CommandExits, Outside, loopVars
<1>8. DeviceChange
  BY <1>1, <1>2, DeviceNext
<1> QED
  BY <1>3, <1>4, <1>5, <1>6, <1>7, <1>8, Zenon DEF DeviceChange

LEMMA AnsweredStep ==
  ASSUME node \in AllTypes, node' = node, DeviceTyped, DeviceTyped', DeviceLines', AnsweredInv, [Next]_vars
  PROVE  AnsweredInv'
<1>0. Mute' = Mute
  BY DEF Mute, NoCommand
<1>12. ASSUME node.type \in Answering, Mute PROVE AnsweredInv'
  <2>1. AnswersIn(out) = {} /\ Hand(pc) = 0
    BY <1>12 DEF AnsweredInv
  <2> QED
    BY <1>0, <1>12, <2>1, MuteStep DEF AnsweredInv
<1> SUFFICES ASSUME node.type \in Answering, ~Mute
             PROVE  Answered(out', got', Hand(pc'), local', LostSoFar(mem', cuts')) /\ DropsKept(mem')
  BY <1>0, <1>12 DEF AnsweredInv, LostSoFar, DropsKept
<1> DEFINE Good == Answered(out', got', Hand(pc'), local', LostSoFar(mem', cuts')) /\ DropsKept(mem')
<1>1. /\ node.type \in Askers /\ node.type \in Handlers
      /\ node.type \notin {"user_prompt", "log_input", "socket_server", "subgraph"}
  BY DEF Askers, Handlers, Requests, Answering
<1>2. /\ pc \in Standing /\ IsSeq(out) /\ got \in Seq(Item) /\ Len(got) \in Nat
      /\ (starts = 0 => NotYet) /\ (life # "running" => pc = "none")
  BY <1>1 DEF DeviceTyped
<1>3. /\ Answered(out, got, Hand(pc), local, LostSoFar(mem, cuts)) /\ DropsKept(mem)
      /\ Hand(pc) \in 0..1
  BY DEF AnsweredInv, Hand
<1>4. \A i \in Item : i.n \in Nat
  BY NodeLoopAssumption DEF Item
<1>5. ASSUME UNCHANGED <<out, got, pc, cuts>>, local' = local \/ Hand(pc) = 0,
             mem' = mem \/ node.type # "mcp_client"
      PROVE  Good
  <2>1. LostSoFar(mem', cuts') = LostSoFar(mem, cuts) /\ DropsKept(mem')
    BY <1>3, <1>5 DEF LostSoFar, DropsKept
  <2>2. Hand(pc') = Hand(pc)
    BY <1>5
  <2>3. CASE Hand(pc) = 0
    BY <1>3, <1>5, <2>1, <2>2, <2>3, AnswerNone
  <2>4. CASE Hand(pc) # 0
    BY <1>3, <1>5, <2>1, <2>2, <2>4
  <2> QED
    BY <2>3, <2>4
<1>6. CASE Aside
  BY <1>5, <1>6 DEF Aside, lifeVars
<1>7. CASE Start(DeviceMem, DeviceLocal) \/ Resume(DeviceLocal)
  <2>1. /\ pc' = "loop" /\ UNCHANGED <<cuts, out, got>> /\ life # "running"
        /\ mem' = DeviceMem \/ mem' = mem
    BY <1>7, TaskBegins
  <2>2. Hand(pc) = 0 /\ Hand(pc') = 0
    BY <1>2, <2>1 DEF Hand
  <2>3. LostSoFar(mem', cuts') = LostSoFar(mem, cuts) /\ DropsKept(mem')
    BY <1>3, <2>1, AskedMem
  <2> QED
    BY <1>3, <2>1, <2>2, <2>3, AnswerNone
<1>8. CASE \E next \in {"paused", "stopped"} : DeviceCut(next)
  <2>1. PICK next \in {"paused", "stopped"} : DeviceCut(next)
    BY <1>8
  <2>2. pc' = "none" /\ cuts' = cuts + 1 /\ UNCHANGED <<out, got>> /\ mem' = CutMem(next)
    BY <2>1, TaskCut
  <2>3. Hand(pc') = 0
    BY <2>2 DEF Hand
  <2>4. PICK l : l = LostSoFar(mem, cuts)
    OBVIOUS
  <2>5. LostSoFar(mem', cuts) = l /\ DropsKept(mem')
    BY <1>3, <2>2, <2>4, AskedMem
  <2>6. LostSoFar(mem', cuts') = l + 1
    <3>1. cuts \in Nat
      BY <1>1 DEF DeviceTyped
    <3>2. PICK d : d = IF node.type = "mcp_client" /\ mem' # <<>> THEN mem'.drops ELSE 0
      OBVIOUS
    <3>3. d \in Nat
      BY <2>5, <3>2 DEF DropsKept
    <3>4. l = cuts + d /\ LostSoFar(mem', cuts') = (cuts + 1) + d
      BY <2>2, <2>5, <3>2 DEF LostSoFar
    <3> QED
      BY <3>1, <3>3, <3>4
  <2>7. Answered(out, got, 0, local', l + 1)
    BY <1>2, <1>3, <2>4, AnswerLost
  <2> QED
    BY <2>2, <2>3, <2>5, <2>6, <2>7
<1>9. CASE DeviceStep
  <2>1. UNCHANGED lifeVars
    BY <1>1, <1>2, <1>9, HandlerSteps, DevicePolls, DeviceResting DEF DevicePoll, DeviceRests
  <2>2. cuts' = cuts
    BY <2>1 DEF lifeVars
  <2>3. \/ ProcessOutput \/ HttpPost \/ LMStudio \/ SocketOut \/ McpClient
        \/ Answer \/ CommandDone \/ CommandTimesOut
        \/ McpConnects
    BY <1>1, <1>2, <1>9, AskerSteps DEF Handlers, Requests
  <2>4. CASE ProcessOutput \/ HttpPost \/ LMStudio \/ SocketOut \/ McpClient
    BY <2>2, <2>4, AnsweredTaken
  <2>5. CASE Answer \/ CommandDone \/ CommandTimesOut
    <3>1. /\ Hand(pc) = 1 /\ Hand(pc') = 0 /\ got' = got /\ cuts' = cuts
          /\ node.type = "mcp_client" => mem' = mem
      BY <2>5, AnswersOf
    <3>2. PICK e : e.form # "input" /\ e.item = local /\ out' = Append(out, e)
      BY <2>5, AnswersOf
    <3>3. LostSoFar(mem', cuts') = LostSoFar(mem, cuts) /\ DropsKept(mem')
      BY <1>3, <3>1 DEF LostSoFar, DropsKept
    <3>4. PICK l : l = LostSoFar(mem, cuts)
      OBVIOUS
    <3>5. Answered(Append(out, e), got, 0, local', l)
      BY <1>2, <1>3, <1>4, <3>1, <3>2, <3>4, AnswerGiven
    <3> QED
      BY <3>1, <3>2, <3>3, <3>4, <3>5
  <2>6. CASE McpConnects
    <3>1. PICK s : s = [Self EXCEPT !.local = Connected]
      OBVIOUS
    <3>2. GoOn("mcp_client", s) /\ pc = "loop"
      BY <2>6, <3>1 DEF McpConnects
    <3>3. s.pc = pc /\ s.out = out /\ s.mem = mem
      BY <3>1 DEF Self
    <3>4. UNCHANGED <<out, got, pc, mem>>
      BY <3>2, <3>3 DEF GoOn, Becomes
    <3>5. Hand(pc) = 0
      BY <3>2 DEF Hand
    <3> QED
      BY <1>5, <2>2, <3>4, <3>5
  <2> QED
    BY <2>3, <2>4, <2>5, <2>6
<1>10. CASE mem # <<>> /\ OutsideStep
  <2>1. \/ node.type = "process_output" /\ (CommandForks \/ CommandExits)
        \/ node.type = "mcp_client" /\ McpDrops
    BY <1>1, <1>10, AskerOutside
  <2>2. CASE node.type = "process_output" /\ (CommandForks \/ CommandExits)
    <3>1. UNCHANGED <<out, got, pc, local, cuts>>
      BY <2>2 DEF CommandForks, CommandExits, Outside, loopVars, lifeVars
    <3> QED
      BY <1>5, <2>2, <3>1
  <2>3. CASE node.type = "mcp_client" /\ McpDrops
    <3>1. PICK m : m = [mem EXCEPT !.drops = @ + 1]
      OBVIOUS
    <3>2. /\ pc' = "loop" /\ UNCHANGED <<out, got, cuts>> /\ mem' = m
      BY <2>3, <3>1 DEF McpDrops, Again, Enter, lifeVars
    <3>3. DOMAIN mem = {"drops"} /\ mem.drops \in Nat
      BY <1>3, <1>10, <2>3 DEF DropsKept
    <3>4. m # <<>> /\ DOMAIN m = {"drops"} /\ m.drops = mem.drops + 1
      BY <3>1, <3>3
    <3>5. PICK l : l = LostSoFar(mem, cuts)
      OBVIOUS
    <3>6. LostSoFar(m, cuts) = l + 1 /\ DropsKept(m)
      <4>1. cuts \in Nat
        BY <1>1 DEF DeviceTyped
      <4>2. l = cuts + mem.drops /\ LostSoFar(m, cuts) = cuts + (mem.drops + 1)
        BY <1>10, <2>3, <3>4, <3>5 DEF LostSoFar
      <4> QED
        BY <3>3, <3>4, <4>1, <4>2 DEF DropsKept
    <3>7. Answered(out, got, 0, local', l + 1)
      BY <1>2, <1>3, <3>5, AnswerLost
    <3>8. Hand(pc') = 0
      BY <3>2 DEF Hand
    <3> QED
      BY <3>2, <3>6, <3>7, <3>8
  <2> QED
    BY <2>1, <2>2, <2>3
<1>11. DeviceChange
  BY <1>1, <1>2, DeviceNext
<1> QED
  BY <1>6, <1>7, <1>8, <1>9, <1>10, <1>11, Zenon DEF DeviceChange

LEMMA AnsweredMeaning == ASSUME AnsweredInv PROVE AnsweredOnce
<1> SUFFICES ASSUME node.type \in Answering PROVE AnsweredOnce
  BY DEF AnsweredOnce
<1>1. Answers = AnswersIn(out)
  BY DEF Answers, AnswersIn
<1>7. CASE Mute
  <2>1. Answers = {} /\ Hand(pc) = 0 /\ Cardinality({}) = 0
    BY <1>1, <1>7, FS_EmptySet DEF AnsweredInv
  <2>2. 0 + Hand(pc) <= Len(got)
    BY <2>1
  <2> QED
    BY <1>7, <2>1, <2>2 DEF AnsweredOnce, Hand, Mute
<1> SUFFICES ASSUME ~Mute PROVE AnsweredOnce
  BY <1>7
<1>2. Answered(out, got, Hand(pc), local, LostSoFar(mem, cuts))
  BY DEF AnsweredInv
<1>3. PICK c : c = Cardinality(AnswersIn(out))
  OBVIOUS
<1>4. \A k \in Answers : Contains(got, out[k].item)
  BY <1>1, <1>2 DEF Answered, Contains
<1>5. \A j, k \in Answers : j < k => out[j].item.n < out[k].item.n
  BY <1>1, <1>2 DEF Answered
<1>6. c + Hand(pc) <= Len(got) /\ Len(got) <= c + Hand(pc) + LostSoFar(mem, cuts)
  BY <1>2, <1>3 DEF Answered
<1> QED
  BY <1>1, <1>3, <1>4, <1>5, <1>6 DEF AnsweredOnce, Hand, LostSoFar, Mute

-----------------------------------------------------------------------------
(* What the connections of a socket server get.                            *)

\* What a connection has been sent, of what was read since it was made; now is
\* 1 while the last that was read is still to be sent to it.
Served(x, g, now, n) ==
  /\ DOMAIN x = {"sent", "since"} /\ x.since \in 0..Len(g) /\ x.sent \in Seq(Item)
  /\ \A k \in DOMAIN x.sent : \E j \in (x.since + 1)..Len(g) : x.sent[k] = g[j]
  /\ Rising(x.sent)
  /\ now \in 0..1
  /\ now = 1 => x.since < Len(g) /\ \A k \in DOMAIN x.sent : x.sent[k].n < g[Len(g)].n
  /\ Len(g) - x.since <= Len(x.sent) + now + n

NowOf(p, l, c) == IF p = "send" /\ c \in l.left THEN 1 ELSE 0

ServedAll(m, g, p, l, n) ==
  /\ DOMAIN m = {"server", "clients"}
  /\ \A c \in DOMAIN m.clients : Served(m.clients[c], g, NowOf(p, l, c), n)

\* The round that runs.
Round(m, g, p, l) ==
  p = "send" => /\ DOMAIN l = {"item", "left"} /\ Len(g) > 0 /\ l.item = g[Len(g)]
                /\ l.left \subseteq DOMAIN m.clients

ServedInv ==
  node.type = "socket_server" /\ starts # 0 =>
    ServedAll(mem, got, pc, local, cuts) /\ Round(mem, got, pc, local)

LEMMA ServedMore ==
  ASSUME \A i \in Item : i.n \in Nat, NEW g \in Seq(Item), NEW x, NEW n \in Nat, Served(x, g, 0, n),
         NEW i \in Item, Rising(Append(g, i))
  PROVE  Served(x, Append(g, i), 1, n)
<1>1. PICK t : t = Append(g, i)
  OBVIOUS
<1>2. /\ Len(g) \in Nat /\ Len(t) = Len(g) + 1 /\ DOMAIN t = 1..(Len(g) + 1)
      /\ \A k \in 1..Len(g) : t[k] = g[k]
      /\ t[Len(g) + 1] = i
  BY <1>1
<1>3. /\ DOMAIN x = {"sent", "since"} /\ x.since \in 0..Len(g) /\ x.sent \in Seq(Item)
      /\ \A k \in DOMAIN x.sent : \E j \in (x.since + 1)..Len(g) : x.sent[k] = g[j]
      /\ Rising(x.sent)
      /\ Len(g) - x.since <= Len(x.sent) + 0 + n
  BY DEF Served
<1>4. ASSUME NEW k \in DOMAIN x.sent
      PROVE  (\E j \in (x.since + 1)..Len(t) : x.sent[k] = t[j]) /\ x.sent[k].n < i.n
  <2>1. PICK j \in (x.since + 1)..Len(g) : x.sent[k] = g[j]
    BY <1>3
  <2>2. /\ j \in (x.since + 1)..Len(t) /\ j \in 1..Len(g) /\ t[j] = g[j]
        /\ j \in DOMAIN t /\ Len(g) + 1 \in DOMAIN t /\ j < Len(g) + 1
    BY <1>2, <1>3
  <2>3. t[j].n < t[Len(g) + 1].n
    BY <1>1, <2>2 DEF Rising
  <2> QED
    BY <1>2, <2>1, <2>2, <2>3
<1>5. /\ x.since \in 0..Len(t) /\ x.since < Len(t) /\ t[Len(t)] = i /\ 1 \in 0..1
      /\ Len(x.sent) \in Nat
  BY <1>2, <1>3
<1>6. Len(t) - x.since <= Len(x.sent) + 1 + n
  BY <1>2, <1>3, <1>5
<1>7. Served(x, t, 1, n)
  BY <1>3, <1>4, <1>5, <1>6 DEF Served
<1> QED
  BY <1>1, <1>7

LEMMA ServedSent ==
  ASSUME \A i \in Item : i.n \in Nat, NEW g \in Seq(Item), NEW x, NEW n \in Nat, Served(x, g, 1, n),
         NEW y, DOMAIN y = DOMAIN x, y.since = x.since, y.sent = Append(x.sent, g[Len(g)])
  PROVE  Served(y, g, 0, n)
<1>1. /\ DOMAIN x = {"sent", "since"} /\ x.since \in 0..Len(g) /\ x.sent \in Seq(Item)
      /\ \A k \in DOMAIN x.sent : \E j \in (x.since + 1)..Len(g) : x.sent[k] = g[j]
      /\ Rising(x.sent)
      /\ x.since < Len(g) /\ \A k \in DOMAIN x.sent : x.sent[k].n < g[Len(g)].n
      /\ Len(g) - x.since <= Len(x.sent) + 1 + n
  BY DEF Served
<1>2. PICK s : s = x.sent
  OBVIOUS
<1>3. PICK i : i = g[Len(g)]
  OBVIOUS
<1>4. Len(g) \in Nat /\ Len(g) \in (x.since + 1)..Len(g) /\ i \in Item
  BY <1>1, <1>3
<1>5. PICK t : t = Append(s, i)
  OBVIOUS
<1>6. /\ s \in Seq(Item) /\ Len(s) \in Nat /\ DOMAIN s = 1..Len(s)
      /\ t \in Seq(Item) /\ DOMAIN t = 1..(Len(s) + 1) /\ Len(t) = Len(s) + 1
      /\ \A k \in 1..Len(s) : t[k] = s[k]
      /\ t[Len(s) + 1] = i
  BY <1>1, <1>2, <1>4, <1>5
<1>7. /\ \A k \in 1..Len(s) : \E j \in (x.since + 1)..Len(g) : s[k] = g[j]
      /\ \A k \in 1..Len(s) : \A j \in 1..Len(s) : j < k => s[j].n < s[k].n
      /\ \A k \in 1..Len(s) : s[k].n < i.n
  BY <1>1, <1>2, <1>3, <1>6 DEF Rising
<1>8. ASSUME NEW k \in 1..(Len(s) + 1)
      PROVE  /\ \E j \in (x.since + 1)..Len(g) : t[k] = g[j]
             /\ \A j \in 1..(Len(s) + 1) : j < k => t[j].n < t[k].n
  <2>1. \A j \in 1..(Len(s) + 1) : j < k => j \in 1..Len(s) /\ t[j] = s[j]
    BY <1>6
  <2>2. CASE k = Len(s) + 1
    BY <1>3, <1>4, <1>6, <1>7, <2>1, <2>2
  <2>3. CASE k # Len(s) + 1
    <3>1. k \in 1..Len(s) /\ t[k] = s[k]
      BY <1>6, <2>3
    <3> QED
      BY <1>7, <2>1, <3>1
  <2> QED
    BY <2>2, <2>3
<1>9. Rising(t) /\ \A k \in DOMAIN t : \E j \in (x.since + 1)..Len(g) : t[k] = g[j]
  BY <1>6, <1>8 DEF Rising
<1>10. Len(g) - x.since <= Len(t) + 0 + n /\ 0 \in 0..1 /\ 0 # 1
  BY <1>1, <1>2, <1>4, <1>6
<1>11. y.sent = t
  BY <1>2, <1>3, <1>5
<1> QED
  BY <1>1, <1>6, <1>9, <1>10, <1>11 DEF Served

LEMMA ServedLess ==
  ASSUME NEW g \in Seq(Item), NEW x, NEW n \in Nat, NEW now, Served(x, g, now, n)
  PROVE  Served(x, g, 0, n + 1)
<1>1. /\ x.since \in 0..Len(g) /\ Len(x.sent) \in Nat /\ Len(g) \in Nat /\ now \in 0..1
      /\ Len(g) - x.since <= Len(x.sent) + now + n
  BY DEF Served
<1>2. PICK a : a = Len(g)
  OBVIOUS
<1>3. PICK b : b = Len(x.sent)
  OBVIOUS
<1>4. PICK s : s = x.since
  OBVIOUS
<1>5. /\ a \in Nat /\ b \in Nat /\ s \in 0..a /\ now \in 0..1
      /\ a - s <= b + now + n
  BY <1>1, <1>2, <1>3, <1>4
<1>6. a - s <= b + 0 + (n + 1) /\ 0 \in 0..1 /\ 0 # 1
  BY <1>5
<1> QED
  BY <1>2, <1>3, <1>4, <1>6 DEF Served

LEMMA ServedNone ==
  ASSUME NEW g \in Seq(Item), NEW x, NEW n \in Nat, DOMAIN x = {"sent", "since"}, x.sent = <<>>, x.since = Len(g)
  PROVE  Served(x, g, 0, n)
<1>1. /\ <<>> \in Seq(Item) /\ DOMAIN <<>> = {} /\ Len(<<>>) = 0
      /\ Len(g) \in Nat /\ Len(g) \in 0..Len(g)
      /\ Len(g) - Len(g) <= 0 + 0 + n /\ 0 \in 0..1 /\ 0 # 1
  OBVIOUS
<1>2. Rising(<<>>)
  BY <1>1 DEF Rising
<1> QED
  BY <1>1, <1>2 DEF Served

LEMMA ServerMem ==
  ASSUME node.type = "socket_server"
  PROVE  /\ DeviceMem = [server |-> FALSE, clients |-> <<>>]
         /\ \A next : CutMem(next) \in {mem, [mem EXCEPT !.server = FALSE, !.clients = <<>>]}
<1>1. node.type \notin Commands \cup Mqtt \cup {"mcp_client", "socket_input", "log_input", "subgraph"}
  BY DEF Commands, CommandInputs, Mqtt
<1>2. DeviceMem = [server |-> FALSE, clients |-> <<>>]
  BY <1>1, Zenon DEF DeviceMem
<1>3. \A next : CutMem(next) \in {mem, [mem EXCEPT !.server = FALSE, !.clients = <<>>]}
  BY <1>1 DEF CutMem
<1> QED
  BY <1>2, <1>3

LEMMA NobodyServed ==
  ASSUME NEW m, DOMAIN m = {"server", "clients"}, m.clients = <<>>, NEW g, NEW p, p # "send", NEW l, NEW n
  PROVE  ServedAll(m, g, p, l, n) /\ Round(m, g, p, l)
<1>1. DOMAIN <<>> = {}
  OBVIOUS
<1> QED
  BY <1>1 DEF ServedAll, Round

LEMMA NoRound ==
  ASSUME NEW m, NEW g, NEW p, p # "send", NEW l, NEW n, ServedAll(m, g, p, l, n),
         NEW m1, DOMAIN m1 = DOMAIN m, m1.clients = m.clients, NEW p1, p1 # "send", NEW l1
  PROVE  ServedAll(m1, g, p1, l1, n) /\ Round(m1, g, p1, l1)
<1>1. \A c : NowOf(p, l, c) = 0 /\ NowOf(p1, l1, c) = 0
  BY DEF NowOf
<1> QED
  BY <1>1 DEF ServedAll, Round

LEMMA ServeTakes ==
  ASSUME SocketServe
  PROVE  /\ pc = "loop" /\ mem' = mem
         /\ \/ got' = got /\ pc' = "loop"
            \/ /\ pass # <<>> /\ pipe[Head(pass)] # <<>>
               /\ got' = Append(got, Head(pipe[Head(pass)]))
               /\ pc' = "send"
               /\ local' = [item |-> Head(pipe[Head(pass)]), left |-> DOMAIN mem.clients]
<1> DEFINE i == Head(pipe[Head(pass)])
<1>1. PICK s : s = [Self EXCEPT !.pc = "send", !.local = [item |-> i, left |-> DOMAIN mem.clients]]
  OBVIOUS
<1>2. /\ pc = "loop"
      /\ \/ pass # <<>> /\ pipe[Head(pass)] # <<>> /\ Becomes(s) /\ got' = Append(got, i)
         \/ Becomes(Self) /\ got' = got
  BY <1>1 DEF SocketServe, Each, Poll
<1>3. Self.mem = mem /\ Self.out = out /\ Self.pc = pc
  BY DEF Self
<1>4. s.pc = "send" /\ s.local = [item |-> i, left |-> DOMAIN mem.clients] /\ s.mem = mem
  BY <1>1 DEF Self
<1> HIDE DEF i
<1> QED
  BY <1>2, <1>3, <1>4 DEF Becomes, i

\* One connection is written to; the others stay as they are.
LEMMA WriteServes ==
  ASSUME \A i \in Item : i.n \in Nat, got \in Seq(Item), cuts \in Nat,
         ServedAll(mem, got, pc, local, cuts), Round(mem, got, pc, local),
         NEW c, SocketWrites(c)
  PROVE  /\ ServedAll(mem', got', pc', local', cuts') /\ Round(mem', got', pc', local')
<1>1. PICK s : s = [Self EXCEPT !.local.left = @ \ {c}, !.mem.clients[c].sent = Append(@, local.item)]
  OBVIOUS
<1>2. GoOn("socket_server", s) /\ pc = "send" /\ c \in local.left
  BY <1>1 DEF SocketWrites
<1>3. PICK l : l = [local EXCEPT !.left = @ \ {c}]
  OBVIOUS
<1>4. PICK m : m = [mem EXCEPT !.clients[c].sent = Append(@, local.item)]
  OBVIOUS
<1>5. s.pc = "send" /\ s.local = l /\ s.mem = m
  BY <1>1, <1>2, <1>3, <1>4 DEF Self
<1>6. pc' = "send" /\ local' = l /\ mem' = m /\ UNCHANGED <<got, cuts>>
  BY <1>2, <1>5 DEF GoOn, Becomes, lifeVars
<1>7. /\ DOMAIN local = {"item", "left"} /\ Len(got) > 0 /\ local.item = got[Len(got)]
      /\ local.left \subseteq DOMAIN mem.clients
      /\ DOMAIN mem = {"server", "clients"}
      /\ \A d \in DOMAIN mem.clients : Served(mem.clients[d], got, NowOf(pc, local, d), cuts)
  BY <1>2 DEF ServedAll, Round
<1>8. DOMAIN l = {"item", "left"} /\ l.item = local.item /\ l.left = local.left \ {c}
  BY <1>3, <1>7
<1>9. /\ DOMAIN m = {"server", "clients"} /\ DOMAIN m.clients = DOMAIN mem.clients
      /\ \A d \in DOMAIN mem.clients : d # c => m.clients[d] = mem.clients[d]
      /\ m.clients[c] = [mem.clients[c] EXCEPT !.sent = Append(@, local.item)]
  BY <1>2, <1>4, <1>7
<1>10. ASSUME NEW d \in DOMAIN mem.clients PROVE Served(m.clients[d], got, NowOf("send", l, d), cuts)
  <2>1. CASE d # c
    <3>1. NowOf("send", l, d) = NowOf(pc, local, d)
      BY <1>2, <1>8, <2>1 DEF NowOf
    <3> QED
      BY <1>7, <1>9, <2>1, <3>1
  <2>2. CASE d = c
    <3>1. NowOf("send", l, c) = 0 /\ NowOf(pc, local, c) = 1
      BY <1>2, <1>8 DEF NowOf
    <3>2. PICK x : x = mem.clients[c]
      OBVIOUS
    <3>3. PICK y : y = [x EXCEPT !.sent = Append(@, local.item)]
      OBVIOUS
    <3>4. Served(x, got, 1, cuts)
      BY <1>7, <2>2, <3>1, <3>2
    <3>5. DOMAIN x = {"sent", "since"}
      BY <3>4 DEF Served
    <3>6. DOMAIN y = DOMAIN x /\ y.since = x.since /\ y.sent = Append(x.sent, got[Len(got)])
      BY <1>7, <3>3, <3>5
    <3>7. Served(y, got, 0, cuts)
      BY <3>4, <3>6, ServedSent
    <3> QED
      BY <1>9, <2>2, <3>1, <3>2, <3>3, <3>7
  <2> QED
    BY <2>1, <2>2
<1>11. Round(m, got, "send", l)
  BY <1>7, <1>8, <1>9 DEF Round
<1> QED
  BY <1>6, <1>9, <1>10, <1>11 DEF ServedAll

\* One connection comes or goes.
LEMMA ClientServes ==
  ASSUME node.type = "socket_server", \A i \in Item : i.n \in Nat, got \in Seq(Item), cuts \in Nat,
         ServedAll(mem, got, pc, local, cuts), Round(mem, got, pc, local),
         NEW c, ClientJoins(c) \/ ClientLeaves(c)
  PROVE  ServedAll(mem', got', pc', local', cuts') /\ Round(mem', got', pc', local')
<1>1. /\ DOMAIN mem = {"server", "clients"}
      /\ \A d \in DOMAIN mem.clients : Served(mem.clients[d], got, NowOf(pc, local, d), cuts)
      /\ pc = "send" => /\ DOMAIN local = {"item", "left"} /\ Len(got) > 0 /\ local.item = got[Len(got)]
                        /\ local.left \subseteq DOMAIN mem.clients
  BY DEF ServedAll, Round
<1>2. CASE ClientJoins(c)
  <2>1. PICK x : x = [sent |-> <<>>, since |-> Len(got)]
    OBVIOUS
  <2>2. PICK f : f = [d \in DOMAIN mem.clients \cup {c} |-> IF d = c THEN x ELSE mem.clients[d]]
    OBVIOUS
  <2>3. PICK m : m = [mem EXCEPT !.clients = f]
    OBVIOUS
  <2>4. c \notin DOMAIN mem.clients /\ mem' = m /\ UNCHANGED <<got, pc, local, cuts>>
    BY <1>2, <2>1, <2>2, <2>3 DEF ClientJoins, Outside, loopVars, lifeVars
  <2>5. DOMAIN m = {"server", "clients"} /\ m.clients = f
    BY <1>1, <2>3
  <2>6. ASSUME NEW d \in DOMAIN f PROVE Served(f[d], got, NowOf(pc, local, d), cuts)
    <3>1. CASE d = c
      <4>1. f[d] = x
        BY <2>2, <3>1
      <4>2. NowOf(pc, local, d) = 0
        BY <1>1, <2>4, <3>1 DEF NowOf
      <4>3. DOMAIN x = {"sent", "since"} /\ x.sent = <<>> /\ x.since = Len(got)
        BY <2>1
      <4>4. Served(x, got, 0, cuts)
        BY <4>3, ServedNone
      <4> QED
        BY <4>1, <4>2, <4>4
    <3>2. CASE d # c
      <4>1. d \in DOMAIN mem.clients /\ f[d] = mem.clients[d]
        BY <2>2, <3>2
      <4> QED
        BY <1>1, <4>1
    <3> QED
      BY <3>1, <3>2
  <2>7. pc = "send" => local.left \subseteq DOMAIN f
    BY <1>1, <2>2
  <2> QED
    BY <1>1, <2>4, <2>5, <2>6, <2>7 DEF ServedAll, Round
<1>3. CASE ClientLeaves(c)
  <2>1. PICK f : f = [d \in DOMAIN mem.clients \ {c} |-> mem.clients[d]]
    OBVIOUS
  <2>2. PICK m : m = [mem EXCEPT !.clients = f]
    OBVIOUS
  <2>3. PICK l : l = [local EXCEPT !.left = @ \ {c}]
    OBVIOUS
  <2>4. mem' = m /\ UNCHANGED <<got, pc, cuts>> /\ local' = IF pc = "send" THEN l ELSE local
    BY <1>3, <2>1, <2>2, <2>3 DEF ClientLeaves, lifeVars
  <2>5. /\ DOMAIN m = {"server", "clients"} /\ m.clients = f
        /\ DOMAIN f = DOMAIN mem.clients \ {c} /\ \A d \in DOMAIN f : f[d] = mem.clients[d]
    BY <1>1, <2>1, <2>2
  <2>6. pc = "send" => DOMAIN l = {"item", "left"} /\ l.item = local.item /\ l.left = local.left \ {c}
    BY <1>1, <2>3
  <2>7. ASSUME NEW d \in DOMAIN f PROVE Served(f[d], got, NowOf(pc, local', d), cuts)
    <3>1. NowOf(pc, local', d) = NowOf(pc, local, d)
      BY <2>4, <2>5, <2>6 DEF NowOf
    <3> QED
      BY <1>1, <2>5, <3>1
  <2>8. Round(m, got, pc, local')
    BY <1>1, <2>4, <2>5, <2>6 DEF Round
  <2> QED
    BY <2>4, <2>5, <2>7, <2>8 DEF ServedAll
<1> QED
  BY <1>2, <1>3

LEMMA ServedStep ==
  ASSUME node \in AllTypes, node' = node, DeviceTyped, DeviceTyped', DeviceLines, DeviceLines',
         ServedInv, [Next]_vars
  PROVE  ServedInv'
<1> SUFFICES ASSUME node.type = "socket_server", starts' # 0
             PROVE  ServedAll(mem', got', pc', local', cuts') /\ Round(mem', got', pc', local')
  <2>1. Item' = Item
    BY DEF Item, NodePorts
  <2> QED
    BY <2>1 DEF ServedInv, ServedAll, Served, Round, NowOf, Rising
<1>1. node.type \in Askers /\ node.type \in Handlers
  BY DEF Askers, Handlers
<1>2. /\ pc \in Standing /\ pass \in Seq(NodePorts) /\ pipe \in [NodePorts -> Seq(Item)]
      /\ got \in Seq(Item) /\ cuts \in Nat
      /\ (starts = 0 => NotYet) /\ (life # "running" => pc = "none")
      /\ starts # 0 => ServedAll(mem, got, pc, local, cuts) /\ Round(mem, got, pc, local)
  BY <1>1 DEF DeviceTyped, ServedInv
<1>3. \A i \in Item : i.n \in Nat
  BY NodeLoopAssumption DEF Item
<1>4. CASE Aside
  <2>1. UNCHANGED <<mem, got, pc, local, cuts, starts>>
    BY <1>4 DEF Aside, lifeVars
  <2> QED
    BY <1>2, <2>1
<1>5. CASE Start(DeviceMem, DeviceLocal) \/ Resume(DeviceLocal)
  <2>1. /\ pc' = "loop" /\ UNCHANGED <<cuts, got>> /\ life # "running"
        /\ mem' = DeviceMem \/ (starts' = starts /\ mem' = mem)
    BY <1>5, TaskBegins
  <2>2. CASE mem' = DeviceMem
    <3>1. DOMAIN mem' = {"server", "clients"} /\ mem'.clients = <<>>
      BY <2>2, ServerMem
    <3> QED
      BY <2>1, <3>1, NobodyServed
  <2>3. CASE starts' = starts /\ mem' = mem
    <3>1. pc # "send" /\ pc' # "send" /\ ServedAll(mem, got, pc, local, cuts)
      BY <1>2, <2>1, <2>3
    <3>2. ServedAll(mem, got, pc', local', cuts) /\ Round(mem, got, pc', local')
      BY <3>1, NoRound
    <3> QED
      BY <2>1, <2>3, <3>2
  <2> QED
    BY <2>1, <2>2, <2>3
<1>6. CASE \E next \in {"paused", "stopped"} : DeviceCut(next)
  <2>1. PICK next \in {"paused", "stopped"} : DeviceCut(next)
    BY <1>6
  <2>2. /\ pc' = "none" /\ UNCHANGED <<starts, got>> /\ cuts' = cuts + 1
        /\ mem' = CutMem(next)
    BY <2>1, TaskCut
  <2>3. PICK m : m = [mem EXCEPT !.server = FALSE, !.clients = <<>>]
    OBVIOUS
  <2>4. mem' = mem \/ mem' = m
    BY <2>2, <2>3, ServerMem
  <2>5. DOMAIN mem = {"server", "clients"} /\ ServedAll(mem, got, pc, local, cuts)
    BY <1>2, <2>2 DEF ServedAll
  <2>6. DOMAIN m = {"server", "clients"} /\ m.clients = <<>>
    BY <2>3, <2>5
  <2>7. CASE mem' = m
    BY <2>2, <2>6, <2>7, NobodyServed
  <2>8. CASE mem' = mem
    <3>1. \A c : NowOf(pc', local', c) = 0
      BY <2>2 DEF NowOf
    <3>2. ASSUME NEW c \in DOMAIN mem.clients PROVE Served(mem.clients[c], got, 0, cuts + 1)
      <4>1. Served(mem.clients[c], got, NowOf(pc, local, c), cuts)
        BY <2>5 DEF ServedAll
      <4> QED
        BY <1>2, <4>1, ServedLess
    <3>3. ServedAll(mem', got', pc', local', cuts')
      BY <2>2, <2>5, <2>8, <3>1, <3>2 DEF ServedAll
    <3> QED
      BY <2>2, <3>3 DEF Round
  <2> QED
    BY <2>4, <2>7, <2>8
<1>7. CASE DeviceStep
  <2>1. \/ SocketBind \/ SocketServe \/ SocketSent
        \/ \E c \in Connections : SocketWrites(c)
    BY <1>1, <1>2, <1>7, AskerSteps
  <2>2. UNCHANGED lifeVars
    BY <1>1, <1>2, <1>7, HandlerSteps, DevicePolls, DeviceResting DEF DevicePoll, DeviceRests
  <2>3. /\ UNCHANGED <<cuts, starts>>
        /\ ServedAll(mem, got, pc, local, cuts) /\ Round(mem, got, pc, local)
    BY <1>2, <2>2 DEF lifeVars
  <2>4. CASE SocketBind
    <3>1. PICK s : s = [Self EXCEPT !.mem.server = TRUE, !.local = Bound]
      OBVIOUS
    <3>2. PICK r : r = [Give(Self, 0, <<"out">>, "error") EXCEPT !.pc = "ended"]
      OBVIOUS
    <3>3. (GoOn("socket_server", s) \/ GoOn("socket_server", r)) /\ pc = "loop"
      BY <2>4, <3>1, <3>2 DEF SocketBind
    <3>4. PICK m : m = [mem EXCEPT !.server = TRUE]
      OBVIOUS
    <3>5. s.pc = pc /\ s.mem = m /\ r.pc = "ended" /\ r.mem = mem
      BY <3>1, <3>2, <3>4 DEF Self, Give
    <3>6. DOMAIN m = DOMAIN mem /\ m.clients = mem.clients
      BY <2>3, <3>4 DEF ServedAll
    <3>7. pc # "send" /\ pc' # "send" /\ got' = got /\ (mem' = m \/ mem' = mem)
      BY <3>3, <3>5 DEF GoOn, Becomes
    <3>8. DOMAIN mem' = DOMAIN mem /\ mem'.clients = mem.clients
      BY <3>6, <3>7
    <3>9. ServedAll(mem', got, pc', local', cuts) /\ Round(mem', got, pc', local')
      BY <2>3, <3>7, <3>8, NoRound
    <3> QED
      BY <2>3, <3>7, <3>9
  <2>5. CASE SocketServe
    <3>1. /\ pc = "loop" /\ mem' = mem
          /\ \/ got' = got /\ pc' = "loop"
             \/ /\ pass # <<>> /\ pipe[Head(pass)] # <<>>
                /\ got' = Append(got, Head(pipe[Head(pass)]))
                /\ pc' = "send"
                /\ local' = [item |-> Head(pipe[Head(pass)]), left |-> DOMAIN mem.clients]
      BY <2>5, ServeTakes
    <3>2. CASE got' = got /\ pc' = "loop"
      <4>1. ServedAll(mem, got, pc', local', cuts) /\ Round(mem, got, pc', local')
        BY <2>3, <3>1, <3>2, NoRound
      <4> QED
        BY <2>3, <3>1, <3>2, <4>1
    <3>3. CASE ~(got' = got /\ pc' = "loop")
      <4>1. PICK i \in Item : i = Head(pipe[Head(pass)])
        BY <1>2, <3>1, <3>3
      <4>2. PICK l : l = [item |-> i, left |-> DOMAIN mem.clients]
        OBVIOUS
      <4>3. got' = Append(got, i) /\ pc' = "send" /\ local' = l
        BY <3>1, <3>3, <4>1, <4>2
      <4>4. DOMAIN l = {"item", "left"} /\ l.item = i /\ l.left = DOMAIN mem.clients
        BY <4>2
      <4>5. Rising(got')
        BY <1>1, RisesNext
      <4>6. ASSUME NEW c \in DOMAIN mem.clients PROVE Served(mem.clients[c], got', NowOf(pc', local', c), cuts)
        <5>1. NowOf(pc, local, c) = 0 /\ NowOf(pc', local', c) = 1
          BY <3>1, <4>3, <4>4 DEF NowOf
        <5>2. Served(mem.clients[c], got, 0, cuts)
          BY <2>3, <5>1 DEF ServedAll
        <5>3. Served(mem.clients[c], Append(got, i), 1, cuts)
          BY <1>2, <1>3, <4>3, <4>5, <5>2, ServedMore
        <5> QED
          BY <4>3, <5>1, <5>3
      <4>7. Len(got') > 0 /\ i = got'[Len(got')]
        BY <1>2, <4>3
      <4>8. Round(mem', got', pc', local')
        BY <3>1, <4>3, <4>4, <4>7 DEF Round
      <4> QED
        BY <2>3, <3>1, <4>6, <4>8 DEF ServedAll
    <3> QED
      BY <3>2, <3>3
  <2>6. CASE SocketSent
    <3>1. pc = "send" /\ local.left = {} /\ pc' = "loop" /\ mem' = mem /\ got' = got
      BY <2>6 DEF SocketSent, Again, Enter
    <3>2. \A c : NowOf(pc, local, c) = 0 /\ NowOf(pc', local', c) = 0
      BY <3>1 DEF NowOf
    <3> QED
      BY <2>3, <3>1, <3>2 DEF ServedAll, Round
  <2>7. CASE \E c \in Connections : SocketWrites(c)
    BY <1>2, <1>3, <2>3, <2>7, WriteServes
  <2> QED
    BY <2>1, <2>4, <2>5, <2>6, <2>7
<1>8. CASE mem # <<>> /\ OutsideStep
  <2>1. ServedAll(mem, got, pc, local, cuts) /\ Round(mem, got, pc, local)
    BY <1>2, <1>8 DEF NotYet
  <2>2. \E c \in Connections : ClientJoins(c) \/ ClientLeaves(c)
    BY <1>1, <1>8, AskerOutside
  <2> QED
    BY <1>2, <1>3, <2>1, <2>2, ClientServes
<1>9. DeviceChange
  BY <1>1, <1>2, DeviceNext
<1> QED
  BY <1>4, <1>5, <1>6, <1>7, <1>8, <1>9, Zenon DEF DeviceChange

LEMMA ServedMeaning == ASSUME DeviceTyped, ServedInv PROVE ClientsAreServed
<1> SUFFICES ASSUME node.type = "socket_server", mem # <<>>, NEW c \in DOMAIN mem.clients
             PROVE  LET due == SubSeq(got, mem.clients[c].since + 1, Len(got))
                        had == mem.clients[c].sent
                        now == IF pc = "send" /\ c \in local.left THEN 1 ELSE 0
                    IN /\ \A k \in DOMAIN had : Contains(due, had[k])
                       /\ \A j, k \in DOMAIN had : j < k => had[j].n < had[k].n
                       /\ Len(due) <= Len(had) + now + cuts
  BY DEF ClientsAreServed
<1>1. node.type \in Askers /\ node.type \in Handlers
  BY DEF Askers, Handlers
<1>2. got \in Seq(Item) /\ cuts \in Nat /\ ServedAll(mem, got, pc, local, cuts)
  BY <1>1 DEF DeviceTyped, NotYet, ServedInv
<1>3. PICK x : x = mem.clients[c]
  OBVIOUS
<1>4. PICK now : now = NowOf(pc, local, c)
  OBVIOUS
<1>5. Served(x, got, now, cuts)
  BY <1>2, <1>3, <1>4 DEF ServedAll
<1>6. PICK s : s = x.since
  OBVIOUS
<1>7. PICK had : had = x.sent
  OBVIOUS
<1>8. /\ s \in 0..Len(got) /\ had \in Seq(Item) /\ Len(got) \in Nat
      /\ \A k \in DOMAIN had : \E j \in (s + 1)..Len(got) : had[k] = got[j]
      /\ Rising(had)
      /\ Len(got) - s <= Len(had) + now + cuts
  BY <1>2, <1>5, <1>6, <1>7 DEF Served
<1>9. PICK due : due = SubSeq(got, s + 1, Len(got))
  OBVIOUS
<1>10. Len(due) = Len(got) - s /\ \A k \in 1..(Len(got) - s) : due[k] = got[s + k]
  BY <1>2, <1>8, <1>9
<1>11. ASSUME NEW k \in DOMAIN had PROVE Contains(due, had[k])
  <2>1. PICK j \in (s + 1)..Len(got) : had[k] = got[j]
    BY <1>8
  <2>2. j - s \in 1..(Len(got) - s) /\ s + (j - s) = j
    BY <1>8
  <2>3. due[j - s] = had[k] /\ j - s \in 1..Len(due)
    BY <1>10, <2>1, <2>2
  <2> QED
    BY <2>3 DEF Contains
<1>12. \A j, k \in DOMAIN had : j < k => had[j].n < had[k].n
  BY <1>8 DEF Rising
<1>13. Len(due) <= Len(had) + now + cuts
  BY <1>8, <1>10
<1> QED
  BY <1>3, <1>4, <1>6, <1>7, <1>9, <1>11, <1>12, <1>13 DEF NowOf

-----------------------------------------------------------------------------
(* What the streams of an output share.                                    *)

\* What a step of an output is.
OutputStep ==
  \/ Aside
  \/ Start(WebMem, <<>>)
  \/ Resume(<<>>)
  \/ \E next \in {"paused", "stopped"} : WebCut(next)
  \/ WebStep
  \/ mem # <<>> /\ RouteStep

LEMMA OutputNode ==
  ASSUME node \in AllTypes, node.type \in OutputNames
  PROVE  /\ node \in WebTypes /\ node \in WebOutputs
         /\ node \notin StreamTypes \cup BufferTypes \cup SourceTypes \cup DeviceTypes
         /\ node.type \notin StreamNames \cup BufferNames \cup SourceNames \cup DeviceNames
                             \cup InputNames
         /\ Plain /\ NodePorts = {"in"}
<1>1. node.type \notin StreamNames \cup BufferNames \cup SourceNames \cup DeviceNames
                       \cup InputNames
  BY DEF StreamNames, BufferNames, LogicNames, SourceNames, DeviceNames, OutputNames, InputNames
<1>2. /\ node \in WebTypes /\ node \in WebOutputs
      /\ node \notin StreamTypes \cup BufferTypes \cup SourceTypes \cup DeviceTypes
  BY <1>1, Families
<1>3. node.ports = <<"in">>
  BY <1>2, WebNode
<1>4. NodePorts = {"in"}
  BY <1>3 DEF NodePorts, ToSet
<1> QED
  BY <1>1, <1>2, <1>4 DEF Plain

LEMMA OutputNext ==
  ASSUME node \in AllTypes, node.type \in OutputNames, pc \in {"none", "loop"}, Len(pass) \in Nat,
         [Next]_vars
  PROVE  OutputStep
<1>1. /\ node \in WebTypes
      /\ node \notin StreamTypes \cup BufferTypes \cup SourceTypes \cup DeviceTypes
      /\ node.type \notin StreamNames \cup BufferNames \cup SourceNames \cup DeviceNames
      /\ node.type \notin Raising
  BY OutputNode DEF Raising, OutputNames
<1>2. CASE UNCHANGED vars
  BY <1>2 DEF vars, loopVars, dataVars, OutputStep, Aside
<1>3. CASE Others
  <2>1. ASSUME NEW p \in NodePorts, Wire(p) PROVE Aside
    BY <2>1 DEF Wire, loopVars, dataVars, Aside
  <2>2. ASSUME NEW p \in NodePorts, NEW ok \in BOOLEAN, Send(p, ok) PROVE Aside
    BY <2>2 DEF Send, loopVars, Aside
  <2>3. RouteStep => mem # <<>>
    BY DEF RouteStep
  <2> QED
    BY <1>1, <1>3, <2>1, <2>2, <2>3 DEF Others, OutputStep, NodePorts
<1>4. CASE Control
  <2>1. FreshMem = WebMem /\ FreshLocal = <<>>
    BY <1>1 DEF FreshMem, FreshLocal
  <2>2. node.type # "round_robin" /\ node.type # "gate"
    BY <1>1 DEF StreamNames, BufferNames
  <2>3. ASSUME NEW next, Cut(next) PROVE WebCut(next)
    BY <1>1, <2>2, <2>3 DEF Cut
  <2> QED
    BY <1>1, <1>4, <2>1, <2>2, <2>3 DEF Control, OutputStep
<1>5. CASE Process
  <2>1. Wake => Aside
    BY DEF Wake, dataVars, Aside
  <2>2. ~DeviceStep
    BY <1>1, OnlyDevices
  <2>3. ~StreamStep
    <3>1. StreamStep => node.type \in StreamNames
      BY StreamPolls
    <3> QED
      BY <1>1, <3>1
  <2> QED
    BY <1>1, <1>5, <2>1, <2>2, <2>3, OnlySources, OnlyBuffers DEF Process, OutputStep
<1> QED
  BY <1>2, <1>3, <1>4, <1>5 DEF Next

\* The queue holds the last that was read; those before it were shown, in
\* order, or dropped while as many newer ones waited as there is room for.
Shared(m, g, b) ==
  /\ DOMAIN m = PostFields
  /\ m.shown \in Seq(Item) /\ m.queue \in Seq(Item)
  /\ b \in 0..Len(g) /\ Len(m.queue) <= Len(g) - b
  /\ \A k \in 1..Len(m.queue) : m.queue[k] = g[(Len(g) - Len(m.queue)) + k]
  /\ Rising(m.shown)
  /\ \A k \in DOMAIN m.shown : \E j \in 1..(Len(g) - Len(m.queue)) : m.shown[k] = g[j]
  /\ \A j \in (b + 1)..(Len(g) - Len(m.queue)) :
       (\E k \in DOMAIN m.shown : m.shown[k] = g[j]) \/ Len(g) - j >= Room

StreamsInv ==
  node.type \in OutputNames =>
    /\ starts \in Nat /\ (starts = 0 => NotYet) /\ (life # "running" => pc = "none")
    /\ base \in 0..Len(got) /\ InLine("in")
    /\ starts # 0 => Shared(mem, got, base)

LEMMA OneInLine ==
  ASSUME NodePorts = {"in"}, got \in Seq(Item), InLine("in")
  PROVE  Rising(got)
<1>1. \A i \in Item : i.port = "in"
  BY DEF Item
<1>2. \A k \in DOMAIN got : got[k].port = "in"
  BY <1>1
<1> QED
  BY <1>2 DEF InLine, Rising

LEMMA SharedMore ==
  ASSUME NEW g \in Seq(Item), NEW b, NEW m, Shared(m, g, b), NEW i \in Item,
         NEW m1, DOMAIN m1 = DOMAIN m, m1.shown = m.shown, m1.queue = Enqueue(m.queue, i)
  PROVE  Shared(m1, Append(g, i), b)
<1>1. PICK q : q = m.queue
  OBVIOUS
<1>2. PICK s : s = m.shown
  OBVIOUS
<1>3. PICK h : h = Append(g, i)
  OBVIOUS
<1>4. PICK r : r = Enqueue(q, i)
  OBVIOUS
<1>5. /\ q \in Seq(Item) /\ Len(q) \in Nat /\ Len(g) \in Nat /\ b \in 0..Len(g)
      /\ s \in Seq(Item) /\ Len(q) <= Len(g) - b
      /\ \A k \in 1..Len(q) : q[k] = g[(Len(g) - Len(q)) + k]
      /\ Rising(s)
      /\ \A k \in DOMAIN s : \E j \in 1..(Len(g) - Len(q)) : s[k] = g[j]
      /\ \A j \in (b + 1)..(Len(g) - Len(q)) :
           (\E k \in DOMAIN s : s[k] = g[j]) \/ Len(g) - j >= Room
  <2>1. q \in Seq(Item) /\ s \in Seq(Item)
    BY <1>1, <1>2 DEF Shared
  <2>2. Len(q) \in Nat /\ Len(g) \in Nat
    BY <2>1
  <2> QED
    BY <1>1, <1>2, <2>1, <2>2, Zenon DEF Shared
<1>6. /\ h \in Seq(Item) /\ Len(h) = Len(g) + 1 /\ h[Len(g) + 1] = i
      /\ \A k \in 1..Len(g) : h[k] = g[k]
  BY <1>3
<1>7. Room \in Nat \ {0}
  BY WebAssumption
<1> DEFINE Good == /\ Len(r) <= Len(h) - b /\ r \in Seq(Item)
                   /\ \A k \in 1..Len(r) : r[k] = h[(Len(h) - Len(r)) + k]
                   /\ \A k \in DOMAIN s : \E j \in 1..(Len(h) - Len(r)) : s[k] = h[j]
                   /\ \A j \in (b + 1)..(Len(h) - Len(r)) :
                        (\E k \in DOMAIN s : s[k] = h[j]) \/ Len(h) - j >= Room
<1>8. ASSUME Len(q) < Room PROVE Good
  <2>1. r = Append(q, i)
    BY <1>4, <1>8 DEF Enqueue
  <2>2. /\ r \in Seq(Item) /\ Len(r) = Len(q) + 1 /\ r[Len(q) + 1] = i
        /\ \A k \in 1..Len(q) : r[k] = q[k]
    BY <1>5, <2>1
  <2>3. Len(h) - Len(r) = Len(g) - Len(q)
    BY <1>5, <1>6, <2>2
  <2>4. ASSUME NEW k \in 1..Len(r) PROVE r[k] = h[(Len(h) - Len(r)) + k]
    <3>1. CASE k = Len(q) + 1
      <4>1. (Len(h) - Len(r)) + k = Len(g) + 1
        BY <1>5, <1>6, <2>2, <3>1
      <4> QED
        BY <1>6, <2>2, <3>1, <4>1
    <3>2. CASE k # Len(q) + 1
      <4>1. k \in 1..Len(q) /\ (Len(g) - Len(q)) + k \in 1..Len(g)
        BY <1>5, <2>2, <3>2
      <4>2. h[(Len(g) - Len(q)) + k] = g[(Len(g) - Len(q)) + k]
        BY <1>6, <4>1
      <4> QED
        BY <1>5, <2>2, <2>3, <4>1, <4>2
    <3> QED
      BY <3>1, <3>2
  <2>5. ASSUME NEW j \in 1..(Len(g) - Len(q)) PROVE h[j] = g[j]
    <3>1. j \in 1..Len(g)
      BY <1>5
    <3> QED
      BY <1>6, <3>1
  <2>6. \A k \in DOMAIN s : \E j \in 1..(Len(h) - Len(r)) : s[k] = h[j]
    BY <1>5, <2>3, <2>5
  <2>7. ASSUME NEW j \in (b + 1)..(Len(h) - Len(r))
        PROVE  (\E k \in DOMAIN s : s[k] = h[j]) \/ Len(h) - j >= Room
    <3>1. j \in (b + 1)..(Len(g) - Len(q)) /\ j \in 1..(Len(g) - Len(q))
      BY <1>5, <2>3
    <3>2. Len(g) - j >= Room => Len(h) - j >= Room
      BY <1>5, <1>6, <1>7, <3>1
    <3> QED
      BY <1>5, <2>5, <3>1, <3>2
  <2>8. Len(r) <= Len(h) - b
    BY <1>5, <1>6, <2>2
  <2> QED
    BY <2>2, <2>4, <2>6, <2>7, <2>8, Zenon
<1>9. ASSUME ~(Len(q) < Room) PROVE Good
  <2>1. q # <<>> /\ Len(q) >= Room /\ Len(q) >= 1
    BY <1>5, <1>7, <1>9
  <2>2. r = Append(Tail(q), i)
    BY <1>4, <1>9 DEF Enqueue
  <2>3. PICK t : t = Tail(q)
    OBVIOUS
  <2>4. t \in Seq(Item) /\ Len(t) = Len(q) - 1 /\ \A k \in 1..(Len(q) - 1) : t[k] = q[k + 1]
    BY <1>5, <2>1, <2>3
  <2>5. /\ r \in Seq(Item) /\ Len(r) = Len(q) /\ r[Len(q)] = i
        /\ \A k \in 1..(Len(q) - 1) : r[k] = q[k + 1]
    <3>1. /\ r \in Seq(Item) /\ Len(r) = Len(t) + 1 /\ r[Len(t) + 1] = i
          /\ \A k \in 1..Len(t) : r[k] = t[k]
      BY <2>2, <2>3, <2>4
    <3>2. Len(t) + 1 = Len(q)
      BY <1>5, <2>4
    <3> QED
      BY <2>4, <3>1, <3>2
  <2>6. Len(h) - Len(r) = (Len(g) - Len(q)) + 1
    BY <1>5, <1>6, <2>5
  <2>7. ASSUME NEW k \in 1..Len(r) PROVE r[k] = h[(Len(h) - Len(r)) + k]
    <3>1. CASE k = Len(q)
      <4>1. (Len(h) - Len(r)) + k = Len(g) + 1
        BY <1>5, <1>6, <2>5, <3>1
      <4> QED
        BY <1>6, <2>5, <3>1, <4>1
    <3>2. CASE k # Len(q)
      <4>1. /\ k \in 1..(Len(q) - 1) /\ k + 1 \in 1..Len(q)
            /\ (Len(g) - Len(q)) + (k + 1) \in 1..Len(g)
            /\ (Len(h) - Len(r)) + k = (Len(g) - Len(q)) + (k + 1)
        BY <1>5, <1>6, <2>5, <3>2
      <4>2. q[k + 1] = g[(Len(g) - Len(q)) + (k + 1)]
        BY <1>5, <4>1
      <4>3. h[(Len(g) - Len(q)) + (k + 1)] = g[(Len(g) - Len(q)) + (k + 1)]
        BY <1>6, <4>1
      <4> QED
        BY <2>5, <4>1, <4>2, <4>3
    <3> QED
      BY <3>1, <3>2
  <2>8. ASSUME NEW j \in 1..((Len(g) - Len(q)) + 1) PROVE h[j] = g[j]
    <3>1. j \in 1..Len(g)
      BY <1>5, <2>1
    <3> QED
      BY <1>6, <3>1
  <2>9. \A k \in DOMAIN s : \E j \in 1..(Len(h) - Len(r)) : s[k] = h[j]
    <3>1. \A j \in 1..(Len(g) - Len(q)) : j \in 1..((Len(g) - Len(q)) + 1)
      BY <1>5
    <3> QED
      BY <1>5, <2>6, <2>8, <3>1
  <2>10. ASSUME NEW j \in (b + 1)..(Len(h) - Len(r))
         PROVE  (\E k \in DOMAIN s : s[k] = h[j]) \/ Len(h) - j >= Room
    <3>1. j \in 1..((Len(g) - Len(q)) + 1)
      BY <1>5, <2>6
    <3>2. CASE j = (Len(g) - Len(q)) + 1
      BY <1>5, <1>6, <1>7, <2>1, <3>2
    <3>3. CASE j # (Len(g) - Len(q)) + 1
      <4>1. j \in (b + 1)..(Len(g) - Len(q))
        <5>1. j \in (b + 1)..((Len(g) - Len(q)) + 1)
          BY <2>6
        <5>2. Len(g) - Len(q) \in Nat /\ b \in Nat
          BY <1>5
        <5> QED
          BY <3>3, <5>1, <5>2
      <4>2. Len(g) - j >= Room => Len(h) - j >= Room
        BY <1>5, <1>6, <1>7, <4>1
      <4> QED
        BY <1>5, <2>8, <3>1, <4>1, <4>2
    <3> QED
      BY <3>2, <3>3
  <2>11. Len(r) <= Len(h) - b
    BY <1>5, <1>6, <2>5
  <2> QED
    BY <2>5, <2>7, <2>9, <2>10, <2>11, Zenon
<1>10. Good
  BY <1>8, <1>9, Zenon
<1>11. b \in 0..Len(h) /\ DOMAIN m1 = PostFields /\ m1.shown = s /\ m1.queue = r
  BY <1>1, <1>2, <1>4, <1>5, <1>6 DEF Shared
<1>12. Shared(m1, h, b)
  BY <1>5, <1>10, <1>11 DEF Shared
<1> QED
  BY <1>3, <1>12

LEMMA SharedTaken ==
  ASSUME \A i \in Item : i.n \in Nat, NEW g \in Seq(Item), Rising(g), NEW b, NEW m, Shared(m, g, b),
         m.queue # <<>>,
         NEW m1, DOMAIN m1 = DOMAIN m,
         m1.queue = Tail(m.queue), m1.shown = Append(m.shown, Head(m.queue))
  PROVE  Shared(m1, g, b)
<1>1. PICK q : q = m.queue
  OBVIOUS
<1>2. PICK s : s = m.shown
  OBVIOUS
<1>3. PICK r : r = Tail(q)
  OBVIOUS
<1>4. PICK t : t = Append(s, Head(q))
  OBVIOUS
<1>5. /\ q \in Seq(Item) /\ Len(q) \in Nat /\ Len(g) \in Nat /\ b \in 0..Len(g) /\ q # <<>>
      /\ s \in Seq(Item) /\ Len(q) <= Len(g) - b
      /\ \A k \in 1..Len(q) : q[k] = g[(Len(g) - Len(q)) + k]
      /\ Rising(s)
      /\ \A k \in DOMAIN s : \E j \in 1..(Len(g) - Len(q)) : s[k] = g[j]
      /\ \A j \in (b + 1)..(Len(g) - Len(q)) :
           (\E k \in DOMAIN s : s[k] = g[j]) \/ Len(g) - j >= Room
  <2>1. q \in Seq(Item) /\ s \in Seq(Item) /\ q # <<>>
    BY <1>1, <1>2 DEF Shared
  <2>2. Len(q) \in Nat /\ Len(g) \in Nat
    BY <2>1
  <2> QED
    BY <1>1, <1>2, <2>1, <2>2, Zenon DEF Shared
<1>6. PICK p : p = (Len(g) - Len(q)) + 1
  OBVIOUS
<1>7. /\ r \in Seq(Item) /\ Len(r) = Len(q) - 1 /\ Len(q) >= 1
      /\ \A k \in 1..(Len(q) - 1) : r[k] = q[k + 1]
      /\ Head(q) = q[1] /\ Head(q) \in Item
  BY <1>3, <1>5
<1>8. p \in 1..Len(g) /\ Head(q) = g[p] /\ Len(g) - Len(r) = p
  BY <1>5, <1>6, <1>7
<1>9. /\ t \in Seq(Item) /\ DOMAIN t = 1..(Len(s) + 1) /\ Len(s) \in Nat /\ DOMAIN s = 1..Len(s)
      /\ \A k \in 1..Len(s) : t[k] = s[k]
      /\ t[Len(s) + 1] = g[p]
  BY <1>4, <1>5, <1>7, <1>8
<1>10. ASSUME NEW k \in 1..Len(s) PROVE \E j \in 1..Len(g) : j < p /\ s[k] = g[j]
  <2>1. PICK j \in 1..(Len(g) - Len(q)) : s[k] = g[j]
    BY <1>5, <1>9
  <2>2. j \in 1..Len(g) /\ j < p
    BY <1>5, <1>6, <2>1
  <2> QED
    BY <2>1, <2>2
<1>11. ASSUME NEW k \in 1..Len(s) PROVE s[k].n < g[p].n
  <2>1. PICK j \in 1..Len(g) : j < p /\ s[k] = g[j]
    BY <1>10
  <2>2. j \in DOMAIN g /\ p \in DOMAIN g
    BY <1>8, <2>1
  <2> QED
    BY <2>1, <2>2, Zenon DEF Rising
<1>12. Rising(t)
  <2> SUFFICES ASSUME NEW k \in 1..(Len(s) + 1), NEW j \in 1..(Len(s) + 1), j < k
               PROVE  t[j].n < t[k].n
    BY <1>9 DEF Rising
  <2>1. j \in 1..Len(s) /\ t[j] = s[j]
    BY <1>9
  <2>2. CASE k = Len(s) + 1
    BY <1>9, <1>11, <2>1, <2>2
  <2>3. CASE k # Len(s) + 1
    <3>1. k \in 1..Len(s) /\ t[k] = s[k]
      BY <1>9, <2>3
    <3> QED
      BY <1>5, <1>9, <2>1, <3>1 DEF Rising
  <2> QED
    BY <2>2, <2>3
<1>13. ASSUME NEW k \in DOMAIN t PROVE \E j \in 1..p : t[k] = g[j]
  <2>1. CASE k = Len(s) + 1
    <3>1. p \in 1..p
      BY <1>8
    <3> QED
      BY <1>9, <2>1, <3>1
  <2>2. CASE k # Len(s) + 1
    <3>1. k \in 1..Len(s) /\ t[k] = s[k]
      BY <1>9, <2>2
    <3>2. PICK j \in 1..Len(g) : j < p /\ s[k] = g[j]
      BY <1>10, <3>1
    <3>3. j \in 1..p
      BY <1>8, <3>2
    <3> QED
      BY <3>1, <3>2, <3>3
  <2> QED
    BY <2>1, <2>2
<1>14. ASSUME NEW j \in (b + 1)..p PROVE (\E k \in DOMAIN t : t[k] = g[j]) \/ Len(g) - j >= Room
  <2>1. CASE j = p
    <3>1. Len(s) + 1 \in DOMAIN t
      BY <1>9
    <3> QED
      BY <1>9, <2>1, <3>1
  <2>2. CASE j # p
    <3>1. j \in (b + 1)..(Len(g) - Len(q))
      BY <1>5, <1>6, <1>8, <2>2
    <3>2. \A k \in DOMAIN s : k \in DOMAIN t /\ t[k] = s[k]
      BY <1>9
    <3> QED
      BY <1>5, <3>1, <3>2
  <2> QED
    BY <2>1, <2>2
<1>15. ASSUME NEW k \in 1..Len(r) PROVE r[k] = g[(Len(g) - Len(r)) + k]
  <2>1. k \in 1..(Len(q) - 1) /\ k + 1 \in 1..Len(q) /\ (Len(g) - Len(r)) + k = (Len(g) - Len(q)) + (k + 1)
    BY <1>5, <1>7
  <2>2. q[k + 1] = g[(Len(g) - Len(q)) + (k + 1)]
    BY <1>5, <2>1
  <2> QED
    BY <1>7, <2>1, <2>2
<1>16. Len(r) <= Len(g) - b
  BY <1>5, <1>7
<1>17. DOMAIN m1 = PostFields /\ m1.shown = t /\ m1.queue = r
  BY <1>1, <1>2, <1>3, <1>4 DEF Shared
<1> QED
  BY <1>5, <1>7, <1>8, <1>9, <1>12, <1>13, <1>14, <1>15, <1>16, <1>17 DEF Shared

LEMMA OutputReads ==
  ASSUME WebStep, IsSeq(out)
  PROVE  /\ pc = "loop" /\ pass # <<>> /\ UNCHANGED <<node, sent, starts, life, base>>
         /\ pc' = "loop"
         /\ \/ /\ TakesFrom(Head(pass))
               /\ \E m : m = [mem EXCEPT !.queue = Enqueue(@, Head(pipe[Head(pass)]))] /\ mem' = m
            \/ UNCHANGED <<pipe, got, mem>>
<1>1. ASSUME NEW type, NEW ports, Streams(type, ports)
      PROVE  /\ pc = "loop" /\ pass # <<>> /\ UNCHANGED <<node, sent, starts, life, base>>
             /\ pc' = "loop"
             /\ \/ /\ TakesFrom(Head(pass))
                   /\ \E m : m = [mem EXCEPT !.queue = Enqueue(@, Head(pipe[Head(pass)]))] /\ mem' = m
                \/ UNCHANGED <<pipe, got, mem>>
  BY <1>1 DEF Streams, Each, Poll, Becomes, Give, Self, TakesFrom, envVars, lifeVars
<1> QED
  BY <1>1 DEF WebStep, WebOutput, WebOutputJSON, ApiOutput

LEMMA StreamsStep ==
  ASSUME node \in AllTypes, node' = node, LoopTyped, LoopTyped', StreamsInv, [Next]_vars
  PROVE  StreamsInv'
<1> SUFFICES ASSUME node.type \in OutputNames PROVE StreamsInv'
  BY DEF StreamsInv
<1>1. /\ Plain /\ NodePorts = {"in"} /\ "in" \in NodePorts /\ NodePorts' = NodePorts /\ Item' = Item
      /\ node.type \notin InputNames
  BY OutputNode DEF NodePorts, Item
<1>2. /\ pass \in Seq(NodePorts) /\ Len(pass) \in Nat /\ sent \in 0..MaxItems
      /\ pipe \in [NodePorts -> Seq(Item)] /\ got \in Seq(Item) /\ IsSeq(out)
      /\ pc \in {"none", "loop"} /\ Len(got) \in Nat
      /\ starts \in Nat /\ (starts = 0 => NotYet) /\ (life # "running" => pc = "none")
      /\ base \in 0..Len(got) /\ InLine("in")
      /\ starts # 0 => Shared(mem, got, base)
  BY <1>1 DEF LoopTyped, StreamsInv
<1>3. sent \in Nat /\ \A i \in Item : i.n \in Nat
  BY <1>2, NodeLoopAssumption DEF Item
<1> DEFINE Good == /\ starts' \in Nat /\ (starts' = 0 => NotYet') /\ (life' # "running" => pc' = "none")
                   /\ base' \in 0..Len(got') /\ InLine("in")'
                   /\ starts' # 0 => Shared(mem', got', base')
<1> SUFFICES Good
  BY <1>1 DEF StreamsInv, Shared
<1>4. CASE Aside
  <2>1. UNCHANGED <<lifeVars, pc, mem, out, got, base>>
    BY <1>4 DEF Aside
  <2>2. CASE \E p \in NodePorts, ok \in BOOLEAN : Send(p, ok)
    <3>1. PICK p \in NodePorts, ok \in BOOLEAN : Send(p, ok)
      BY <2>2
    <3>2. PICK i : i = [port |-> p, n |-> sent + 1, ok |-> ok]
      OBVIOUS
    <3>3. i \in Item /\ i.n = sent + 1 /\ i.port = p
      <4>1. sent + 1 \in 1..MaxItems
        BY <1>2, <1>3, <3>1, NodeLoopAssumption DEF Send
      <4> QED
        BY <3>2, <4>1 DEF Item
    <3>4. SentTo(p, i)
      BY <3>1, <3>2, <3>3 DEF Send, SentTo
    <3>5. InLine("in")'
      BY <1>1, <1>2, <1>3, <3>3, <3>4, SentInLine
    <3> QED
      BY <1>2, <2>1, <3>5 DEF lifeVars, NotYet
  <2>3. CASE ~\E p \in NodePorts, ok \in BOOLEAN : Send(p, ok)
    <3>1. pipe' = pipe
      BY <1>4, <2>3 DEF Aside
    <3>2. sent' = sent
      BY <1>4, <2>3 DEF Aside, Wake, Wire, envVars
    <3> QED
      BY <1>2, <2>1, <3>1, <3>2 DEF lifeVars, NotYet, InLine
  <2> QED
    BY <2>2, <2>3
<1>5. CASE Start(WebMem, <<>>)
  <2>1. /\ mem' = WebMem /\ base' = Len(got) /\ starts' = starts + 1 /\ life' = "running"
        /\ UNCHANGED <<sent, pipe, got>>
    BY <1>5 DEF Start, envVars
  <2>2. DOMAIN WebMem = PostFields /\ WebMem.queue = <<>> /\ WebMem.shown = <<>>
    BY DEF WebMem, PostFields
  <2>3. Shared(WebMem, got, Len(got))
    BY <1>2, <2>2, EmptyTyped DEF Shared, Rising
  <2> QED
    BY <1>2, <2>1, <2>3 DEF InLine
<1>6. CASE Resume(<<>>)
  BY <1>2, <1>6 DEF Resume, envVars, dataVars, InLine, NotYet
<1>7. CASE \E next \in {"paused", "stopped"} : WebCut(next)
  <2>1. PICK m : m = [mem EXCEPT !.open = @ \cup {p.n : p \in mem.posts}]
    OBVIOUS
  <2>2. /\ mem' = m /\ pc' = "none" /\ life # "stopped" /\ UNCHANGED <<sent, starts, pipe, got, base>>
    BY <1>7, <2>1 DEF WebCut, Cancel, Leave, envVars
  <2>3. starts # 0 /\ Shared(mem, got, base)
    BY <1>2, <2>2 DEF NotYet
  <2>4. DOMAIN m = DOMAIN mem /\ m.shown = mem.shown /\ m.queue = mem.queue
    BY <2>1, <2>3 DEF Shared, PostFields
  <2>5. Shared(m, got, base)
    BY <2>3, <2>4 DEF Shared
  <2> QED
    BY <1>2, <2>2, <2>3, <2>5 DEF InLine
<1>8. CASE WebStep
  <2>1. /\ pc = "loop" /\ pass # <<>> /\ UNCHANGED <<node, sent, starts, life, base>>
        /\ pc' = "loop"
        /\ \/ /\ TakesFrom(Head(pass))
              /\ \E m : m = [mem EXCEPT !.queue = Enqueue(@, Head(pipe[Head(pass)]))] /\ mem' = m
           \/ UNCHANGED <<pipe, got, mem>>
    BY <1>2, <1>8, OutputReads
  <2>2. starts # 0 /\ Shared(mem, got, base)
    BY <1>2, <2>1 DEF NotYet
  <2>3. CASE UNCHANGED <<pipe, got, mem>>
    BY <1>2, <2>1, <2>2, <2>3 DEF InLine
  <2>4. CASE TakesFrom(Head(pass)) /\ \E m : m = [mem EXCEPT !.queue = Enqueue(@, Head(pipe[Head(pass)]))] /\ mem' = m
    <3>1. Head(pass) = "in" /\ Fetches("in") /\ got' = Append(got, Head(pipe["in"])) /\ pipe["in"] # <<>>
      <4>1. Head(pass) \in NodePorts
        BY <1>2, <2>1
      <4>2. Head(pass) = "in"
        BY <1>1, <4>1
      <4> QED
        BY <2>1, <2>4, <4>2 DEF Fetches, TakesFrom
    <3>2. PICK i \in Item : i = Head(pipe["in"])
      BY <1>1, <1>2, <3>1
    <3>3. InLine("in")'
      BY <1>1, <1>2, <1>3, <3>1, FetchedInLine
    <3>4. PICK m : m = [mem EXCEPT !.queue = Enqueue(@, i)] /\ mem' = m
      BY <2>4, <3>1, <3>2
    <3>5. DOMAIN m = DOMAIN mem /\ m.shown = mem.shown /\ m.queue = Enqueue(mem.queue, i)
      BY <2>2, <3>4 DEF Shared, PostFields
    <3>6. Shared(m, Append(got, i), base)
      BY <1>2, <2>2, <3>5, SharedMore
    <3>7. base \in 0..Len(Append(got, i))
      BY <1>2
    <3> QED
      BY <1>2, <2>1, <2>2, <3>1, <3>2, <3>3, <3>4, <3>6, <3>7
  <2> QED
    BY <2>1, <2>3, <2>4
<1>9. CASE mem # <<>> /\ RouteStep
  <2>1. starts # 0 /\ Shared(mem, got, base)
    BY <1>2, <1>9 DEF NotYet
  <2>2. StreamOpens \/ StreamCloses \/ StreamTakes
    BY <1>1, <1>9 DEF RouteStep, PostJSON, InputNames
  <2>3. CASE StreamOpens \/ StreamCloses
    <3>1. PICK n, m : m = [mem EXCEPT !.streams = n] /\ Serve(Streaming, m, out)
      BY <2>3 DEF StreamOpens, StreamCloses
    <3>2. mem' = m /\ UNCHANGED <<starts, life, pc, sent, pipe, got, base>>
      BY <3>1 DEF Serve, lifeVars, loopVars, envVars
    <3>3. DOMAIN m = DOMAIN mem /\ m.shown = mem.shown /\ m.queue = mem.queue
      BY <2>1, <3>1 DEF Shared, PostFields
    <3>4. Shared(m, got, base)
      BY <2>1, <3>3 DEF Shared
    <3> QED
      BY <1>2, <2>1, <3>2, <3>4 DEF InLine
  <2>4. CASE StreamTakes
    <3>1. PICK m : m = [mem EXCEPT !.queue = Tail(@), !.shown = Append(@, Head(mem.queue))]
      OBVIOUS
    <3>2. mem.queue # <<>> /\ mem' = m /\ UNCHANGED <<starts, life, pc, sent, pipe, got, base>>
      BY <2>4, <3>1 DEF StreamTakes, Serve, lifeVars, loopVars, envVars
    <3>3. DOMAIN m = DOMAIN mem /\ m.shown = Append(mem.shown, Head(mem.queue)) /\ m.queue = Tail(mem.queue)
      BY <2>1, <3>1 DEF Shared, PostFields
    <3>4. Rising(got)
      BY <1>1, <1>2, OneInLine
    <3>5. Shared(m, got, base)
      BY <1>2, <1>3, <2>1, <3>2, <3>3, <3>4, SharedTaken
    <3> QED
      BY <1>2, <2>1, <3>2, <3>5 DEF InLine
  <2> QED
    BY <2>2, <2>3, <2>4
<1>10. OutputStep
  BY <1>2, OutputNext
<1> HIDE DEF Good
<1> QED
  BY <1>4, <1>5, <1>6, <1>7, <1>8, <1>9, <1>10, Zenon DEF OutputStep

LEMMA StreamsMeaning == ASSUME LoopTyped, StreamsInv PROVE StreamsShare
<1> SUFFICES ASSUME node \in WebOutputs, mem # <<>> PROVE StreamsShare
  BY DEF StreamsShare
<1>1. node.type \in OutputNames
  BY Families DEF LoopTyped
<1>2. Plain /\ NodePorts = {"in"} /\ got \in Seq(Item) /\ Len(got) \in Nat
  BY <1>1, OutputNode DEF LoopTyped
<1>3. Shared(mem, got, base) /\ Rising(got)
  BY <1>1, <1>2, OneInLine DEF StreamsInv, NotYet
<1>4. PICK q : q = mem.queue
  OBVIOUS
<1>5. PICK s : s = mem.shown
  OBVIOUS
<1>6. /\ q \in Seq(Item) /\ Len(q) \in Nat /\ base \in 0..Len(got)
      /\ s \in Seq(Item) /\ Len(s) \in Nat /\ Len(q) <= Len(got) - base
      /\ \A k \in 1..Len(q) : q[k] = got[(Len(got) - Len(q)) + k]
      /\ Rising(s)
      /\ \A k \in DOMAIN s : \E j \in 1..(Len(got) - Len(q)) : s[k] = got[j]
      /\ \A j \in (base + 1)..(Len(got) - Len(q)) :
           (\E k \in DOMAIN s : s[k] = got[j]) \/ Len(got) - j >= Room
  <2>1. q \in Seq(Item) /\ s \in Seq(Item)
    BY <1>3, <1>4, <1>5 DEF Shared
  <2>2. Len(q) \in Nat /\ Len(s) \in Nat
    BY <2>1
  <2> QED
    BY <1>3, <1>4, <1>5, <2>1, <2>2, Zenon DEF Shared
<1>7. PICK v : v = s \o q
  OBVIOUS
<1>8. /\ DOMAIN v = 1..(Len(s) + Len(q)) /\ Len(v) = Len(s) + Len(q) /\ DOMAIN s = 1..Len(s)
      /\ \A k \in 1..Len(s) : v[k] = s[k]
      /\ \A k \in (Len(s) + 1)..(Len(s) + Len(q)) : v[k] = q[k - Len(s)]
  BY <1>6, <1>7
\* Each is at a place of what was read, in order.
<1>9. ASSUME NEW k \in 1..Len(s) PROVE \E j \in 1..Len(got) : v[k] = got[j] /\ j <= Len(got) - Len(q)
  <2>1. PICK j \in 1..(Len(got) - Len(q)) : s[k] = got[j]
    BY <1>6, <1>8
  <2>2. j \in 1..Len(got) /\ j <= Len(got) - Len(q)
    BY <1>2, <1>6
  <2> QED
    BY <1>8, <2>1, <2>2
<1>10. ASSUME NEW k \in (Len(s) + 1)..(Len(s) + Len(q))
       PROVE  /\ v[k] = got[(Len(got) - Len(q)) + (k - Len(s))]
              /\ (Len(got) - Len(q)) + (k - Len(s)) \in 1..Len(got)
              /\ (Len(got) - Len(q)) + (k - Len(s)) > Len(got) - Len(q)
  <2>1. k - Len(s) \in 1..Len(q)
    BY <1>6
  <2>2. (Len(got) - Len(q)) + (k - Len(s)) \in 1..Len(got)
    BY <1>2, <1>6, <2>1
  <2>3. (Len(got) - Len(q)) + (k - Len(s)) > Len(got) - Len(q)
    BY <1>2, <1>6, <2>1
  <2>4. q[k - Len(s)] = got[(Len(got) - Len(q)) + (k - Len(s))]
    BY <1>6, <2>1
  <2> QED
    BY <1>8, <2>2, <2>3, <2>4
<1>11. ASSUME NEW j \in DOMAIN v, NEW k \in DOMAIN v, j < k PROVE v[j].n < v[k].n
  <2>1. CASE k \in 1..Len(s)
    <3>1. j \in 1..Len(s)
      BY <1>8, <1>11, <2>1
    <3> QED
      BY <1>6, <1>8, <1>11, <2>1, <3>1 DEF Rising
  <2>2. CASE k \notin 1..Len(s)
    <3>1. k \in (Len(s) + 1)..(Len(s) + Len(q))
      BY <1>6, <1>8, <2>2
    <3>2. PICK y \in 1..Len(got) : v[k] = got[y] /\ y = (Len(got) - Len(q)) + (k - Len(s)) /\ y > Len(got) - Len(q)
      BY <1>10, <3>1
    <3>3. CASE j \in 1..Len(s)
      <4>1. PICK x \in 1..Len(got) : v[j] = got[x] /\ x <= Len(got) - Len(q)
        BY <1>9, <3>3
      <4>2. x < y
        BY <1>2, <1>6, <3>2, <4>1
      <4> QED
        BY <1>2, <1>3, <3>2, <4>1, <4>2 DEF Rising
    <3>4. CASE j \notin 1..Len(s)
      <4>1. j \in (Len(s) + 1)..(Len(s) + Len(q))
        BY <1>6, <1>8, <3>4
      <4>2. PICK x \in 1..Len(got) : v[j] = got[x] /\ x = (Len(got) - Len(q)) + (j - Len(s))
        BY <1>10, <4>1
      <4>3. x < y
        BY <1>2, <1>6, <1>11, <3>1, <3>2, <4>1, <4>2
      <4> QED
        BY <1>2, <1>3, <3>2, <4>2, <4>3 DEF Rising
    <3> QED
      BY <3>3, <3>4
  <2> QED
    BY <2>1, <2>2
<1>12. ASSUME NEW j \in DOMAIN Fresh PROVE Contains(v, Fresh[j]) \/ Len(Fresh) - j >= Room
  <2>1. /\ Fresh \in Seq(Item) /\ Len(Fresh) = Len(got) - base
        /\ \A k \in 1..(Len(got) - base) : Fresh[k] = got[base + k]
    BY <1>2, <1>6, FreshTyped
  <2>2. PICK x : x = base + j
    OBVIOUS
  <2>3. /\ j \in 1..(Len(got) - base) /\ x \in (base + 1)..Len(got) /\ Fresh[j] = got[x]
        /\ Len(Fresh) - j = Len(got) - x
    BY <1>2, <1>6, <2>1, <2>2
  <2>4. CASE x <= Len(got) - Len(q)
    <3>1. x \in (base + 1)..(Len(got) - Len(q))
      BY <1>2, <1>6, <2>3, <2>4
    <3>2. \A k \in DOMAIN s : k \in DOMAIN v /\ v[k] = s[k]
      BY <1>6, <1>8
    <3>3. Contains(v, got[x]) \/ Len(got) - x >= Room
      BY <1>6, <1>8, <3>1, <3>2 DEF Contains
    <3> QED
      BY <2>3, <3>3
  <2>5. CASE ~(x <= Len(got) - Len(q))
    <3>1. PICK k : k = (x - (Len(got) - Len(q))) + Len(s)
      OBVIOUS
    <3>2. k \in (Len(s) + 1)..(Len(s) + Len(q)) /\ (Len(got) - Len(q)) + (k - Len(s)) = x
      BY <1>2, <1>6, <2>3, <2>5, <3>1
    <3>3. v[k] = got[x]
      BY <1>10, <3>2
    <3>4. k \in 1..Len(v)
      BY <1>6, <1>8, <3>2
    <3> QED
      BY <2>3, <3>3, <3>4 DEF Contains
  <2> QED
    BY <2>4, <2>5
<1> QED
  BY <1>4, <1>5, <1>7, <1>11, <1>12 DEF StreamsShare

-----------------------------------------------------------------------------
(* All of them.                                                            *)

OutsideInv ==
  /\ LeftInv /\ DeviceTyped /\ DeviceLines
  /\ AskedInv /\ LogInv /\ CarriedInv /\ AnsweredInv /\ ServedInv
  /\ ShownInv /\ StreamsInv

LEMMA OutsideInit == ASSUME NodeInit PROVE OutsideInv
<1>1. /\ pc = "none" /\ life = "stopped" /\ out = <<>> /\ got = <<>> /\ mem = <<>>
      /\ starts = 0 /\ cuts = 0 /\ base = 0 /\ NotYet /\ Len(got) = 0 /\ Len(out) = 0
  BY DEF NodeInit, Init, NotYet
<1>2. LeftInv /\ DeviceTyped /\ DeviceLines
  BY LeftInit, AskersInit
<1>3. LogInv /\ CarriedInv /\ ServedInv /\ ShownInv
  BY <1>1 DEF LogInv, CarriedInv, ServedInv, ShownInv
<1>4. AskedInv
  <2>1. AskedTwice(out) = {}
    BY <1>1 DEF AskedTwice
  <2>2. Cardinality(AskedTwice(out)) = 0
    BY <2>1, FS_EmptySet
  <2>3. Unanswered(out, pc) = 0
    BY <1>1 DEF Unanswered, EndsAsking
  <2> QED
    BY <1>1, <2>2, <2>3 DEF AskedInv
<1>5. AnsweredInv
  <2>1. AnswersIn(out) = {}
    BY <1>1 DEF AnswersIn
  <2>2. Cardinality(AnswersIn(out)) = 0
    BY <2>1, FS_EmptySet
  <2>3. Hand(pc) = 0 /\ LostSoFar(mem, cuts) = 0 /\ DropsKept(mem)
    BY <1>1 DEF Hand, LostSoFar, DropsKept
  <2> QED
    BY <1>1, <2>1, <2>2, <2>3 DEF AnsweredInv, Answered
<1>6. StreamsInv
  <2>1. \A p \in NodePorts : pipe[p] = <<>>
    BY DEF NodeInit, Init, NodePorts
  <2>2. node.type \in OutputNames => InLine("in")
    <3>1. node \in AllTypes
      BY <1>2 DEF LeftInv, LoopTyped
    <3>2. node.type \in OutputNames => "in" \in NodePorts
      BY <3>1, OutputNode
    <3> QED
      BY <1>1, <2>1, <3>2 DEF InLine
  <2> QED
    BY <1>1, <2>2 DEF StreamsInv
<1> QED
  BY <1>2, <1>3, <1>4, <1>5, <1>6 DEF OutsideInv

LEMMA OutsideChanges == ASSUME OutsideInv, [Next]_vars PROVE OutsideInv'
<1>1. node \in AllTypes /\ LoopTyped /\ LoopTyped' /\ PostsInv
  BY LoopStep DEF OutsideInv, LeftInv, LoopTyped
<1>2. node' = node
  BY NextStays DEF OutsideInv, LeftInv, vars, Stays
<1>3. LeftInv' /\ DeviceTyped' /\ DeviceLines'
  BY <1>1, <1>2, LeftStep, DeviceTypedStep DEF OutsideInv
<1>4. AskedInv' /\ LogInv' /\ CarriedInv' /\ AnsweredInv' /\ ServedInv'
  BY <1>1, <1>2, <1>3, AskedStep, LogStep, CarriedStep, AnsweredStep, ServedStep, Zenon
     DEF OutsideInv
<1>5. ShownInv' /\ StreamsInv'
  BY <1>1, <1>2, ShownStep, StreamsStep, Zenon DEF OutsideInv
<1> QED
  BY <1>3, <1>4, <1>5 DEF OutsideInv

\* For any number of items, clients, calls and cuts: a request that was read
\* is answered once and in order, or the cuts of its task (and the connections
\* that were lost) account for it, but by a process output without a command,
\* which answers nothing; a question is asked again only for a cut; a
\* client of a socket server gets what was read since it joined, in order, but
\* for what the cuts account for; a log record is shown once and in order or a
\* thread of a cut task took it; an inner graph gives back what went in; the
\* streams of an output share its items, and what they do not show was dropped
\* while the queue was full; and what a UserInputNode emits is what it shows.
THEOREM NoneLost == Spec => []NoneLostOutside
<1>1. NodeInit => OutsideInv
  BY OutsideInit
<1>2. OutsideInv /\ [Next]_vars => OutsideInv'
  BY OutsideChanges
<1>3. OutsideInv => NoneLostOutside
  BY AskedMeaning, LogMeaning, CarriedMeaning, AnsweredMeaning, ServedMeaning, ShownMeaning,
     StreamsMeaning
     DEF OutsideInv, LeftInv, NoneLostOutside
<1> QED
  BY <1>1, <1>2, <1>3, PTL DEF Spec
=============================================================================
