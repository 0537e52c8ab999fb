------------------------- MODULE BufferNodes_proofs -------------------------
(***************************************************************************)
(* Proofs about the nodes that keep items, as node types, for any number   *)
(* of items and calls.  A line buffer, a rolling window and a queue gate   *)
(* pass on what they read, but for what the cuts account for; and a queue, *)
(* a stack, a table or a window holds the newest it has read.              *)
(***************************************************************************)
EXTENDS NodeTypes_proofs

-----------------------------------------------------------------------------
(* Sequences of sequences, in one.                                         *)

LEMMA LeastNumber ==
  ASSUME NEW I, I \subseteq Nat, I # {}
  PROVE  \E i \in I : \A j \in I : i <= j
<1> DEFINE Less == {p \in Nat \X Nat : p[1] < p[2]}
<1>1. IsWellFoundedOn(Less, Nat)
  BY NatLessThanWellFounded DEF OpToRel
<1>2. PICK i \in I : \A j \in I : <<j, i>> \notin Less
  <2> HIDE DEF Less
  <2> QED
    BY <1>1, WFMin
<1>3. ASSUME NEW j \in I PROVE i <= j
  <2>1. <<j, i>> \notin Less
    BY <1>2
  <2>2. ~(j < i)
    BY <2>1
  <2> QED
    BY <2>2
<1> QED
  BY <1>3

\* f is what the n first of the sequences s are, put together one by one.
Chained(f, s, n) == f = [i \in 1..n |-> IF i = 1 THEN s[i] ELSE f[i - 1] \o s[i]]

LEMMA ChainedAt ==
  ASSUME NEW s, NEW n, NEW f, Chained(f, s, n), NEW i \in 1..n
  PROVE  f[i] = IF i = 1 THEN s[i] ELSE f[i - 1] \o s[i]
<1> DEFINE Link(h) == [j \in 1..n |-> IF j = 1 THEN s[j] ELSE h[j - 1] \o s[j]]
<1>1. f = Link(f)
  BY DEF Chained
<1>2. Link(f)[i] = IF i = 1 THEN s[i] ELSE f[i - 1] \o s[i]
  OBVIOUS
<1> HIDE DEF Link
<1> QED
  BY <1>1, <1>2

LEMMA ChainedMore ==
  ASSUME NEW s, NEW n \in Nat, NEW f, Chained(f, s, n)
  PROVE  \E g : Chained(g, s, n + 1)
<1> DEFINE g == [i \in 1..(n + 1) |->
                   IF i = n + 1 THEN (IF i = 1 THEN s[i] ELSE f[n] \o s[i]) ELSE f[i]]
           h == [i \in 1..(n + 1) |-> IF i = 1 THEN s[i] ELSE g[i - 1] \o s[i]]
<1>1. \A i \in 1..n : f[i] = IF i = 1 THEN s[i] ELSE f[i - 1] \o s[i]
  BY DEF Chained
<1>2. ASSUME NEW i \in 1..(n + 1) PROVE g[i] = h[i]
  <2>1. CASE i = n + 1
    <3>1. i # 1 => g[i - 1] = f[n]
      BY <2>1
    <3> QED
      BY <2>1, <3>1
  <2>2. CASE i # n + 1
    <3>1. i \in 1..n /\ g[i] = f[i]
      BY <2>2
    <3>2. i # 1 => g[i - 1] = f[i - 1]
      BY <3>1
    <3> QED
      BY <1>1, <3>1, <3>2
  <2> QED
    BY <2>1, <2>2
<1>3. g = h
  BY <1>2
<1> QED
  BY <1>3 DEF Chained

LEMMA ChainedAll ==
  ASSUME NEW s, NEW n \in Nat
  PROVE  \E f : Chained(f, s, n)
<1> DEFINE Fails == {m \in Nat : ~\E f : Chained(f, s, m)}
<1>1. SUFFICES ASSUME Fails # {} PROVE FALSE
  OBVIOUS
<1>2. PICK m \in Fails : \A j \in Fails : m <= j
  <2>1. Fails \subseteq Nat
    OBVIOUS
  <2> HIDE DEF Fails
  <2> QED
    BY <1>1, <2>1, LeastNumber
<1>3. m # 0
  <2>1. Chained([i \in 1..0 |-> 0], s, 0)
    BY DEF Chained
  <2> QED
    BY <2>1
<1>4. m - 1 \in Nat /\ m - 1 \notin Fails /\ (m - 1) + 1 = m
  BY <1>2, <1>3
<1>5. \E f : Chained(f, s, m - 1)
  BY <1>4
<1>6. \E g : Chained(g, s, (m - 1) + 1)
  BY <1>4, <1>5, ChainedMore
<1> QED
  BY <1>4, <1>6

SameTo(f, g, n) == \A i \in 1..n : f[i] = g[i]

\* There is one such chain.
LEMMA ChainedOnce ==
  ASSUME NEW s, NEW t, NEW n \in Nat, NEW m \in Nat, n <= m, SameTo(s, t, n),
         NEW f, NEW g, Chained(f, s, n), Chained(g, t, m)
  PROVE  SameTo(f, g, n)
<1> DEFINE Fails == {i \in 1..n : f[i] # g[i]}
<1>1. SUFFICES ASSUME Fails # {} PROVE FALSE
  BY DEF SameTo
<1>2. PICK i \in Fails : \A j \in Fails : i <= j
  <2>1. Fails \subseteq Nat
    OBVIOUS
  <2> HIDE DEF Fails
  <2> QED
    BY <1>1, <2>1, LeastNumber
<1>3. /\ f[i] = IF i = 1 THEN s[i] ELSE f[i - 1] \o s[i]
      /\ g[i] = IF i = 1 THEN t[i] ELSE g[i - 1] \o t[i]
  <2>1. i \in 1..n /\ i \in 1..m
    BY <1>2
  <2> QED
    BY <2>1, ChainedAt
<1>4. i # 1 => i - 1 \in 1..n /\ i - 1 \notin Fails
  BY <1>2
<1> QED
  BY <1>2, <1>3, <1>4 DEF SameTo

LEMMA Flattened ==
  ASSUME NEW s, Len(s) \in Nat \ {0}
  PROVE  \E f : Chained(f, s, Len(s)) /\ FlattenSeq(s) = f[Len(s)]
<1> DEFINE c == CHOOSE f : Chained(f, s, Len(s))
<1>1. \E f : Chained(f, s, Len(s))
  BY ChainedAll
<1>2. Chained(c, s, Len(s))
  BY <1>1
<1>3. FlattenSeq(s) = c[Len(s)]
  BY Zenon DEF FlattenSeq, Chained
<1> QED
  BY <1>2, <1>3

LEMMA FlattenAppend ==
  ASSUME NEW S, NEW s \in Seq(Seq(S)), NEW x \in Seq(S), FlattenSeq(s) \in Seq(S)
  PROVE  FlattenSeq(Append(s, x)) = FlattenSeq(s) \o x
<1> DEFINE t == Append(s, x)
           n == Len(s)
<1>1. /\ n \in Nat /\ Len(t) = n + 1 /\ t[n + 1] = x /\ \A i \in 1..n : s[i] = t[i]
  OBVIOUS
<1> HIDE DEF t
<1>2. PICK g : Chained(g, t, n + 1) /\ FlattenSeq(t) = g[n + 1]
  BY <1>1, Flattened
<1>3. g[n + 1] = IF n + 1 = 1 THEN x ELSE g[n] \o x
  <2>1. n + 1 \in 1..(n + 1) /\ (n + 1) - 1 = n
    BY <1>1
  <2>2. g[n + 1] = IF n + 1 = 1 THEN t[n + 1] ELSE g[(n + 1) - 1] \o t[n + 1]
    BY <1>2, <2>1, ChainedAt
  <2> QED
    BY <1>1, <2>1, <2>2
<1>4. CASE n = 0
  <2>1. FlattenSeq(s) = <<>>
    BY <1>4 DEF FlattenSeq
  <2> QED
    BY <1>2, <1>3, <1>4, <2>1 DEF t
<1>5. CASE n # 0
  <2>1. PICK f : Chained(f, s, n) /\ FlattenSeq(s) = f[n]
    BY <1>1, <1>5, Flattened
  <2>2. f[n] = g[n]
    <3>1. n + 1 \in Nat /\ n <= n + 1 /\ n \in 1..n
      BY <1>1, <1>5
    <3>2. SameTo(s, t, n)
      BY <1>1 DEF SameTo
    <3> HIDE DEF n
    <3>3. SameTo(f, g, n)
      BY <1>1, <1>2, <2>1, <3>1, <3>2, ChainedOnce
    <3> QED
      BY <3>1, <3>3 DEF SameTo
  <2> QED
    BY <1>1, <1>2, <1>3, <1>5, <2>1, <2>2 DEF t
<1> QED
  BY <1>4, <1>5
-----------------------------------------------------------------------------
(* The node types that keep items: their calls and steps, and what waits.  *)

LEMMA BufferPorts ==
  ASSUME node \in AllTypes, node.type \in BufferNames
  PROVE  /\ node \in BufferTypes
         /\ node.ports \in {<<"in">>, <<"in", "in2">>, <<"in", "pop">>,
                            <<"in", "trigger", "retain">>}
         /\ node.polls \in {"all", "named"}
         /\ Polled = wired /\ NextTurn = wired
         /\ Distinct(node.ports)
         /\ DOMAIN node.ports \subseteq Nat
         /\ node.type = "gate" => node.ports = <<"in", "pop">>
         /\ node.type = "rolling" => node.ports = <<"in", "trigger", "retain">>
<1>1. node \in BufferTypes
  BY Families
<1>2. /\ node.ports \in {<<"in">>, <<"in", "in2">>, <<"in", "pop">>, <<"in", "trigger", "retain">>}
      /\ node.polls \in {"all", "named"}
      /\ node.type = "gate" => node.ports = <<"in", "pop">>
      /\ node.type = "rolling" => node.ports = <<"in", "trigger", "retain">>
  BY <1>1 DEF BufferTypes, BufferType, TwoIn
<1>3. Distinct(node.ports) /\ DOMAIN node.ports \subseteq Nat
  BY <1>2 DEF Distinct
<1> QED
  BY <1>1, <1>2, <1>3 DEF Polled, NextTurn

BufferChange ==
  \/ Aside
  \/ Start(BufferMem, BufferLocal)
  \/ Resume(BufferLocal)
  \/ node.type # "gate" /\ (Pause \/ Stop)
  \/ node.type = "gate" /\ \E next \in {"paused", "stopped"} : GateCut(next)
  \/ BufferCall
  \/ BufferStep

LEMMA BufferNext ==
  ASSUME node \in AllTypes, node.type \in BufferNames,
         pc \in {"none", "loop", "cancelIn", "ended"}, [Next]_vars
  PROVE  BufferChange
<1>1. /\ node.type \notin StreamNames \cup SourceNames \cup DeviceNames \cup OutputNames
                          \cup InputNames
      /\ node \in BufferTypes
      /\ node \notin StreamTypes \cup SourceTypes \cup DeviceTypes \cup WebTypes
      /\ node.type # "round_robin" /\ node.type \notin Raising
  <2>1. node.type \notin StreamNames \cup SourceNames \cup DeviceNames \cup OutputNames
                         \cup InputNames
    BY DEF SourceNames, StreamNames, BufferNames, LogicNames, DeviceNames, OutputNames, InputNames
  <2> QED
    BY <2>1, Families DEF BufferNames, LogicNames, Raising
<1>2. CASE UNCHANGED vars
  BY <1>2 DEF vars, loopVars, dataVars, BufferChange, Aside
<1>3. CASE Others
  <2>1. ASSUME NEW p \in NodePorts, Wire(p) PROVE Aside
    BY <2>1 DEF Wire, loopVars, dataVars, Aside
  <2>2. ASSUME NEW p \in NodePorts, NEW ok \in BOOLEAN, Send(p, ok) PROVE Aside
    BY <2>2 DEF Send, loopVars, Aside
  <2> QED
    BY <1>1, <1>3, <2>1, <2>2 DEF Others, BufferChange, NodePorts
<1>4. CASE Control
  <2>1. FreshMem = BufferMem /\ FreshLocal = BufferLocal
    BY <1>1 DEF FreshMem, FreshLocal
  <2>2. ASSUME NEW next \in {"paused", "stopped"}, Cut(next) PROVE BufferChange
    <3>1. CASE node.type = "gate"
      <4>1. GateCut(next)
        BY <1>1, <2>2, <3>1, Zenon DEF Cut
      <4> QED
        BY <3>1, <4>1 DEF BufferChange
    <3>2. CASE node.type # "gate"
      <4>1. Pause \/ Stop
        BY <1>1, <2>2, <3>2, Zenon DEF Cut
      <4> QED
        BY <3>2, <4>1 DEF BufferChange
    <3> QED
      BY <3>1, <3>2
  <2> QED
    BY <1>1, <1>4, <2>1, <2>2, Zenon DEF Control, BufferChange
<1>5. CASE Process
  <2>1. Wake => Aside
    BY DEF Wake, dataVars, Aside
  <2> QED
    BY <1>1, <1>5, <2>1, OnlyDevices, OnlySources, OnlyPlain DEF Process, BufferChange
<1> QED
  BY <1>2, <1>3, <1>4, <1>5 DEF Next

\* An item is taken from the port p.
TakesFrom(p) ==
  /\ pipe[p] # <<>>
  /\ pipe' = [pipe EXCEPT ![p] = Tail(@)]
  /\ got' = Append(got, Head(pipe[p]))

\* What a poll does but for the node's own data.
BufferPoll ==
  /\ pc = "loop" /\ pc' \in {"loop", "ended"}
  /\ pass # <<>>
  /\ TakesFrom(Head(pass)) \/ UNCHANGED <<pipe, got>>
  /\ \/ pass' = Tail(pass) /\ turn' = turn
     \/ turn' = NextTurn /\ pass' = turn'
     \/ turn' = <<>> /\ pass' = <<>>
  /\ UNCHANGED <<node, envVars, lifeVars, base>>

LEMMA BufferPolls ==
  ASSUME node \in AllTypes, pass \in Seq(NodePorts), BufferStep, ~QueueGate
  PROVE  BufferPoll
<1>1. ASSUME Fifo PROVE BufferPoll
  BY <1>1 DEF Fifo, FifoTake, ShowContent, Shows, Poll, Self, Becomes, BufferPoll, TakesFrom
<1>2. ASSUME Lifo PROVE BufferPoll
  BY <1>2 DEF Lifo, LifoTake, ShowContent, Shows, Poll, Self, Becomes, BufferPoll, TakesFrom
<1>3. ASSUME Stack PROVE BufferPoll
  BY <1>3 DEF Stack, StackTake, IdleEnd, Shows, Poll, Self, Becomes, BufferPoll, TakesFrom
<1>4. ASSUME Table PROVE BufferPoll
  BY <1>4 DEF Table, TableTake, Shows, Poll, Self, Becomes, BufferPoll, TakesFrom
<1>5. ASSUME LineBuffer PROVE BufferPoll
  BY <1>5 DEF LineBuffer, LineTake, LineEnd, Flush, Give, Poll, Self, Becomes, BufferPoll,
              TakesFrom
<1>6. ASSUME LineSplitter PROVE BufferPoll
  BY <1>6 DEF LineSplitter, IdleEnd, Give, Poll, Self, Becomes, BufferPoll, TakesFrom
<1>7. ASSUME Rolling PROVE BufferPoll
  <2>1. node.type = "rolling"
    BY <1>7 DEF Rolling
  <2>2. NodePorts = {"in", "trigger", "retain"}
    BY <2>1, BufferPorts DEF NodePorts, ToSet, BufferNames
  <2>3. pass # <<>> => Head(pass) \in {"in", "trigger", "retain"}
    BY <2>2
  <2> QED
    BY <1>7, <2>3
       DEF Rolling, RollingTake, RollingEnd, Give, Poll, Self, Becomes, BufferPoll, TakesFrom
<1>8. ASSUME SyncBarrier \/ And \/ Or \/ Nand \/ Nor \/ Xor \/ Xnor PROVE BufferPoll
  <2>1. Len(pass) \in Nat
    OBVIOUS
  <2> QED
    BY <1>8, <2>1, BarrierPolls, LogicPolls DEF Polls, BufferPoll, TakesFrom
<1> QED
  BY <1>1, <1>2, <1>3, <1>4, <1>5, <1>6, <1>7, <1>8 DEF BufferStep

\* Where the loop of such a node is, and what is on its way to it.
BufferTyped ==
  node.type \in BufferNames =>
    /\ wired \in Seq(NodePorts) /\ turn \in Seq(NodePorts) /\ pass \in Seq(NodePorts)
    /\ Distinct(wired) /\ Distinct(turn) /\ Distinct(pass)
    /\ sent \in 0..MaxItems
    /\ pipe \in [NodePorts -> Seq(Item)] /\ got \in Seq(Item)
    /\ base \in 0..Len(got)
    /\ pc \in {"none", "loop", "cancelIn", "ended"}
    /\ life # "running" => pc = "none"
    /\ starts \in Nat /\ cuts \in Nat
    /\ starts = 0 => NotYet

\* What a node has read of a port and what waits there, in the order sent.
InLine(p) ==
  /\ \A k \in DOMAIN pipe[p] :
       /\ pipe[p][k].port = p /\ pipe[p][k].n <= sent
       /\ \A j \in DOMAIN pipe[p] : j < k => pipe[p][j].n < pipe[p][k].n
       /\ \A j \in DOMAIN got : got[j].port = p => got[j].n < pipe[p][k].n
  /\ \A k \in DOMAIN got : got[k].port = p =>
       /\ got[k].n <= sent
       /\ \A j \in DOMAIN got : j < k /\ got[j].port = p => got[j].n < got[k].n

BufferLines == node.type \in BufferNames => \A p \in NodePorts : InLine(p)

LEMMA WireTyped ==
  ASSUME node \in AllTypes, node.type \in BufferNames, wired \in Seq(NodePorts),
         Distinct(wired), NEW p \in NodePorts, Wire(p)
  PROVE  wired' \in Seq(NodePorts) /\ Distinct(wired')
<1>1. CASE node.polls = "all"
  <2>1. wired' = Append(wired, p) /\ ~Contains(wired, p)
    BY <1>1, Zenon DEF Wire
  <2>2. Append(wired, p) \in Seq(NodePorts)
    OBVIOUS
  <2> QED
    BY <2>1, <2>2, DistinctAppend
<1>2. CASE node.polls = "named"
  <2>1. InPortOrder(wired') /\ \E k \in 1..(Len(wired) + 1) : wired' = InsertAt(wired, k, p)
    BY <1>2, Zenon DEF Wire
  <2>2. wired' \in Seq(NodePorts)
    BY <2>1, InsertTyped
  <2>3. ASSUME NEW j \in DOMAIN wired', NEW k \in DOMAIN wired', j < k
        PROVE  wired'[j] # wired'[k]
    <3>1. PICK m \in DOMAIN node.ports, n \in DOMAIN node.ports :
            m < n /\ node.ports[m] = wired'[j] /\ node.ports[n] = wired'[k]
      <4>1. node' = node
        BY DEF Wire
      <4> QED
        BY <2>1, <2>3, <4>1 DEF InPortOrder
    <3>2. m \in Nat /\ n \in Nat /\ Distinct(node.ports)
      BY BufferPorts
    <3>3. m # n
      BY <3>1, <3>2
    <3> QED
      BY <3>1, <3>2, <3>3 DEF Distinct
  <2>4. \A j \in DOMAIN wired' : j \in Nat
    BY <2>2
  <2> QED
    BY <2>2, <2>3, <2>4 DEF Distinct
<1> QED
  BY <1>1, <1>2, BufferPorts

\* The ways in which such a node's items move: one is sent, one is taken, or
\* none moves.
SentTo(p, i) ==
  /\ i.port = p /\ i.n = sent + 1
  /\ sent' = sent + 1 /\ pipe' = [pipe EXCEPT ![p] = Append(@, i)] /\ got' = got
Fetches(p) == TakesFrom(p) /\ sent' = sent

LEMMA SentInLine ==
  ASSUME NEW S, \A i \in S : i.n \in Nat, pipe \in [NodePorts -> Seq(S)], got \in Seq(S),
         sent \in Nat, NEW p \in NodePorts, NEW i \in S, SentTo(p, i),
         NEW q \in NodePorts, InLine(q)
  PROVE  InLine(q)'
<1> DEFINE s == pipe[q]
           t == pipe'[q]
<1>1. CASE q # p
  <2>1. t = s /\ got' = got /\ sent' = sent + 1
    BY <1>1 DEF SentTo
  <2>2. \A k \in DOMAIN s : s[k].n \in Nat
    OBVIOUS
  <2>3. \A k \in DOMAIN got : got[k].n \in Nat
    OBVIOUS
  <2> QED
    BY <2>1, <2>2, <2>3 DEF InLine
<1>2. CASE q = p
  <2>1. t = Append(s, i) /\ got' = got /\ sent' = sent + 1 /\ s \in Seq(S)
    BY <1>2 DEF SentTo
  <2>2. /\ DOMAIN s = 1..Len(s) /\ Len(s) \in Nat
        /\ DOMAIN t = 1..(Len(s) + 1)
        /\ \A k \in 1..Len(s) : t[k] = s[k]
        /\ t[Len(s) + 1] = i
    BY <2>1
  <2>3. /\ \A k \in 1..Len(s) : s[k].n \in Nat
        /\ \A k \in DOMAIN got : got[k].n \in Nat
    BY <2>1
  <2>4. /\ \A k \in 1..Len(s) :
             /\ s[k].port = p /\ s[k].n <= sent
             /\ \A j \in 1..Len(s) : j < k => s[j].n < s[k].n
             /\ \A j \in DOMAIN got : got[j].port = p => got[j].n < s[k].n
        /\ \A k \in DOMAIN got : got[k].port = p =>
             /\ got[k].n <= sent
             /\ \A j \in DOMAIN got : j < k /\ got[j].port = p => got[j].n < got[k].n
    BY <1>2, <2>2 DEF InLine
  <2>5. i.port = p /\ i.n = sent + 1
    BY DEF SentTo
  <2> HIDE DEF t, s
  <2>6. ASSUME NEW k \in 1..(Len(s) + 1)
        PROVE  /\ t[k].port = p /\ t[k].n <= sent + 1
               /\ \A j \in 1..(Len(s) + 1) : j < k => t[j].n < t[k].n
               /\ \A j \in DOMAIN got : got[j].port = p => got[j].n < t[k].n
    <3>1. CASE k = Len(s) + 1
      BY <2>2, <2>3, <2>4, <2>5, <3>1
    <3>2. CASE k # Len(s) + 1
      <4>1. k \in 1..Len(s) /\ t[k] = s[k]
        BY <2>2, <3>2
      <4>2. \A j \in 1..(Len(s) + 1) : j < k => j \in 1..Len(s) /\ t[j] = s[j]
        BY <2>2, <4>1
      <4>3. t[k].n <= sent + 1
        BY <2>3, <2>4, <4>1
      <4> QED
        BY <2>4, <4>1, <4>2, <4>3
    <3> QED
      BY <3>1, <3>2
  <2>7. \A k \in DOMAIN got : got[k].port = p => got[k].n <= sent + 1
    BY <2>3, <2>4
  <2> QED
    BY <1>2, <2>1, <2>2, <2>4, <2>6, <2>7 DEF InLine, t
<1> QED
  BY <1>1, <1>2

LEMMA FetchedInLine ==
  ASSUME NEW S, \A i \in S : i.n \in Nat, pipe \in [NodePorts -> Seq(S)], got \in Seq(S),
         sent \in Nat, NEW p \in NodePorts, Fetches(p), InLine(p),
         NEW q \in NodePorts, InLine(q)
  PROVE  InLine(q)'
<1> DEFINE i == Head(pipe[p])
           g == Append(got, i)
<1>1. /\ i \in S /\ i = pipe[p][1] /\ 1 \in DOMAIN pipe[p] /\ pipe[p] \in Seq(S)
      /\ pipe[p] # <<>>
  BY DEF Fetches, TakesFrom
<1>2. /\ pipe' = [pipe EXCEPT ![p] = Tail(@)] /\ got' = g /\ sent' = sent
  BY DEF Fetches, TakesFrom
<1>3. /\ DOMAIN got = 1..Len(got) /\ Len(got) \in Nat
      /\ DOMAIN g = 1..(Len(got) + 1)
      /\ \A k \in 1..Len(got) : g[k] = got[k]
      /\ g[Len(got) + 1] = i
      /\ \A k \in 1..Len(got) : got[k].n \in Nat
  BY <1>1
<1>4. /\ i.port = p /\ i.n <= sent /\ i.n \in Nat
      /\ \A j \in 1..Len(got) : got[j].port = p => got[j].n < i.n
  BY <1>1, <1>3 DEF InLine
<1>5. \A k \in 1..Len(got) : got[k].port = q =>
        /\ got[k].n <= sent
        /\ \A j \in 1..Len(got) : j < k /\ got[j].port = q => got[j].n < got[k].n
  BY <1>3 DEF InLine
<1> HIDE DEF g, i
<1>6. \A k \in DOMAIN g : g[k].port = q =>
        /\ g[k].n <= sent
        /\ \A j \in DOMAIN g : j < k /\ g[j].port = q => g[j].n < g[k].n
  <2>1. ASSUME NEW k \in DOMAIN g, g[k].port = q
        PROVE  /\ g[k].n <= sent
               /\ \A j \in DOMAIN g : j < k /\ g[j].port = q => g[j].n < g[k].n
    <3>1. CASE k = Len(got) + 1
      BY <1>3, <1>4, <2>1, <3>1
    <3>2. CASE k # Len(got) + 1
      <4>1. k \in 1..Len(got) /\ g[k] = got[k]
        BY <1>3, <3>2
      <4>2. \A j \in DOMAIN g : j < k => j \in 1..Len(got) /\ g[j] = got[j]
        BY <1>3, <4>1
      <4> QED
        BY <1>5, <2>1, <4>1, <4>2
    <3> QED
      BY <3>1, <3>2
  <2> QED
    BY <2>1
<1>7. CASE q # p
  <2>1. pipe'[q] = pipe[q]
    BY <1>2, <1>7
  <2>2. \A k \in DOMAIN pipe[q] :
          /\ pipe[q][k].port = q /\ pipe[q][k].n <= sent
          /\ \A j \in DOMAIN pipe[q] : j < k => pipe[q][j].n < pipe[q][k].n
          /\ \A j \in DOMAIN g : g[j].port = q => g[j].n < pipe[q][k].n
    <3>1. \A j \in DOMAIN g : g[j].port = q => j \in DOMAIN got /\ g[j] = got[j]
      BY <1>3, <1>4, <1>7
    <3> QED
      BY <3>1 DEF InLine
  <2> QED
    BY <1>2, <1>6, <2>1, <2>2 DEF InLine
<1>8. CASE q = p
  <2> DEFINE s == pipe[p]
             t == Tail(s)
  <2>1. /\ pipe'[p] = t /\ Len(s) \in Nat \ {0} /\ DOMAIN s = 1..Len(s)
        /\ DOMAIN t = 1..(Len(s) - 1)
        /\ \A k \in 1..(Len(s) - 1) : t[k] = s[k + 1]
    BY <1>1, <1>2
  <2>2. \A k \in 1..Len(s) :
          /\ s[k].port = p /\ s[k].n <= sent
          /\ \A j \in 1..Len(s) : j < k => s[j].n < s[k].n
          /\ \A j \in 1..Len(got) : got[j].port = p => got[j].n < s[k].n
    BY <1>3, <2>1 DEF InLine
  <2>3. i = s[1]
    BY <1>1
  <2> HIDE DEF s, t
  <2>4. ASSUME NEW k \in 1..(Len(s) - 1)
        PROVE  /\ t[k].port = p /\ t[k].n <= sent
               /\ \A j \in 1..(Len(s) - 1) : j < k => t[j].n < t[k].n
               /\ \A j \in DOMAIN g : g[j].port = p => g[j].n < t[k].n
    <3>1. k + 1 \in 1..Len(s) /\ t[k] = s[k + 1] /\ 1 \in 1..Len(s) /\ 1 < k + 1
      BY <2>1
    <3>2. \A j \in 1..(Len(s) - 1) : t[j] = s[j + 1] /\ j + 1 \in 1..Len(s) /\ (j < k => j + 1 < k + 1)
      BY <2>1
    <3> QED
      <4>1. \A j \in DOMAIN g : g[j].port = p => g[j].n < s[k + 1].n
        <5>1. \A j \in 1..Len(got) : g[j].port = p => g[j].n < s[k + 1].n
          BY <1>3, <2>2, <3>1
        <5>2. g[Len(got) + 1].n < s[k + 1].n
          BY <1>3, <2>2, <2>3, <3>1
        <5>3. \A j \in DOMAIN g : j \in 1..Len(got) \/ j = Len(got) + 1
          BY <1>3
        <5> QED
          BY <5>1, <5>2, <5>3
      <4>2. \A j \in 1..(Len(s) - 1) : j < k => t[j].n < t[k].n
        BY <2>2, <3>1, <3>2
      <4> QED
        BY <2>2, <3>1, <4>1, <4>2
  <2> QED
    BY <1>2, <1>6, <1>8, <2>1, <2>4 DEF InLine
<1> QED
  BY <1>7, <1>8

LEMMA BufferWays ==
  ASSUME node \in AllTypes, node.type \in BufferNames, BufferTyped, [Next]_vars
  PROVE  \/ \E p \in NodePorts, i \in Item : SentTo(p, i) /\ base' = base /\ sent' <= MaxItems
         \/ \E p \in NodePorts : Fetches(p) /\ base' = base
         \/ UNCHANGED <<sent, pipe, got>> /\ (base' = base \/ base' = Len(got))
<1>1. /\ pass \in Seq(NodePorts) /\ turn \in Seq(NodePorts) /\ sent \in Nat
      /\ pc \in {"none", "loop", "cancelIn", "ended"}
  BY NodeLoopAssumption DEF BufferTyped
<1>2. CASE Aside
  <2>1. ASSUME NEW p \in NodePorts, NEW ok \in BOOLEAN, Send(p, ok)
        PROVE  \E i \in Item : SentTo(p, i) /\ sent' <= MaxItems
    <3> DEFINE i == [port |-> p, n |-> sent + 1, ok |-> ok]
    <3>1. i \in Item /\ sent' <= MaxItems
      BY <1>1, <2>1, NodeLoopAssumption DEF Send, Item
    <3>2. SentTo(p, i)
      BY <2>1 DEF Send, SentTo
    <3> QED
      BY <3>1, <3>2
  <2>2. Wake \/ UNCHANGED <<envVars, turn, pass, pipe>> => UNCHANGED <<sent, pipe>>
    BY DEF Wake, envVars, dataVars
  <2>3. \A p : Wire(p) => UNCHANGED <<sent, pipe>>
    BY DEF Wire, dataVars
  <2> QED
    BY <1>2, <2>1, <2>2, <2>3 DEF Aside
<1>3. CASE Start(BufferMem, BufferLocal) \/ Resume(BufferLocal) \/ Pause \/ Stop \/ BufferCall
  BY <1>3
     DEF Start, Resume, Pause, Stop, BufferCall, Reset, Resize, SetAttribute, envVars, dataVars
<1>4. ASSUME NEW next, GateCut(next) PROVE UNCHANGED <<sent, pipe, got, base>>
  BY <1>4 DEF GateCut, envVars
<1>5. CASE BufferStep /\ ~QueueGate
  <2>1. BufferPoll
    BY <1>1, <1>5, BufferPolls
  <2>2. Head(pass) \in NodePorts
    BY <1>1, <2>1 DEF BufferPoll
  <2> QED
    BY <2>1, <2>2 DEF BufferPoll, Fetches, envVars
<1>6. CASE QueueGate
  <2>1. GateWait \/ GateCancelled => UNCHANGED <<sent, pipe, got, base>>
    BY DEF GateWait, GateCancelled, envVars
  <2>2. ASSUME NEW p \in NodePorts, GateGet(p) \/ ParkedGet(p) PROVE Fetches(p) /\ base' = base
    BY <2>2 DEF GateGet, ParkedGet, Fetches, TakesFrom, envVars
  <2> QED
    BY <1>6, <2>1, <2>2 DEF QueueGate, NodePorts
<1> QED
  BY <1>1, <1>2, <1>3, <1>4, <1>5, <1>6, BufferNext, Zenon DEF BufferChange

LEMMA BufferTurns ==
  ASSUME node \in AllTypes, node.type \in BufferNames, BufferTyped, [Next]_vars
  PROVE  /\ wired' \in Seq(NodePorts) /\ turn' \in Seq(NodePorts) /\ pass' \in Seq(NodePorts)
         /\ Distinct(wired') /\ Distinct(turn') /\ Distinct(pass')
<1> DEFINE Good(w, t, p) == /\ w \in Seq(NodePorts) /\ t \in Seq(NodePorts) /\ p \in Seq(NodePorts)
                            /\ Distinct(w) /\ Distinct(t) /\ Distinct(p)
<1>1. /\ Good(wired, turn, pass) /\ Polled = wired /\ NextTurn = wired
      /\ pc \in {"none", "loop", "cancelIn", "ended"}
  BY BufferPorts DEF BufferTyped
<1>2. Good(wired, wired, wired) /\ Good(wired, <<>>, <<>>)
  BY <1>1, EmptyTyped DEF Distinct
<1>3. pass # <<>> => Good(wired, turn, Tail(pass))
  <2>1. pass # <<>> => Tail(pass) \in Seq(NodePorts)
    BY <1>1
  <2> QED
    BY <1>1, <2>1, DistinctTail
<1> SUFFICES Good(wired', turn', pass')
  OBVIOUS
<1> HIDE DEF Good
<1>4. CASE UNCHANGED <<wired, turn, pass>>
  BY <1>1, <1>4
<1>5. CASE wired' = wired /\ turn' = wired /\ pass' = wired
  BY <1>2, <1>5
<1>6. CASE wired' = wired /\ turn' = <<>> /\ pass' = <<>>
  BY <1>2, <1>6
<1>7. CASE Aside
  <2>1. ASSUME NEW p \in NodePorts, Wire(p) PROVE Good(wired', turn', pass')
    <3>1. wired' \in Seq(NodePorts) /\ Distinct(wired')
      BY <1>1, <2>1, WireTyped DEF Good
    <3>2. turn' = turn /\ pass' = pass
      BY <2>1 DEF Wire, loopVars
    <3> QED
      BY <1>1, <3>1, <3>2 DEF Good
  <2>2. ASSUME NEW p, NEW ok, Send(p, ok) PROVE UNCHANGED <<wired, turn, pass>>
    BY <2>2 DEF Send, loopVars
  <2>3. Wake => wired' = wired /\ turn' = wired /\ pass' = wired
    BY <1>1 DEF Wake, envVars
  <2> QED
    BY <1>4, <1>5, <1>7, <2>1, <2>2, <2>3 DEF Aside, envVars
<1>8. CASE Start(BufferMem, BufferLocal) \/ Resume(BufferLocal) \/ BufferCall
  BY <1>1, <1>4, <1>5, <1>8
     DEF Start, Resume, Enter, BufferCall, Reset, Resize, SetAttribute, envVars, loopVars
<1>9. CASE Pause \/ Stop \/ \E next : GateCut(next)
  BY <1>6, <1>9 DEF Pause, Stop, GateCut, Cancel, Leave, envVars
<1>10. CASE BufferStep /\ ~QueueGate
  <2>1. BufferPoll
    BY <1>1, <1>10, BufferPolls DEF Good
  <2> QED
    BY <1>1, <1>3, <1>5, <1>6, <2>1 DEF BufferPoll, envVars
<1>11. CASE QueueGate
  BY <1>1, <1>4, <1>5, <1>11
     DEF QueueGate, GateWait, GateCancelled, GateGet, ParkedGet, NextGateTurn, envVars, loopVars
<1> QED
  BY <1>1, <1>7, <1>8, <1>9, <1>10, <1>11, BufferNext DEF BufferChange

LEMMA BufferLife ==
  ASSUME node \in AllTypes, node.type \in BufferNames, BufferTyped, [Next]_vars
  PROVE  /\ pc' \in {"none", "loop", "cancelIn", "ended"}
         /\ life' # "running" => pc' = "none"
         /\ starts' \in Nat /\ cuts' \in Nat
         /\ starts' = 0 => starts = 0 /\ UNCHANGED <<mem, out, life, pc>>
<1>1. /\ pc \in {"none", "loop", "cancelIn", "ended"}
      /\ life # "running" => pc = "none"
      /\ starts \in Nat /\ cuts \in Nat
      /\ starts = 0 => life = "stopped" /\ pc = "none" /\ mem = <<>>
      /\ pass \in Seq(NodePorts)
  BY DEF BufferTyped, NotYet
<1>2. CASE Aside
  BY <1>1, <1>2 DEF Aside, lifeVars
<1>3. CASE Start(BufferMem, BufferLocal)
  BY <1>1, <1>3 DEF Start, Enter
<1>4. CASE Resume(BufferLocal)
  BY <1>1, <1>4 DEF Resume, Enter
<1>5. CASE Pause \/ Stop
  BY <1>1, <1>5 DEF Pause, Stop, Cancel, Leave
<1>6. ASSUME NEW next, GateCut(next)
      PROVE  /\ pc' = "none" /\ starts' = starts /\ cuts' = cuts + 1 /\ starts # 0
  BY <1>1, <1>6 DEF GateCut, Cancel, Leave
<1>7. CASE BufferCall
  BY <1>1, <1>7 DEF BufferCall, Reset, Resize, SetAttribute, loopVars
<1>8. CASE BufferStep /\ ~QueueGate
  BY <1>1, <1>8, BufferPolls DEF BufferPoll, lifeVars
<1>9. CASE QueueGate
  <2>1. ASSUME NEW p, ParkedGet(p) PROVE UNCHANGED <<lifeVars, pc>> /\ mem # <<>>
    BY <2>1 DEF ParkedGet, loopVars
  <2>2. GateWait \/ GateCancelled \/ (\E p : GateGet(p)) => pc # "none" /\ UNCHANGED lifeVars
    BY DEF GateWait, GateCancelled, GateGet
  <2>3. GateWait => pc' \in {"loop", "cancelIn"}
    BY DEF GateWait, Becomes, Settled, Popped, Queued, Give, Self
  <2>4. GateCancelled => pc' = "loop"
    BY DEF GateCancelled, Becomes, Settled, Popped, Queued, Give, Self
  <2>5. (\E p : GateGet(p)) => pc' = pc
    BY DEF GateGet
  <2> QED
    BY <1>1, <1>9, <2>1, <2>2, <2>3, <2>4, <2>5 DEF QueueGate, lifeVars
<1> QED
  BY <1>1, <1>2, <1>3, <1>4, <1>5, <1>6, <1>7, <1>8, <1>9, BufferNext DEF BufferChange

LEMMA BufferTypedStep ==
  ASSUME node \in AllTypes, node' = node, BufferTyped, BufferLines, [Next]_vars
  PROVE  BufferTyped' /\ BufferLines'
<1> SUFFICES ASSUME node.type \in BufferNames PROVE BufferTyped' /\ BufferLines'
  BY DEF BufferTyped, BufferLines
<1>1. /\ pipe \in [NodePorts -> Seq(Item)] /\ got \in Seq(Item) /\ sent \in 0..MaxItems
      /\ base \in 0..Len(got) /\ Len(got) \in Nat
      /\ starts = 0 => NotYet
      /\ \A p \in NodePorts : InLine(p)
  BY DEF BufferTyped, BufferLines
<1>2. NodePorts' = NodePorts /\ Item' = Item /\ sent \in Nat /\ \A i \in Item : i.n \in Nat
  BY <1>1, NodeLoopAssumption DEF NodePorts, Item
<1> DEFINE Ways == /\ pipe' \in [NodePorts -> Seq(Item)] /\ got' \in Seq(Item)
                   /\ sent' \in 0..MaxItems /\ base' \in 0..Len(got')
                   /\ \A q \in NodePorts : InLine(q)'
<1>3. Ways
  <2>1. ASSUME NEW p \in NodePorts, NEW i \in Item, SentTo(p, i), base' = base, sent' <= MaxItems
        PROVE  Ways
    <3>1. Append(pipe[p], i) \in Seq(Item)
      BY <1>1
    <3>2. ASSUME NEW q \in NodePorts PROVE InLine(q)'
      <4>1. InLine(q)
        BY <1>1
      <4> QED
        BY <1>1, <1>2, <2>1, <4>1, SentInLine
    <3>3. pipe' \in [NodePorts -> Seq(Item)] /\ got' = got /\ sent' \in 0..MaxItems
      BY <1>1, <1>2, <2>1, <3>1, NodeLoopAssumption DEF SentTo
    <3> QED
      BY <1>1, <2>1, <3>2, <3>3
  <2>2. ASSUME NEW p \in NodePorts, Fetches(p), base' = base PROVE Ways
    <3>1. Tail(pipe[p]) \in Seq(Item) /\ Head(pipe[p]) \in Item
      BY <1>1, <2>2 DEF Fetches, TakesFrom
    <3>2. ASSUME NEW q \in NodePorts PROVE InLine(q)'
      <4>1. InLine(q) /\ InLine(p)
        BY <1>1
      <4> QED
        BY <1>1, <1>2, <2>2, <4>1, FetchedInLine
    <3>3. /\ pipe' = [pipe EXCEPT ![p] = Tail(@)] /\ sent' = sent
          /\ got' = Append(got, Head(pipe[p]))
      BY <2>2 DEF Fetches, TakesFrom
    <3>4. pipe' \in [NodePorts -> Seq(Item)]
      BY <1>1, <3>1, <3>3
    <3>5. got' \in Seq(Item) /\ Len(got') = Len(got) + 1
      BY <1>1, <3>1, <3>3
    <3>6. base' \in 0..Len(got')
      BY <1>1, <2>2, <3>5
    <3> QED
      BY <1>1, <3>2, <3>3, <3>4, <3>5, <3>6
  <2>3. ASSUME UNCHANGED <<sent, pipe, got>>, base' = base \/ base' = Len(got) PROVE Ways
    BY <1>1, <2>3 DEF InLine
  <2> HIDE DEF Ways
  <2> QED
    BY <2>1, <2>2, <2>3, BufferWays
<1>4. BufferLines'
  BY <1>2, <1>3 DEF BufferLines
<1> QED
  BY <1>1, <1>2, <1>3, <1>4, BufferTurns, BufferLife DEF BufferTyped, NotYet

-----------------------------------------------------------------------------
(* Lines.                                                                  *)

\* The end of t is s.
EndsWith(t, s) ==
  Len(s) <= Len(t) /\ \A k \in 1..Len(s) : s[k] = t[(Len(t) - Len(s)) + k]

LEMMA SuffixMeaning ==
  ASSUME NEW S, NEW s \in Seq(S), NEW t \in Seq(S), EndsWith(t, s)
  PROVE  IsSuffix(s, t)
<1> DEFINE r == Reverse(s)
           u == Reverse(t)
<1>1. /\ Len(s) \in Nat /\ Len(t) \in Nat /\ Len(s) <= Len(t)
      /\ \A k \in 1..Len(s) : s[k] = t[(Len(t) - Len(s)) + k]
  BY DEF EndsWith
<1>2. /\ r \in Seq(S) /\ Len(r) = Len(s) /\ \A k \in 1..Len(s) : r[k] = s[(Len(s) - k) + 1]
      /\ u \in Seq(S) /\ Len(u) = Len(t) /\ \A k \in 1..Len(t) : u[k] = t[(Len(t) - k) + 1]
  BY DEF Reverse
<1> HIDE DEF r, u
<1>3. \A k \in 1..Len(s) : r[k] = u[k]
  <2> TAKE k \in 1..Len(s)
  <2>1. (Len(s) - k) + 1 \in 1..Len(s) /\ k \in 1..Len(t)
    BY <1>1
  <2>2. s[(Len(s) - k) + 1] = t[(Len(t) - Len(s)) + ((Len(s) - k) + 1)]
    BY <1>1, <2>1
  <2>3. (Len(t) - Len(s)) + ((Len(s) - k) + 1) = (Len(t) - k) + 1
    BY <1>1
  <2> QED
    BY <1>2, <2>1, <2>2, <2>3
<1>4. SubSeq(r, 1, Len(r)) = SubSeq(u, 1, Len(r))
  <2>1. /\ SubSeq(r, 1, Len(s)) \in Seq(S) /\ SubSeq(u, 1, Len(s)) \in Seq(S)
        /\ Len(SubSeq(r, 1, Len(s))) = Len(s) /\ Len(SubSeq(u, 1, Len(s))) = Len(s)
        /\ \A k \in 1..Len(s) : SubSeq(r, 1, Len(s))[k] = r[k] /\ SubSeq(u, 1, Len(s))[k] = u[k]
    BY <1>1, <1>2
  <2> QED
    BY <1>2, <1>3, <2>1
<1> QED
  BY <1>1, <1>2, <1>4 DEF IsSuffix, IsPrefix, r, u

LEMMA EndsAppend ==
  ASSUME NEW S, NEW s \in Seq(S), NEW t \in Seq(S), NEW i \in S, EndsWith(t, s)
  PROVE  EndsWith(Append(t, i), Append(s, i))
<1>1. /\ Len(s) \in Nat /\ Len(t) \in Nat /\ Len(s) <= Len(t)
      /\ \A k \in 1..Len(s) : s[k] = t[(Len(t) - Len(s)) + k]
  BY DEF EndsWith
<1> DEFINE a == Append(s, i)
           b == Append(t, i)
<1>2. /\ Len(a) = Len(s) + 1 /\ a[Len(s) + 1] = i /\ \A k \in 1..Len(s) : a[k] = s[k]
      /\ Len(b) = Len(t) + 1 /\ b[Len(t) + 1] = i /\ \A k \in 1..Len(t) : b[k] = t[k]
  OBVIOUS
<1> HIDE DEF a, b
<1>3. Len(a) <= Len(b) /\ Len(b) - Len(a) = Len(t) - Len(s)
  BY <1>1, <1>2
<1>4. ASSUME NEW k \in 1..(Len(s) + 1)
      PROVE  a[k] = b[(Len(t) - Len(s)) + k]
  <2>1. CASE k = Len(s) + 1
    <3>1. (Len(t) - Len(s)) + k = Len(t) + 1
      BY <1>1, <2>1
    <3> QED
      BY <1>2, <2>1, <3>1
  <2>2. CASE k # Len(s) + 1
    <3>1. k \in 1..Len(s) /\ (Len(t) - Len(s)) + k \in 1..Len(t)
      BY <1>1, <2>2
    <3> QED
      BY <1>1, <1>2, <3>1
  <2> QED
    BY <2>1, <2>2
<1> QED
  BY <1>2, <1>3, <1>4 DEF EndsWith, a, b

LEMMA SameSeq ==
  ASSUME NEW S, NEW s \in Seq(S), NEW t \in Seq(S), Len(s) = Len(t),
         \A k \in 1..Len(s) : s[k] = t[k]
  PROVE  s = t
<1>1. s = [k \in 1..Len(s) |-> s[k]] /\ t = [k \in 1..Len(t) |-> t[k]]
  OBVIOUS
<1> QED
  BY <1>1

\* What was read since the last init() or reset().
LEMMA FreshTyped ==
  ASSUME NEW S, got \in Seq(S), base \in 0..Len(got)
  PROVE  /\ Fresh \in Seq(S) /\ Len(Fresh) = Len(got) - base /\ Len(got) \in Nat
         /\ \A k \in 1..(Len(got) - base) : Fresh[k] = got[base + k] /\ base + k \in DOMAIN got
BY DEF Fresh

LEMMA FreshMore ==
  ASSUME NEW S, got \in Seq(S), base \in 0..Len(got), NEW i \in S,
         got' = Append(got, i), base' = base
  PROVE  Fresh' = Append(Fresh, i)
<1> DEFINE g == Append(got, i)
           a == SubSeq(g, base + 1, Len(g))
           b == Append(Fresh, i)
<1>1. /\ Fresh \in Seq(S) /\ Len(Fresh) = Len(got) - base /\ Len(got) \in Nat
      /\ \A k \in 1..(Len(got) - base) : Fresh[k] = got[base + k] /\ base + k \in DOMAIN got
  BY FreshTyped
<1>2. /\ g \in Seq(S) /\ Len(g) = Len(got) + 1 /\ g[Len(got) + 1] = i
      /\ \A k \in DOMAIN got : g[k] = got[k]
  OBVIOUS
<1> HIDE DEF g
<1>3. /\ a \in Seq(S) /\ Len(a) = (Len(got) + 1) - base
      /\ \A k \in 1..((Len(got) + 1) - base) : a[k] = g[base + k]
  BY <1>1, <1>2
<1>4. /\ b \in Seq(S) /\ Len(b) = (Len(got) - base) + 1 /\ b[(Len(got) - base) + 1] = i
      /\ \A k \in 1..(Len(got) - base) : b[k] = Fresh[k]
  BY <1>1
<1> HIDE DEF a, b
<1>5. ASSUME NEW k \in 1..((Len(got) + 1) - base) PROVE a[k] = b[k]
  <2>1. CASE k = (Len(got) + 1) - base
    <3>1. base + k = Len(got) + 1 /\ k = (Len(got) - base) + 1
      BY <1>1, <2>1
    <3> QED
      BY <1>2, <1>3, <1>4, <3>1
  <2>2. CASE k # (Len(got) + 1) - base
    <3>1. k \in 1..(Len(got) - base)
      BY <1>1, <2>2
    <3> QED
      BY <1>1, <1>2, <1>3, <1>4, <3>1
  <2> QED
    BY <2>1, <2>2
<1>6. a = b
  <2>1. Len(a) = Len(b) /\ Len(a) = (Len(got) + 1) - base
    BY <1>1, <1>3, <1>4
  <2>2. ASSUME NEW k \in 1..Len(a) PROVE a[k] = b[k]
    BY <1>5, <2>1
  <2>3. a \in Seq(S) /\ b \in Seq(S)
    BY <1>3, <1>4
  <2> QED
    BY <2>1, <2>2, <2>3, SameSeq
<1> QED
  BY <1>6 DEF Fresh, a, b, g

LEMMA FreshNone ==
  ASSUME NEW S, got \in Seq(S), got' = got, base' = Len(got)
  PROVE  Fresh' = <<>>
BY DEF Fresh

Lined(o) == FlattenSeq(ItemsIn(o))

Lines(o, kept, S) ==
  /\ kept \in Seq(S) /\ IsSeq(o) /\ ItemsIn(o) \in Seq(Seq(S)) /\ Lined(o) \in Seq(S)

\* What a line buffer emitted and keeps is what it read.
LinesKept(o, m, g, new) ==
  /\ DOMAIN m = {"kept"} /\ m.kept \in Seq(Item)
  /\ IsSeq(o) /\ ItemsIn(o) \in Seq(Seq(Item)) /\ Lined(o) \in Seq(Item)
  /\ EndsWith(Lined(o) \o m.kept, new)
  /\ Len(Lined(o) \o m.kept) <= Len(g)

LinesInv ==
  node.type = "line_buffer" /\ starts # 0 => LinesKept(out, mem, got, Fresh)

\* The lines are flushed, or not.
FlushOf(o, kept, o1, kept1) ==
  \/ o1 = o /\ kept1 = kept
  \/ \E form : o1 = Append(o, Emission(kept, <<"out">>, form)) /\ kept1 = <<>>

LEMMA LineTurn ==
  ASSUME LineBuffer, DOMAIN mem = {"kept"}
  PROVE  /\ DOMAIN mem' = {"kept"} /\ base' = base
         /\ \/ /\ got' = Append(got, Head(pipe[Head(pass)])) /\ pipe[Head(pass)] # <<>>
               /\ FlushOf(out, Append(mem.kept, Head(pipe[Head(pass)])), out', mem'.kept)
            \/ got' = got /\ FlushOf(out, mem.kept, out', mem'.kept)
<1> DEFINE p == Head(pass)
           i == Head(pipe[p])
           Rest(s) == IF Len(pass) = 1 /\ s.pc = "loop" THEN LineEnd(s) ELSE s
           kept == Append(mem.kept, i)
           t == LineTake(Self, p, i)
<1>1. /\ base' = base
      /\ \/ pipe[p] # <<>> /\ Becomes(Rest(t)) /\ got' = Append(got, i)
         \/ Becomes(Rest(Self)) /\ got' = got
  BY DEF LineBuffer, Poll
<1>2. /\ DOMAIN Self = {"mem", "local", "out", "pc"} /\ Self.mem = mem /\ Self.out = out
      /\ Self.pc = pc
  BY DEF Self
<1>3. /\ DOMAIN t = {"mem", "local", "out", "pc"} /\ DOMAIN t.mem = {"kept"} /\ t.local = Seen
      /\ FlushOf(out, kept, t.out, t.mem.kept)
  BY DEF LineTake, Flush, Give, FlushOf, Self
<1> HIDE DEF t, kept
<1>4. DOMAIN Rest(t).mem = {"kept"} /\ FlushOf(out, kept, Rest(t).out, Rest(t).mem.kept)
  BY <1>3 DEF LineEnd
<1>5. /\ DOMAIN Rest(Self).mem = {"kept"}
      /\ FlushOf(out, mem.kept, Rest(Self).out, Rest(Self).mem.kept)
  BY <1>2 DEF LineEnd, Flush, Give, FlushOf
<1> HIDE DEF Rest
<1> QED
  BY <1>1, <1>4, <1>5 DEF Becomes, kept

SameLines(o, kept, o1, kept1) == Lined(o1) \o kept1 = Lined(o) \o kept

\* A flush loses no line.
LEMMA FlushLoses ==
  ASSUME NEW S, NEW o, NEW kept, NEW o1, NEW kept1, Lines(o, kept, S),
         FlushOf(o, kept, o1, kept1)
  PROVE  Lines(o1, kept1, S) /\ SameLines(o, kept, o1, kept1)
<1> USE DEF SameLines
<1>1. CASE o1 = o /\ kept1 = kept
  BY <1>1
<1>2. ASSUME NEW form, o1 = Append(o, Emission(kept, <<"out">>, form)), kept1 = <<>>
      PROVE  Lines(o1, kept1, S) /\ SameLines(o, kept, o1, kept1)
  <2>1. kept \in Seq(S) /\ IsSeq(o) /\ ItemsIn(o) \in Seq(Seq(S)) /\ Lined(o) \in Seq(S)
    BY DEF Lines
  <2>2. ItemsIn(o1) = Append(ItemsIn(o), kept)
    <3>1. Emission(kept, <<"out">>, form).item = kept
      BY DEF Emission
    <3> QED
      BY <1>2, <2>1, <3>1, ItemsAppend
  <2>3. Lined(o1) = Lined(o) \o kept
    BY <2>1, <2>2, FlattenAppend DEF Lined
  <2>4. IsSeq(o1)
    BY <1>2, <2>1, AppendSeq
  <2>5. ItemsIn(o1) \in Seq(Seq(S))
    BY <2>1, <2>2
  <2>6. ASSUME NEW a \in Seq(S), NEW c \in Seq(S)
        PROVE  a \o c \in Seq(S) /\ (a \o c) \o <<>> = a \o c /\ <<>> \in Seq(S)
    OBVIOUS
  <2>7. /\ Lined(o) \o kept \in Seq(S) /\ <<>> \in Seq(S)
        /\ (Lined(o) \o kept) \o <<>> = Lined(o) \o kept
    BY <2>1, <2>6
  <2> QED
    BY <1>2, <2>3, <2>4, <2>5, <2>7 DEF Lines
<1> QED
  BY <1>1, <1>2 DEF FlushOf

LEMMA LinesStep ==
  ASSUME node \in AllTypes, node' = node, BufferTyped, BufferTyped', LinesInv, [Next]_vars
  PROVE  LinesInv'
<1> SUFFICES ASSUME node.type = "line_buffer", starts' # 0 PROVE LinesInv'
  BY DEF LinesInv
<1>1. /\ node.type \in BufferNames /\ node.type # "gate" /\ node.type \notin Windows
      /\ node.type \in Resettable
  BY DEF BufferNames, Windows, Resettable
<1>2. /\ pass \in Seq(NodePorts) /\ got \in Seq(Item) /\ base \in 0..Len(got)
      /\ pc \in {"none", "loop", "cancelIn", "ended"}
      /\ pipe \in [NodePorts -> Seq(Item)]
      /\ starts = 0 => NotYet
      /\ life # "running" => pc = "none"
  BY <1>1 DEF BufferTyped
<1>0. Item' = Item /\ Len(got) \in Nat
  <2>1. Len(got) \in Nat
    BY <1>2
  <2> QED
    BY <2>1 DEF Item, NodePorts
<1>3. starts # 0 => LinesKept(out, mem, got, Fresh)
  BY DEF LinesInv
<1>4. SUFFICES LinesKept(out', mem', got', Fresh')
  BY <1>0 DEF LinesInv, LinesKept
<1>5. CASE starts # 0 /\ UNCHANGED <<mem, out, got, base>>
  BY <1>3, <1>5 DEF Fresh
<1>6. ASSUME mem' = [kept |-> <<>>], IsSeq(out), ItemsIn(out) \in Seq(Seq(Item)),
             Lined(out) \in Seq(Item), Len(Lined(out)) <= Len(got),
             out' = out, got' = got, base' = Len(got)
      PROVE  LinesKept(out', mem', got', Fresh')
  <2>1. Fresh' = <<>>
    BY <1>2, <1>6, FreshNone
  <2>2. mem'.kept = <<>> /\ DOMAIN mem' = {"kept"}
    BY <1>6
  <2>3. Lined(out) \o <<>> = Lined(out) /\ <<>> \in Seq(Item) /\ Len(Lined(out)) \in Nat
    BY <1>6
  <2>4. EndsWith(Lined(out), <<>>)
    BY <2>3 DEF EndsWith
  <2> QED
    BY <1>6, <2>1, <2>2, <2>3, <2>4 DEF LinesKept
<1>7. IsSeq(out) /\ ItemsIn(out) \in Seq(Seq(Item)) /\ Lined(out) \in Seq(Item)
      /\ Len(Lined(out)) <= Len(got)
  <2>1. CASE starts = 0
    <3>1. out = <<>> /\ ItemsIn(out) = <<>>
      BY <1>2, <2>1 DEF NotYet, ItemsIn
    <3>2. FlattenSeq(<<>>) = <<>>
      BY DEF FlattenSeq
    <3>3. Lined(out) = <<>> /\ IsSeq(out)
      BY <3>1, <3>2, NoneIsSeq DEF Lined
    <3>4. <<>> \in Seq(Item) /\ <<>> \in Seq(Seq(Item)) /\ Len(<<>>) = 0
      OBVIOUS
    <3> QED
      <4>1. Len(Lined(out)) <= Len(got)
        BY <1>0, <3>3, <3>4
      <4> QED
        BY <3>1, <3>3, <3>4, <4>1, Zenon
  <2>2. CASE starts # 0
    <3>1. /\ IsSeq(out) /\ ItemsIn(out) \in Seq(Seq(Item)) /\ Lined(out) \in Seq(Item)
          /\ mem.kept \in Seq(Item) /\ Len(Lined(out) \o mem.kept) <= Len(got)
      BY <1>3, <2>2 DEF LinesKept
    <3>2. Len(Lined(out) \o mem.kept) = Len(Lined(out)) + Len(mem.kept) /\ Len(mem.kept) \in Nat
          /\ Len(Lined(out)) \in Nat
      BY <3>1
    <3> QED
      BY <1>0, <3>1, <3>2
  <2> QED
    BY <2>1, <2>2
<1>8. CASE Aside
  BY <1>5, <1>8 DEF Aside, lifeVars
<1>9. CASE Start(BufferMem, BufferLocal)
  <2>1. BufferMem = [kept |-> <<>>]
    BY <1>1 DEF BufferMem
  <2> QED
    BY <1>6, <1>7, <1>9, <2>1 DEF Start
<1>10. CASE Resume(BufferLocal) \/ Pause \/ Stop
  BY <1>2, <1>5, <1>10 DEF Resume, Pause, Stop, dataVars, NotYet
<1>11. CASE BufferCall
  <2>1. Reset(Emptied) /\ life # "stopped"
    BY <1>1, <1>11 DEF BufferCall, Resize
  <2>2. starts # 0
    BY <1>2, <2>1 DEF NotYet
  <2>3. mem' = [kept |-> <<>>]
    BY <1>3, <2>1, <2>2 DEF Reset, Emptied, LinesKept
  <2> QED
    BY <1>6, <1>7, <2>1, <2>3 DEF Reset
<1>12. CASE BufferStep
  <2>1. LineBuffer
    BY <1>12
       DEF BufferStep, Fifo, Lifo, Stack, Table, LineSplitter, Rolling, SyncBarrier, And, Or, Nand,
           Nor, Xor, Xnor, LogicGate, QueueGate, GateWait, GateCancelled, GateGet, ParkedGet
  <2>2. pc = "loop" /\ pass # <<>> /\ starts # 0
    BY <1>2, <2>1 DEF LineBuffer, Poll, NotYet
  <2>3. /\ DOMAIN mem = {"kept"} /\ mem.kept \in Seq(Item)
        /\ EndsWith(Lined(out) \o mem.kept, Fresh)
        /\ Len(Lined(out) \o mem.kept) <= Len(got)
        /\ Fresh \in Seq(Item)
        /\ Lined(out) \o mem.kept \in Seq(Item)
    BY <1>2, <1>3, <1>7, <2>2, FreshTyped DEF LinesKept
  <2> DEFINE i == Head(pipe[Head(pass)])
             old == Lined(out) \o mem.kept
             new == Lined(out') \o mem'.kept
  <2>4. pipe[Head(pass)] # <<>> => i \in Item
    BY <1>2, <2>2
  <2>5. CASE /\ got' = Append(got, i) /\ pipe[Head(pass)] # <<>>
             /\ FlushOf(out, Append(mem.kept, i), out', mem'.kept)
    <3>1. i \in Item /\ Append(mem.kept, i) \in Seq(Item)
      BY <2>3, <2>4, <2>5
    <3>2. /\ mem'.kept \in Seq(Item) /\ IsSeq(out') /\ ItemsIn(out') \in Seq(Seq(Item))
          /\ Lined(out') \in Seq(Item)
          /\ new = Lined(out) \o Append(mem.kept, i)
      <4>1. Lines(out, Append(mem.kept, i), Item)
        BY <1>7, <3>1 DEF Lines
      <4>2. /\ Lines(out', mem'.kept, Item)
            /\ SameLines(out, Append(mem.kept, i), out', mem'.kept)
        BY <2>5, <4>1, FlushLoses
      <4> QED
        BY <4>2 DEF Lines, SameLines
    <3>3. Lined(out) \o Append(mem.kept, i) = Append(old, i)
      BY <1>7, <2>3, <3>1
    <3>4. Fresh' = Append(Fresh, i) /\ DOMAIN mem' = {"kept"}
      BY <1>2, <2>1, <2>3, <2>5, <3>1, LineTurn, FreshMore
    <3>5. Len(got') = Len(got) + 1 /\ Len(Append(old, i)) = Len(old) + 1 /\ Len(old) \in Nat
      BY <1>2, <2>3, <2>5, <3>1
    <3>6. EndsWith(new, Fresh')
      BY <2>3, <3>1, <3>2, <3>3, <3>4, EndsAppend
    <3>7. Len(new) <= Len(got')
      BY <1>2, <2>3, <3>2, <3>3, <3>5
    <3> QED
      BY <3>2, <3>4, <3>6, <3>7 DEF LinesKept
  <2>6. CASE got' = got /\ FlushOf(out, mem.kept, out', mem'.kept)
    <3>1. /\ mem'.kept \in Seq(Item) /\ IsSeq(out') /\ ItemsIn(out') \in Seq(Seq(Item))
          /\ Lined(out') \in Seq(Item)
          /\ new = old
      <4>1. Lines(out, mem.kept, Item)
        BY <1>7, <2>3 DEF Lines
      <4>2. Lines(out', mem'.kept, Item) /\ SameLines(out, mem.kept, out', mem'.kept)
        BY <2>6, <4>1, FlushLoses
      <4> QED
        BY <4>2 DEF Lines, SameLines
    <3>2. Fresh' = Fresh /\ DOMAIN mem' = {"kept"}
      BY <2>1, <2>3, <2>6, LineTurn DEF Fresh
    <3> QED
      BY <2>3, <2>6, <3>1, <3>2 DEF LinesKept
  <2> QED
    BY <2>1, <2>3, <2>5, <2>6, LineTurn
<1> QED
  BY <1>1, <1>2, <1>8, <1>9, <1>10, <1>11, <1>12, BufferNext DEF BufferChange

LEMMA LinesMeaning == ASSUME BufferTyped, LinesInv PROVE NoLineLost
<1> SUFFICES ASSUME node.type = "line_buffer", life # "stopped" PROVE NoLineLost
  BY DEF NoLineLost
<1>1. /\ got \in Seq(Item) /\ base \in 0..Len(got)
      /\ starts # 0
  BY DEF BufferTyped, BufferNames, NotYet
<1>2. LinesKept(out, mem, got, Fresh)
  BY <1>1 DEF LinesInv
<1>3. Fresh \in Seq(Item) /\ Lined(out) \o mem.kept \in Seq(Item)
  BY <1>1, <1>2, FreshTyped DEF LinesKept
<1> QED
  BY <1>2, <1>3, SuffixMeaning DEF NoLineLost, LinesKept, Lined, ItemsIn

-----------------------------------------------------------------------------
(* Rolling windows.                                                        *)

ReadOf(g, p) == {k \in DOMAIN g : g[k].port = p}

LEMMA ReadMore ==
  ASSUME NEW S, NEW g \in Seq(S), NEW i \in S, NEW p
  PROVE  /\ Cardinality(ReadOf(g, p)) \in Nat
         /\ Cardinality(ReadOf(Append(g, i), p)) =
              Cardinality(ReadOf(g, p)) + (IF i.port = p THEN 1 ELSE 0)
<1> DEFINE h == Append(g, i)
<1>1. /\ DOMAIN g = 1..Len(g) /\ Len(g) \in Nat /\ DOMAIN h = 1..(Len(g) + 1)
      /\ \A k \in 1..Len(g) : h[k] = g[k]
      /\ h[Len(g) + 1] = i
  OBVIOUS
<1> HIDE DEF h
<1>2. IsFiniteSet(ReadOf(g, p))
  <2>1. IsFiniteSet(1..Len(g))
    BY <1>1, FS_Interval
  <2>2. ReadOf(g, p) \subseteq 1..Len(g)
    BY <1>1 DEF ReadOf
  <2> QED
    BY <2>1, <2>2, FS_Subset
<1>3. CASE i.port = p
  <2>1. ReadOf(h, p) = ReadOf(g, p) \cup {Len(g) + 1} /\ Len(g) + 1 \notin ReadOf(g, p)
    BY <1>1, <1>3 DEF ReadOf
  <2> HIDE DEF ReadOf
  <2> QED
    BY <1>2, <1>3, <2>1, FS_AddElement, FS_CardinalityType DEF h
<1>4. CASE i.port # p
  <2>1. ReadOf(h, p) = ReadOf(g, p)
    BY <1>1, <1>4 DEF ReadOf
  <2> HIDE DEF ReadOf
  <2> QED
    BY <1>2, <1>4, <2>1, FS_CardinalityType DEF h
<1> QED
  BY <1>3, <1>4

\* The flushes that a one-shot choice decided.
Flips(o) == {k \in DOMAIN o : o[k].form # node.opt.retain}
Pending(where, l) == IF where = "loop" /\ l = Seen THEN 1 ELSE 0
Choice(m) == IF m # <<>> /\ m.retain # <<>> THEN 1 ELSE 0

\* A trigger that waits is of this turn, and the last of it.
RollingInv ==
  node.type = "rolling" =>
    /\ IsSeq(out) /\ IsFiniteSet(Flips(out))
    /\ starts = 0 => got = <<>>
    /\ starts # 0 => DOMAIN mem = {"kept", "size", "retain"}
    /\ pc \in {"none", "loop"}
    /\ turn = <<>> => pass = <<>>
    /\ pc = "loop" => local \in {Seen, Unseen}
    /\ pc = "loop" /\ local = Seen => turn # <<>> /\ \A k \in DOMAIN pass : pass[k] # "trigger"
    /\ Len(out) + Pending(pc, local) <= Cardinality(ReadOf(got, "trigger"))
    /\ Cardinality(ReadOf(got, "trigger")) <= Len(out) + Pending(pc, local) + cuts
    /\ Cardinality(Flips(out)) + Choice(mem) <= Cardinality(ReadOf(got, "retain"))

\* What a poll makes of the choice r and the trigger l.
RollingPoll(l, r) ==
  /\ pc = "loop" /\ pc' = "loop" /\ pass # <<>>
  /\ DOMAIN mem' = {"kept", "size", "retain"}
  /\ IF Len(pass) > 1
     THEN /\ pass' = Tail(pass) /\ turn' = turn
          /\ local' = l /\ mem'.retain = r /\ out' = out
     ELSE /\ turn' = NextTurn /\ pass' = turn'
          /\ local' = Unseen
          /\ IF l = Unseen THEN mem'.retain = r /\ out' = out
             ELSE /\ mem'.retain = <<>>
                  /\ \E kept : out' = Append(out, Emission(kept, <<"history">>,
                                 IF r # <<>> THEN r[1] ELSE node.opt.retain))

LEMMA RollingTurn ==
  ASSUME Rolling, Len(pass) \in Nat, Len(pass) # 0, DOMAIN mem = {"kept", "size", "retain"},
         local \in {Seen, Unseen}, Head(pass) \in {"in", "trigger", "retain"}
  PROVE  \/ UNCHANGED got /\ RollingPoll(local, mem.retain)
         \/ /\ pipe[Head(pass)] # <<>> /\ got' = Append(got, Head(pipe[Head(pass)]))
            /\ RollingPoll(IF Head(pass) = "trigger" THEN Seen ELSE local,
                           IF Head(pass) = "retain" THEN <<Head(pipe[Head(pass)]).ok>>
                           ELSE mem.retain)
<1> DEFINE p == Head(pass)
           i == Head(pipe[p])
           Rest(s) == IF Len(pass) = 1 /\ s.pc = "loop" THEN RollingEnd(s) ELSE s
           t == RollingTake(Self, p, i)
           l == IF p = "trigger" THEN Seen ELSE local
           r == IF p = "retain" THEN <<i.ok>> ELSE mem.retain
           Fields == {"mem", "local", "out", "pc"}
           Parts == {"kept", "size", "retain"}
           After(s, a, b) ==
             /\ s.pc = "loop" /\ DOMAIN s.mem = Parts
             /\ IF Len(pass) > 1 THEN s.local = a /\ s.mem.retain = b /\ s.out = out
                ELSE /\ s.local = Unseen
                     /\ IF a = Unseen THEN s.mem.retain = b /\ s.out = out
                        ELSE /\ s.mem.retain = <<>>
                             /\ \E kept : s.out = Append(out, Emission(kept, <<"history">>,
                                            IF b # <<>> THEN b[1] ELSE node.opt.retain))
<1>1. /\ pc = "loop" /\ pass # <<>>
      /\ \/ pipe[p] # <<>> /\ Becomes(Rest(t)) /\ got' = Append(got, i)
         \/ Becomes(Rest(Self)) /\ got' = got
      /\ IF pc' = "loop" /\ Len(pass) > 1
         THEN pass' = Tail(pass) /\ UNCHANGED turn
         ELSE turn' = (IF pc' = "loop" THEN NextTurn ELSE <<>>) /\ pass' = turn'
  BY DEF Rolling, Poll
<1>2. /\ DOMAIN Self = Fields /\ Self.mem = mem /\ Self.out = out /\ Self.pc = "loop"
      /\ Self.local = local
  BY <1>1 DEF Self
<1>3. /\ DOMAIN t = Fields /\ DOMAIN t.mem = Parts /\ t.local = l /\ t.mem.retain = r
      /\ t.out = out /\ t.pc = "loop"
  BY <1>1 DEF RollingTake, Self
<1>4. ASSUME NEW s, DOMAIN s = Fields, DOMAIN s.mem = Parts, s.out = out, s.pc = "loop",
             s.local \in {Seen, Unseen}
      PROVE  After(Rest(s), s.local, s.mem.retain)
  <2>1. CASE Len(pass) > 1
    BY <1>4, <2>1
  <2>2. CASE Len(pass) = 1 /\ s.local = Unseen
    BY <1>4, <2>2 DEF RollingEnd
  <2>3. CASE Len(pass) = 1 /\ s.local # Unseen
    <3> DEFINE keep == IF s.mem.retain # <<>> THEN s.mem.retain[1] ELSE node.opt.retain
               e == Emission(s.mem.kept, <<"history">>, keep)
               u == [s EXCEPT !.local = Unseen, !.mem.retain = <<>>,
                              !.mem.kept = IF keep THEN @ ELSE <<>>]
    <3>1. /\ DOMAIN u = Fields /\ u.local = Unseen /\ u.pc = "loop" /\ u.out = out
          /\ DOMAIN u.mem = Parts /\ u.mem.retain = <<>>
      BY <1>4
    <3>2. Rest(s) = [u EXCEPT !.out = Append(@, e)]
      BY <1>4, <2>3 DEF RollingEnd, Give
    <3> HIDE DEF u, e
    <3>3. /\ Rest(s).local = Unseen /\ Rest(s).pc = "loop" /\ Rest(s).out = Append(out, e)
          /\ DOMAIN Rest(s).mem = Parts /\ Rest(s).mem.retain = <<>>
      BY <3>1, <3>2
    <3> HIDE DEF Rest
    <3> QED
      BY <1>4, <2>3, <3>3 DEF e
  <2> QED
    BY <2>1, <2>2, <2>3
<1>5. l \in {Seen, Unseen}
  OBVIOUS
<1> HIDE DEF t, Rest, After
<1>6. After(Rest(t), l, r) /\ After(Rest(Self), local, mem.retain)
  BY <1>2, <1>3, <1>4, <1>5
<1>7. ASSUME NEW s, NEW a, NEW b, After(s, a, b), Becomes(s) PROVE RollingPoll(a, b)
  BY <1>1, <1>7 DEF Becomes, RollingPoll, After
<1> QED
  BY <1>1, <1>6, <1>7

LEMMA FlipsMore ==
  ASSUME IsSeq(out), IsFiniteSet(Flips(out)), NEW e
  PROVE  /\ IsFiniteSet(Flips(Append(out, e)))
         /\ Cardinality(Flips(out)) \in Nat /\ Cardinality(Flips(Append(out, e))) \in Nat
         /\ Cardinality(Flips(Append(out, e))) <= Cardinality(Flips(out)) + 1
         /\ e.form = node.opt.retain =>
              Cardinality(Flips(Append(out, e))) <= Cardinality(Flips(out))
<1> DEFINE t == Append(out, e)
<1>1. /\ DOMAIN out = 1..Len(out) /\ Len(out) \in Nat /\ DOMAIN t = 1..(Len(out) + 1)
      /\ \A k \in 1..Len(out) : t[k] = out[k]
      /\ t[Len(out) + 1] = e
  BY AppendSeq
<1> HIDE DEF t
<1>2. Flips(t) \subseteq Flips(out) \cup {Len(out) + 1}
  BY <1>1 DEF Flips
<1>3. e.form = node.opt.retain => Flips(t) \subseteq Flips(out)
  BY <1>1 DEF Flips
<1> HIDE DEF Flips
<1> QED
  BY <1>2, <1>3, AddedOne DEF t

LEMMA RollingStep ==
  ASSUME node \in AllTypes, node' = node, BufferTyped, BufferTyped', BufferLines, RollingInv,
         [Next]_vars
  PROVE  RollingInv'
<1> SUFFICES ASSUME node.type = "rolling" PROVE RollingInv'
  BY DEF RollingInv
<1>1. /\ node.type \in BufferNames /\ node.type # "gate" /\ node.type \notin Resettable
      /\ NodePorts = {"in", "trigger", "retain"} /\ Polled = wired /\ NextTurn = wired
  <2>1. node.type \in BufferNames
    BY DEF BufferNames
  <2> QED
    BY <2>1, BufferPorts DEF Resettable, NodePorts, ToSet
<1>2. /\ pass \in Seq(NodePorts) /\ got \in Seq(Item) /\ cuts \in Nat
      /\ pipe \in [NodePorts -> Seq(Item)] /\ Distinct(pass) /\ Distinct(wired)
      /\ starts = 0 => NotYet
      /\ life # "running" => pc = "none"
      /\ starts \in Nat
  BY <1>1 DEF BufferTyped
<1>3. /\ IsSeq(out) /\ IsFiniteSet(Flips(out))
      /\ starts = 0 => got = <<>>
      /\ starts # 0 => DOMAIN mem = {"kept", "size", "retain"}
      /\ pc \in {"none", "loop"}
      /\ turn = <<>> => pass = <<>>
      /\ pc = "loop" => local \in {Seen, Unseen}
      /\ pc = "loop" /\ local = Seen => turn # <<>> /\ \A k \in DOMAIN pass : pass[k] # "trigger"
      /\ Len(out) + Pending(pc, local) <= Cardinality(ReadOf(got, "trigger"))
      /\ Cardinality(ReadOf(got, "trigger")) <= Len(out) + Pending(pc, local) + cuts
      /\ Cardinality(Flips(out)) + Choice(mem) <= Cardinality(ReadOf(got, "retain"))
  BY DEF RollingInv
<1>4. /\ Len(out) \in Nat /\ Cardinality(Flips(out)) \in Nat
      /\ Pending(pc, local) \in {0, 1} /\ Choice(mem) \in {0, 1}
      /\ \A p : Cardinality(ReadOf(got, p)) \in Nat
  <2>1. Cardinality(Flips(out)) \in Nat
    BY <1>3, FS_CardinalityType
  <2>2. Len(out) \in Nat
    BY <1>3, AppendSeq
  <2>3. ASSUME NEW p PROVE Cardinality(ReadOf(got, p)) \in Nat
    <3>1. IsFiniteSet(1..Len(got)) /\ ReadOf(got, p) \subseteq 1..Len(got)
      BY <1>2, FS_Interval DEF ReadOf
    <3> QED
      BY <3>1, FS_Subset, FS_CardinalityType
  <2> QED
    BY <2>1, <2>2, <2>3 DEF Pending, Choice
<1>5. Flips(out)' = Flips(out')
  BY DEF Flips
<1>6. CASE Aside
  <2>1. UNCHANGED <<starts, cuts, pc, local, mem, out, got>>
    BY <1>6 DEF Aside, lifeVars
  <2>2. \/ UNCHANGED <<turn, pass>>
        \/ turn = <<>> /\ pc = "loop" /\ turn' = pass'
    BY <1>6 DEF Aside, Wire, Send, Wake, loopVars
  <2> QED
    BY <1>3, <2>1, <2>2 DEF RollingInv, Flips
<1>7. CASE Start(BufferMem, BufferLocal)
  <2>1. /\ BufferMem = [kept |-> <<>>, size |-> node.opt.size, retain |-> <<>>]
        /\ BufferLocal = Unseen
    BY Zenon DEF BufferMem, BufferLocal, Windows
  <2>2. /\ mem' = BufferMem /\ local' = Unseen /\ pc' = "loop" /\ turn' = pass'
        /\ starts' = starts + 1 /\ UNCHANGED <<out, got, cuts>> /\ pc # "loop"
    BY <1>2, <1>7, <2>1 DEF Start, Enter
  <2>3. DOMAIN mem' = {"kept", "size", "retain"} /\ mem'.retain = <<>>
    BY <2>1, <2>2
  <2>4. Pending(pc', local') = 0 /\ Pending(pc, local) = 0 /\ Choice(mem') = 0
    BY <2>2, <2>3, SeenIsNot DEF Pending, Choice
  <2>5. Cardinality(Flips(out)) <= Cardinality(ReadOf(got, "retain"))
    BY <1>3, <1>4
  <2> QED
    BY <1>2, <1>3, <1>4, <2>2, <2>3, <2>4, <2>5, SeenIsNot DEF RollingInv, Flips
<1>8. CASE Resume(BufferLocal)
  <2>1. /\ UNCHANGED <<starts, cuts, mem, out, got>> /\ pc' = "loop" /\ turn' = pass'
        /\ local' = Unseen /\ pc # "loop"
    BY <1>2, <1>8 DEF Resume, Enter, dataVars, BufferLocal
  <2>2. Pending(pc', local') = 0 /\ Pending(pc, local) = 0
    BY <2>1, SeenIsNot DEF Pending
  <2> QED
    BY <1>3, <1>4, <2>1, <2>2, SeenIsNot DEF RollingInv, Flips
<1>9. CASE Pause \/ Stop
  <2>1. /\ UNCHANGED <<starts, mem, out, got>> /\ pc' = "none" /\ turn' = pass' /\ cuts' = cuts + 1
    BY <1>9 DEF Pause, Stop, Cancel, Leave, dataVars
  <2>2. Pending(pc', local') = 0
    BY <2>1 DEF Pending
  <2> QED
    BY <1>2, <1>3, <1>4, <2>1, <2>2 DEF RollingInv, Flips
<1>10. CASE BufferCall
  <2>1. PICK n : Resize(n) /\ life # "stopped"
    BY <1>1, <1>10 DEF BufferCall
  <2>2. starts # 0
    BY <1>2, <2>1 DEF NotYet
  <2>3. /\ mem' = [mem EXCEPT !.size = n]
        /\ UNCHANGED <<starts, cuts, pc, turn, pass, local, out, got>>
    BY <2>1 DEF Resize, SetAttribute, loopVars
  <2>4. DOMAIN mem' = {"kept", "size", "retain"} /\ mem'.retain = mem.retain
    BY <1>3, <2>2, <2>3
  <2>5. mem # <<>> /\ mem' # <<>>
    BY <1>3, <2>2, <2>4
  <2> QED
    BY <1>3, <2>2, <2>3, <2>4, <2>5 DEF RollingInv, Flips, Choice
<1>11. CASE BufferStep
  <2>1. Rolling
    BY <1>11
       DEF BufferStep, Fifo, Lifo, Stack, Table, LineSplitter, LineBuffer, SyncBarrier, And, Or,
           Nand, Nor, Xor, Xnor, LogicGate, QueueGate, GateWait, GateCancelled, GateGet, ParkedGet
  <2>2. pc = "loop" /\ pass # <<>> /\ starts # 0 /\ UNCHANGED <<starts, cuts>>
    BY <1>2, <2>1 DEF Rolling, Poll, NotYet, lifeVars
  <2> DEFINE p == Head(pass)
             i == Head(pipe[p])
  <2>3. /\ DOMAIN mem = {"kept", "size", "retain"} /\ mem # <<>>
        /\ local \in {Seen, Unseen} /\ p \in NodePorts /\ Len(pass) \in Nat /\ Len(pass) # 0
        /\ pass[1] = p /\ 1 \in DOMAIN pass
    <3>1. DOMAIN mem = {"kept", "size", "retain"} /\ local \in {Seen, Unseen}
      BY <1>3, <2>2
    <3>2. mem # <<>>
      BY <3>1
    <3>3. Len(pass) \in Nat /\ Len(pass) # 0 /\ pass[1] = p /\ 1 \in DOMAIN pass
      BY <1>2, <2>2
    <3>4. p \in NodePorts
      BY <1>2, <2>2
    <3> QED
      BY <3>1, <3>2, <3>3, <3>4
  <2>4. pipe[p] # <<>> => i \in Item /\ i.port = p
    <3>1. InLine(p)
      BY <1>1, <2>3 DEF BufferLines
    <3>2. pipe[p] # <<>> => i = pipe[p][1] /\ 1 \in DOMAIN pipe[p] /\ i \in Item
      BY <1>2, <2>3
    <3> QED
      BY <3>1, <3>2 DEF InLine
  <2>5. /\ Distinct(Tail(pass)) /\ \A k \in DOMAIN Tail(pass) : Tail(pass)[k] # p
        /\ \A k \in DOMAIN Tail(pass) : k + 1 \in DOMAIN pass /\ Tail(pass)[k] = pass[k + 1]
        /\ turn # <<>>
    <3>1. \A k \in DOMAIN Tail(pass) : k + 1 \in DOMAIN pass /\ Tail(pass)[k] = pass[k + 1]
      BY <1>2, <2>2
    <3> QED
      BY <1>2, <1>3, <2>2, <3>1, DistinctTail
  <2>6. ASSUME NEW l \in {Seen, Unseen}, NEW r, RollingPoll(l, r),
               l = Seen => \A k \in DOMAIN Tail(pass) : Tail(pass)[k] # "trigger",
               Len(out) + Pending(pc, l) <= Cardinality(ReadOf(got', "trigger")),
               Cardinality(ReadOf(got', "trigger")) <= Len(out) + Pending(pc, l) + cuts,
               Cardinality(Flips(out)) + (IF r # <<>> THEN 1 ELSE 0)
                 <= Cardinality(ReadOf(got', "retain")),
               Cardinality(ReadOf(got', "trigger")) \in Nat,
               Cardinality(ReadOf(got', "retain")) \in Nat
        PROVE  RollingInv'
    <3>1. /\ pc' = "loop" /\ DOMAIN mem' = {"kept", "size", "retain"} /\ mem' # <<>>
          /\ Choice(mem') = IF mem'.retain # <<>> THEN 1 ELSE 0
      <4>1. DOMAIN mem' = {"kept", "size", "retain"}
        BY <2>6 DEF RollingPoll
      <4>2. mem' # <<>>
        BY <4>1
      <4> QED
        BY <2>6, <4>1, <4>2 DEF RollingPoll, Choice
    <3>2. CASE Len(pass) > 1
      <4>1. /\ pass' = Tail(pass) /\ turn' = turn /\ local' = l /\ mem'.retain = r /\ out' = out
        BY <2>6, <3>2 DEF RollingPoll
      <4> QED
        BY <1>3, <2>2, <2>5, <2>6, <3>1, <4>1 DEF RollingInv, Flips
    <3>3. CASE Len(pass) <= 1 /\ l = Unseen
      <4>1. turn' = pass' /\ local' = Unseen /\ mem'.retain = r /\ out' = out
        BY <2>3, <2>6, <3>3 DEF RollingPoll
      <4>2. Pending(pc', local') = Pending(pc, l)
        BY <2>2, <3>1, <3>3, <4>1 DEF Pending
      <4> QED
        BY <1>3, <2>2, <2>6, <3>1, <4>1, <4>2, SeenIsNot DEF RollingInv, Flips
    <3>4. CASE Len(pass) <= 1 /\ l = Seen
      <4>1. PICK kept :
              /\ turn' = pass' /\ local' = Unseen /\ mem'.retain = <<>>
              /\ out' = Append(out, Emission(kept, <<"history">>,
                                             IF r # <<>> THEN r[1] ELSE node.opt.retain))
        BY <2>3, <2>6, <3>4, SeenIsNot DEF RollingPoll
      <4> DEFINE e == Emission(kept, <<"history">>, IF r # <<>> THEN r[1] ELSE node.opt.retain)
      <4>2. r = <<>> => e.form = node.opt.retain
        BY DEF Emission
      <4> HIDE DEF e
      <4>3. out' = Append(out, e)
        BY <4>1 DEF e
      <4>4. /\ IsSeq(out') /\ Len(out') = Len(out) + 1
        BY <1>3, <4>3, AppendSeq
      <4>5. /\ IsFiniteSet(Flips(out')) /\ Cardinality(Flips(out')) \in Nat
            /\ Cardinality(Flips(out')) <= Cardinality(Flips(out)) + 1
            /\ r = <<>> => Cardinality(Flips(out')) <= Cardinality(Flips(out))
        BY <1>3, <4>2, <4>3, FlipsMore
      <4>6. Pending(pc', local') = 0 /\ Pending(pc, l) = 1 /\ Choice(mem') = 0
        BY <2>2, <3>1, <3>4, <4>1, SeenIsNot DEF Pending
      <4>7. /\ Len(out') + 0 <= Cardinality(ReadOf(got', "trigger"))
            /\ Cardinality(ReadOf(got', "trigger")) <= Len(out') + 0 + cuts
            /\ Cardinality(Flips(out')) + 0 <= Cardinality(ReadOf(got', "retain"))
        BY <1>2, <1>4, <2>6, <4>4, <4>5, <4>6
      <4>8. Flips(out)' = Flips(out')
        BY DEF Flips
      <4> HIDE DEF Flips
      <4> QED
        BY <2>2, <3>1, <4>1, <4>4, <4>5, <4>6, <4>7, <4>8, SeenIsNot DEF RollingInv
    <3> QED
      BY <2>3, <2>6, <3>2, <3>3, <3>4
  <2>7. CASE got' = got /\ RollingPoll(local, mem.retain)
    <3>1. local = Seen => \A k \in DOMAIN Tail(pass) : Tail(pass)[k] # "trigger"
      BY <1>3, <2>2, <2>5
    <3>2. Choice(mem) = IF mem.retain # <<>> THEN 1 ELSE 0
      BY <2>3 DEF Choice
    <3> QED
      BY <1>3, <1>4, <2>3, <2>6, <2>7, <3>1, <3>2
  <2>8. CASE /\ pipe[p] # <<>> /\ got' = Append(got, i)
             /\ RollingPoll(IF p = "trigger" THEN Seen ELSE local,
                            IF p = "retain" THEN <<i.ok>> ELSE mem.retain)
    <3> DEFINE l == IF p = "trigger" THEN Seen ELSE local
               r == IF p = "retain" THEN <<i.ok>> ELSE mem.retain
    <3>1. i \in Item /\ i.port = p
      BY <2>4, <2>8
    <3>2. \A q : /\ Cardinality(ReadOf(got, q)) \in Nat
                 /\ Cardinality(ReadOf(got', q)) =
                      Cardinality(ReadOf(got, q)) + (IF i.port = q THEN 1 ELSE 0)
      BY <1>2, <2>8, <3>1, ReadMore
    <3>3. l \in {Seen, Unseen}
      BY <2>3
    <3>4. l = Seen => \A k \in DOMAIN Tail(pass) : Tail(pass)[k] # "trigger"
      BY <1>3, <2>2, <2>5
    <3>5. p = "trigger" => Pending(pc, local) = 0 /\ Pending(pc, l) = 1
      BY <1>3, <2>2, <2>3 DEF Pending
    <3>6. p # "trigger" => Pending(pc, l) = Pending(pc, local)
      OBVIOUS
    <3>7. /\ Choice(mem) = IF mem.retain # <<>> THEN 1 ELSE 0
          /\ p = "retain" => r # <<>>
          /\ p # "retain" => r = mem.retain
      BY <2>3 DEF Choice
    <3>8. RollingPoll(l, r)
      BY <2>8
    <3> HIDE DEF l, r, i
    <3>9. /\ Len(out) + Pending(pc, l) <= Cardinality(ReadOf(got', "trigger"))
          /\ Cardinality(ReadOf(got', "trigger")) <= Len(out) + Pending(pc, l) + cuts
          /\ Cardinality(ReadOf(got', "trigger")) \in Nat
      <4>1. CASE p = "trigger"
        BY <1>2, <1>3, <1>4, <3>1, <3>2, <3>5, <4>1
      <4>2. CASE p # "trigger"
        BY <1>2, <1>3, <1>4, <3>1, <3>2, <3>6, <4>2
      <4> QED
        BY <4>1, <4>2
    <3>10. /\ Cardinality(Flips(out)) + (IF r # <<>> THEN 1 ELSE 0)
                <= Cardinality(ReadOf(got', "retain"))
           /\ Cardinality(ReadOf(got', "retain")) \in Nat
      <4>1. CASE p = "retain"
        BY <1>3, <1>4, <3>1, <3>2, <3>7, <4>1
      <4>2. CASE p # "retain"
        BY <1>3, <1>4, <3>1, <3>2, <3>7, <4>2
      <4> QED
        BY <4>1, <4>2
    <3> QED
      BY <2>6, <3>3, <3>4, <3>8, <3>9, <3>10
  <2> QED
    BY <1>1, <2>1, <2>3, <2>7, <2>8, RollingTurn
<1> QED
  BY <1>1, <1>2, <1>3, <1>6, <1>7, <1>8, <1>9, <1>10, <1>11, BufferNext DEF BufferChange

LEMMA RollingMeaning ==
  ASSUME node \in AllTypes, BufferTyped, RollingInv
  PROVE  FlushPerTrigger
<1> SUFFICES ASSUME node.type = "rolling" PROVE FlushPerTrigger
  BY DEF FlushPerTrigger
<1> DEFINE t == Cardinality(ReadOf(got, "trigger"))
           r == Cardinality(ReadOf(got, "retain"))
           f == Cardinality(Flips(out))
<1>1. Triggers = t /\ Retains = r
  BY Zenon DEF Triggers, Retains, ReadOf
<1>2. Cardinality({k \in DOMAIN out : out[k].form # node.opt.retain}) = f
  BY Zenon DEF Flips
<1>3. f \in Nat /\ Choice(mem) \in {0, 1} /\ r \in Nat /\ f + Choice(mem) <= r
  <2>1. f \in Nat
    <3>1. IsFiniteSet(Flips(out))
      BY DEF RollingInv
    <3> QED
      BY <3>1, FS_CardinalityType
  <2>2. IsFiniteSet(1..Len(got)) /\ ReadOf(got, "retain") \subseteq 1..Len(got)
    <3>1. got \in Seq(Item)
      BY DEF BufferTyped, BufferNames
    <3>2. Len(got) \in Nat /\ DOMAIN got = 1..Len(got)
      BY <3>1
    <3> QED
      BY <3>2, FS_Interval DEF ReadOf
  <2>3. r \in Nat
    BY <2>2, FS_Subset, FS_CardinalityType
  <2>4. f + Choice(mem) <= r
    BY DEF RollingInv
  <2> QED
    BY <2>1, <2>3, <2>4 DEF Choice
<1>4. Len(out) + Pending(pc, local) <= t /\ t <= Len(out) + Pending(pc, local) + cuts
  BY DEF RollingInv
<1> HIDE DEF t, r, f
<1>5. f <= r
  BY <1>3
<1> QED
  BY <1>1, <1>2, <1>4, <1>5 DEF FlushPerTrigger, Pending

-----------------------------------------------------------------------------
(* What a queue gate has relayed, and what waits in its queue.             *)

\* An item that was read of the port "in".
Entered(g, i) == i \in Item /\ i.port = "in" /\ \E k \in DOMAIN g : g[k] = i

\* The items relayed came before those that are queued, each in its order.
Row(g, o, q) ==
  /\ IsSeq(o) /\ q \in Seq(Item)
  /\ \A k \in DOMAIN o :
       /\ Entered(g, o[k].item)
       /\ \A j \in DOMAIN o : j < k => o[j].item.n < o[k].item.n
  /\ \A k \in DOMAIN q :
       /\ Entered(g, q[k])
       /\ \A j \in DOMAIN q : j < k => q[j].n < q[k].n
       /\ \A j \in DOMAIN o : o[j].item.n < q[k].n

\* And i comes after them all.
Behind(o, q, i) ==
  /\ \A k \in DOMAIN o : o[k].item.n < i.n
  /\ \A k \in DOMAIN q : q[k].n < i.n

LEMMA EnteredMore ==
  ASSUME NEW g \in Seq(Item), NEW x \in Item, NEW i, Entered(g, i)
  PROVE  Entered(Append(g, x), i)
<1>1. PICK k \in DOMAIN g : g[k] = i
  BY DEF Entered
<1>2. k \in DOMAIN Append(g, x) /\ Append(g, x)[k] = i
  BY <1>1
<1> QED
  BY <1>2 DEF Entered

LEMMA RowMore ==
  ASSUME NEW g \in Seq(Item), NEW x \in Item, NEW o, NEW q, Row(g, o, q)
  PROVE  Row(Append(g, x), o, q)
BY EnteredMore DEF Row

LEMMA RowQueued ==
  ASSUME NEW g, NEW o, NEW q, NEW i, Row(g, o, q), Entered(g, i), Behind(o, q, i)
  PROVE  Row(g, o, Append(q, i))
<1> DEFINE t == Append(q, i)
<1>1. i \in Item /\ q \in Seq(Item) /\ \A k \in DOMAIN q : q[k] \in Item
  BY DEF Row, Entered
<1>2. /\ t \in Seq(Item) /\ DOMAIN t = 1..(Len(q) + 1) /\ DOMAIN q = 1..Len(q) /\ Len(q) \in Nat
      /\ \A k \in 1..Len(q) : t[k] = q[k]
      /\ t[Len(q) + 1] = i
  BY <1>1
<1> HIDE DEF t
<1>3. ASSUME NEW k \in DOMAIN t
      PROVE  /\ Entered(g, t[k])
             /\ \A j \in DOMAIN t : j < k => t[j].n < t[k].n
             /\ \A j \in DOMAIN o : o[j].item.n < t[k].n
  <2>1. CASE k = Len(q) + 1
    <3>1. t[k] = i /\ \A j \in DOMAIN t : j < k => j \in DOMAIN q /\ t[j] = q[j]
      BY <1>2, <2>1
    <3> QED
      BY <3>1 DEF Behind
  <2>2. CASE k # Len(q) + 1
    <3>1. k \in DOMAIN q /\ t[k] = q[k]
      BY <1>2, <1>3, <2>2
    <3>2. \A j \in DOMAIN t : j < k => j \in DOMAIN q /\ t[j] = q[j]
      BY <1>2, <1>3, <3>1
    <3> QED
      BY <3>1, <3>2 DEF Row
  <2> QED
    BY <2>1, <2>2
<1> QED
  BY <1>2, <1>3 DEF Row, t

\* The newest n of a queue.
LEMMA NewestOf ==
  ASSUME NEW S, NEW q \in Seq(S), NEW n \in Nat
  PROVE  \E b \in Nat :
           /\ LastN(q, n) \in Seq(S)
           /\ \A k \in DOMAIN LastN(q, n) :
                k \in Nat /\ k + b \in DOMAIN q /\ LastN(q, n)[k] = q[k + b]
<1> DEFINE a == IF Len(q) > n THEN Len(q) - n + 1 ELSE 1
           t == SubSeq(q, a, Len(q))
<1>1. a \in Nat /\ a >= 1 /\ a - 1 \in Nat
  OBVIOUS
<1>2. LastN(q, n) = t
  BY DEF LastN
<1> HIDE DEF a
<1>3. t \in Seq(S)
  BY <1>1
<1>4. \A k \in DOMAIN t : k \in Nat /\ k + (a - 1) \in DOMAIN q /\ t[k] = q[k + (a - 1)]
  BY <1>1
<1> QED
  BY <1>1, <1>2, <1>3, <1>4

LEMMA RowLast ==
  ASSUME NEW g, NEW o, NEW q, Row(g, o, q), NEW n \in Nat
  PROVE  Row(g, o, LastN(q, n))
<1> DEFINE t == LastN(q, n)
<1>1. q \in Seq(Item)
  BY DEF Row
<1>2. PICK b \in Nat :
        /\ t \in Seq(Item)
        /\ \A k \in DOMAIN t : k \in Nat /\ k + b \in DOMAIN q /\ t[k] = q[k + b]
  BY <1>1, NewestOf
<1> HIDE DEF t
<1>3. ASSUME NEW k \in DOMAIN t, NEW j \in DOMAIN t, j < k PROVE t[j].n < t[k].n
  <2>1. j + b < k + b /\ j + b \in DOMAIN q /\ k + b \in DOMAIN q
    BY <1>2, <1>3
  <2> QED
    BY <1>2, <2>1 DEF Row
<1>4. ASSUME NEW k \in DOMAIN t
      PROVE  Entered(g, t[k]) /\ \A j \in DOMAIN o : o[j].item.n < t[k].n
  BY <1>2 DEF Row
<1> QED
  BY <1>2, <1>3, <1>4 DEF Row, t

LEMMA RowPopped ==
  ASSUME NEW g, NEW o, NEW q, Row(g, o, q), q # <<>>, NEW e, e.item = Head(q)
  PROVE  Row(g, Append(o, e), Tail(q))
<1> DEFINE p == Append(o, e)
           t == Tail(q)
<1>1. q \in Seq(Item) /\ IsSeq(o)
  BY DEF Row
<1>2. /\ t \in Seq(Item)
      /\ \A k \in DOMAIN t : k \in Nat \ {0} /\ k + 1 \in DOMAIN q /\ t[k] = q[k + 1]
      /\ Head(q) = q[1] /\ 1 \in DOMAIN q
  BY <1>1
<1>3. /\ IsSeq(p) /\ DOMAIN p = 1..(Len(o) + 1) /\ DOMAIN o = 1..Len(o) /\ Len(o) \in Nat
      /\ \A k \in 1..Len(o) : p[k] = o[k]
      /\ p[Len(o) + 1] = e
  BY <1>1, AppendSeq
<1> HIDE DEF p, t
<1>4. ASSUME NEW k \in DOMAIN p
      PROVE  /\ Entered(g, p[k].item)
             /\ \A j \in DOMAIN p : j < k => p[j].item.n < p[k].item.n
             /\ \A j \in DOMAIN t : p[k].item.n < t[j].n
  <2>1. CASE k = Len(o) + 1
    <3>1. p[k].item = q[1] /\ \A j \in DOMAIN p : j < k => j \in DOMAIN o /\ p[j] = o[j]
      BY <1>2, <1>3, <2>1
    <3>2. \A j \in DOMAIN t : 1 < j + 1 /\ j + 1 \in DOMAIN q /\ t[j] = q[j + 1]
      BY <1>2
    <3> QED
      BY <1>2, <3>1, <3>2 DEF Row
  <2>2. CASE k # Len(o) + 1
    <3>1. k \in DOMAIN o /\ p[k] = o[k]
      BY <1>3, <1>4, <2>2
    <3>2. \A j \in DOMAIN p : j < k => j \in DOMAIN o /\ p[j] = o[j]
      BY <1>3, <1>4, <3>1
    <3> QED
      BY <1>2, <3>1, <3>2 DEF Row
  <2> QED
    BY <2>1, <2>2
<1>5. ASSUME NEW k \in DOMAIN t
      PROVE  /\ Entered(g, t[k])
             /\ \A j \in DOMAIN t : j < k => t[j].n < t[k].n
  <2>1. \A j \in DOMAIN t : j < k => j + 1 < k + 1
    BY <1>2
  <2> QED
    BY <1>2, <2>1 DEF Row
<1> QED
  BY <1>2, <1>3, <1>4, <1>5 DEF Row, p, t

\* The next item of the port comes after all that the gate knows.
LEMMA RowFetched ==
  ASSUME pipe \in [NodePorts -> Seq(Item)], "in" \in NodePorts, InLine("in"),
         pipe["in"] # <<>>, NEW o, NEW q, Row(got, o, q)
  PROVE  Behind(o, q, Head(pipe["in"])) /\ Head(pipe["in"]) \in Item
         /\ Head(pipe["in"]).port = "in"
<1> DEFINE i == Head(pipe["in"])
<1>1. pipe["in"] \in Seq(Item)
  OBVIOUS
<1>2. i = pipe["in"][1] /\ 1 \in DOMAIN pipe["in"] /\ i \in Item
  BY <1>1
<1>3. i.port = "in" /\ \A j \in DOMAIN got : got[j].port = "in" => got[j].n < i.n
  BY <1>2 DEF InLine
<1> HIDE DEF i
<1>4. \A x : Entered(got, x) => x.n < i.n
  BY <1>3 DEF Entered
<1>5. Behind(o, q, i)
  BY <1>4 DEF Row, Behind
<1> QED
  BY <1>2, <1>3, <1>5 DEF i

\* The items of s read of "in" that are not in H.
Missing(s, H) == {k \in DOMAIN s : s[k].port = "in" /\ s[k] \notin H}

LEMMA MissingTyped ==
  ASSUME NEW S, NEW s \in Seq(S), NEW H
  PROVE  IsFiniteSet(Missing(s, H)) /\ Cardinality(Missing(s, H)) \in Nat
<1>1. IsFiniteSet(1..Len(s)) /\ Missing(s, H) \subseteq 1..Len(s)
  BY FS_Interval DEF Missing
<1> QED
  BY <1>1, FS_Subset, FS_CardinalityType

\* Once each: no two reads of "in" are the same item.
OnceEach(s) ==
  \A j, k \in DOMAIN s : s[j].port = "in" /\ s[k].port = "in" /\ s[j] = s[k] => j = k

\* When H loses no more than x, at most one more item is missing.
LEMMA MissingLess ==
  ASSUME NEW S, NEW s \in Seq(S), OnceEach(s), NEW H, NEW I, NEW x, H \subseteq I \cup {x}
  PROVE  Cardinality(Missing(s, I)) <= Cardinality(Missing(s, H)) + 1
<1>1. IsFiniteSet(Missing(s, H))
  BY MissingTyped
<1>2. PICK k : \A j \in DOMAIN s : s[j].port = "in" /\ s[j] = x => j = k
  BY DEF OnceEach
<1>3. Missing(s, I) \subseteq Missing(s, H) \cup {k}
  BY <1>2 DEF Missing
<1> QED
  BY <1>1, <1>3, AddedOne

LEMMA MissingSame ==
  ASSUME NEW S, NEW s \in Seq(S), NEW H, NEW I, H \subseteq I
  PROVE  Cardinality(Missing(s, I)) <= Cardinality(Missing(s, H))
<1>1. IsFiniteSet(Missing(s, H))
  BY MissingTyped
<1>2. Missing(s, I) \subseteq Missing(s, H)
  BY DEF Missing
<1> QED
  BY <1>1, <1>2, FS_Subset, FS_CardinalityType

\* One more item is read.
LEMMA MissingMore ==
  ASSUME NEW S, NEW s \in Seq(S), NEW i \in S, NEW H, NEW I, H \subseteq I
  PROVE  /\ Cardinality(Missing(Append(s, i), I)) <= Cardinality(Missing(s, H)) + 1
         /\ i.port # "in" \/ i \in I =>
              Cardinality(Missing(Append(s, i), I)) <= Cardinality(Missing(s, H))
<1> DEFINE t == Append(s, i)
<1>1. /\ DOMAIN s = 1..Len(s) /\ Len(s) \in Nat /\ DOMAIN t = 1..(Len(s) + 1)
      /\ \A k \in 1..Len(s) : t[k] = s[k]
      /\ t[Len(s) + 1] = i
  OBVIOUS
<1> HIDE DEF t
<1>2. IsFiniteSet(Missing(s, H))
  BY MissingTyped
<1>3. Missing(t, I) \subseteq Missing(s, H) \cup {Len(s) + 1}
  BY <1>1 DEF Missing
<1>4. i.port # "in" \/ i \in I => Missing(t, I) \subseteq Missing(s, H)
  BY <1>1 DEF Missing
<1> QED
  BY <1>2, <1>3, <1>4, AddedOne DEF t

LEMMA FreshOnce ==
  ASSUME got \in Seq(Item), base \in 0..Len(got), InLine("in")
  PROVE  OnceEach(Fresh)
<1>1. /\ Fresh \in Seq(Item) /\ Len(Fresh) = Len(got) - base /\ Len(got) \in Nat
      /\ \A k \in 1..(Len(got) - base) : Fresh[k] = got[base + k] /\ base + k \in DOMAIN got
  BY FreshTyped
<1>2. ASSUME NEW j \in DOMAIN got, NEW k \in DOMAIN got, j < k,
             got[j].port = "in", got[k].port = "in"
      PROVE  got[j] # got[k]
  <2>1. got[j].n < got[k].n /\ got[k] \in Item
    BY <1>2 DEF InLine
  <2>2. got[k].n \in Nat
    BY <2>1 DEF Item
  <2> QED
    BY <2>1, <2>2
<1>3. ASSUME NEW j \in DOMAIN Fresh, NEW k \in DOMAIN Fresh, j < k,
             Fresh[j].port = "in", Fresh[k].port = "in"
      PROVE  Fresh[j] # Fresh[k]
  <2>1. j \in 1..(Len(got) - base) /\ k \in 1..(Len(got) - base) /\ base + j < base + k
    BY <1>1, <1>3
  <2> QED
    BY <1>1, <1>2, <1>3, <2>1
<1>4. \A j, k \in DOMAIN Fresh : j \in Nat /\ k \in Nat
  BY <1>1
<1> QED
  BY <1>3, <1>4 DEF OnceEach

-----------------------------------------------------------------------------

Queueing(p, l) == p = "loop" /\ "in" \in DOMAIN l.tasks

\* RelayedOrHeld, of what was relayed, what is queued, and the turn.
HeldOf(o, q, p, l) ==
  {o[k].item : k \in DOMAIN o} \cup ToSet(q)
  \cup (IF Queueing(p, l) THEN {l.tasks["in"]} ELSE {})

QueueKept(p, l, m, o, g, new, c) ==
  /\ DOMAIN m = {"kept", "size", "parked"} /\ m.size = node.opt.size
  /\ m.parked \in [{"in", "pop"} -> Nat]
  /\ Row(g, o, m.kept)
  /\ p # "none" => DOMAIN l = {"tasks", "done"} /\ DOMAIN l.tasks \subseteq {"in", "pop"}
  /\ Queueing(p, l) => Entered(g, l.tasks["in"]) /\ Behind(o, m.kept, l.tasks["in"])
  /\ p = "cancelIn" => "in" \notin DOMAIN l.tasks /\ "in" \notin l.done
  /\ node.opt.size = 0 =>
       Cardinality(Missing(new, HeldOf(o, m.kept, p, l))) + m.parked["in"] <= c

\* A gate's items are in a row, and what is missing of them the cuts account
\* for: those whose tasks are parked are yet to be missed.
QueueInv ==
  node.type = "gate" =>
    /\ pc \in {"none", "loop", "cancelIn"}
    /\ starts # 0 => QueueKept(pc, local, mem, out, got, Fresh, cuts)

LEMMA HeadAndTail ==
  ASSUME NEW S, NEW q \in Seq(S), q # <<>>
  PROVE  ToSet(q) \subseteq ToSet(Tail(q)) \cup {Head(q)}
<1> DEFINE t == Tail(q)
<1>1. /\ DOMAIN q = 1..Len(q) /\ Len(q) \in Nat /\ DOMAIN t = 1..(Len(q) - 1)
      /\ \A k \in 1..(Len(q) - 1) : t[k] = q[k + 1]
      /\ Head(q) = q[1]
  OBVIOUS
<1> HIDE DEF t
<1>2. ASSUME NEW k \in DOMAIN q, k # 1 PROVE k - 1 \in DOMAIN t /\ t[k - 1] = q[k]
  BY <1>1, <1>2
<1>3. ASSUME NEW x \in ToSet(q) PROVE x \in ToSet(t) \cup {Head(q)}
  <2>1. PICK k \in DOMAIN q : q[k] = x
    BY DEF ToSet
  <2>2. CASE k = 1
    BY <1>1, <2>1, <2>2
  <2>3. CASE k # 1
    <3>1. k - 1 \in DOMAIN t /\ t[k - 1] = x
      BY <1>2, <2>1, <2>3
    <3> QED
      BY <3>1 DEF ToSet
  <2> QED
    BY <2>2, <2>3
<1> QED
  BY <1>3 DEF t

\* What an item goes through when its turn ends.
LEMMA SettledRow ==
  ASSUME DOMAIN mem = {"kept", "size", "parked"}, mem.size \in Nat, NEW done,
         Row(got, out, mem.kept),
         "in" \in done =>
           Entered(got, local.tasks["in"]) /\ Behind(out, mem.kept, local.tasks["in"])
  PROVE  /\ Settled(done).pc = pc
         /\ DOMAIN Settled(done).mem = {"kept", "size", "parked"}
         /\ Settled(done).mem.size = mem.size /\ Settled(done).mem.parked = mem.parked
         /\ Row(got, Settled(done).out, Settled(done).mem.kept)
         /\ mem.size = 0 =>
              {out[k].item : k \in DOMAIN out} \cup ToSet(mem.kept)
                \cup (IF "in" \in done THEN {local.tasks["in"]} ELSE {})
              \subseteq {Settled(done).out[k].item : k \in DOMAIN Settled(done).out}
                          \cup ToSet(Settled(done).mem.kept)
<1> DEFINE s == Queued(Self, done)
           u == Settled(done)
           i == local.tasks["in"]
           Fields == {"mem", "local", "out", "pc"}
<1>1. /\ Self.mem = mem /\ Self.out = out /\ Self.pc = pc /\ DOMAIN Self = Fields
      /\ Self = [mem |-> mem, local |-> local, out |-> out, pc |-> pc]
  BY DEF Self
<1>2. mem.kept \in Seq(Item) /\ IsSeq(out)
  BY DEF Row
<1>3. /\ s.out = out /\ s.pc = pc /\ DOMAIN s = Fields
      /\ DOMAIN s.mem = {"kept", "size", "parked"}
      /\ s.mem.size = mem.size /\ s.mem.parked = mem.parked
      /\ Row(got, out, s.mem.kept)
      /\ mem.size = 0 =>
           ToSet(mem.kept) \cup (IF "in" \in done THEN {i} ELSE {}) \subseteq ToSet(s.mem.kept)
  <2>1. CASE "in" \notin done
    <3>1. s = Self
      BY <2>1 DEF Queued
    <3> QED
      BY <1>1, <2>1, <3>1
  <2>2. CASE "in" \in done
    <3> DEFINE all == Append(mem.kept, i)
               kept == IF mem.size > 0 THEN LastN(all, mem.size) ELSE all
    <3>1. s = [Self EXCEPT !.mem.kept = kept]
      BY <1>1, <2>2, Zenon DEF Queued
    <3>2. /\ s.out = out /\ s.pc = pc /\ DOMAIN s = Fields
          /\ DOMAIN s.mem = {"kept", "size", "parked"}
          /\ s.mem.size = mem.size /\ s.mem.parked = mem.parked /\ s.mem.kept = kept
      BY <1>1, <3>1
    <3>3. Row(got, out, all)
      BY <2>2, RowQueued
    <3>4. Row(got, out, kept)
      BY <3>3, RowLast
    <3>5. mem.size = 0 => s.mem.kept = all
      BY <3>2
    <3>6. ToSet(mem.kept) \cup {i} \subseteq ToSet(all)
      <4>1. i \in Item
        BY <2>2 DEF Entered
      <4>2. /\ DOMAIN all = 1..(Len(mem.kept) + 1) /\ DOMAIN mem.kept = 1..Len(mem.kept)
            /\ Len(mem.kept) \in Nat /\ all[Len(mem.kept) + 1] = i
            /\ \A k \in 1..Len(mem.kept) : all[k] = mem.kept[k]
        BY <1>2, <4>1
      <4> QED
        BY <4>2 DEF ToSet
    <3> QED
      BY <2>2, <3>2, <3>4, <3>5, <3>6
  <2> QED
    BY <2>1, <2>2
<1>4. u = Popped(s, done)
  BY DEF Settled
<1> HIDE DEF s, u
<1>5. CASE "pop" \notin done \/ s.mem.kept = <<>>
  <2>1. u = s
    BY <1>4, <1>5 DEF Popped
  <2> QED
    BY <1>3, <2>1 DEF u
<1>6. CASE "pop" \in done /\ s.mem.kept # <<>>
  <2> DEFINE e == Emission(Head(s.mem.kept), <<"out">>, "item")
  <2>1. u = Give([s EXCEPT !.mem.kept = Tail(@)], Head(s.mem.kept), <<"out">>, "item")
    BY <1>4, <1>6 DEF Popped
  <2>2. /\ u.out = Append(out, e) /\ u.pc = pc
        /\ DOMAIN u.mem = {"kept", "size", "parked"} /\ u.mem.kept = Tail(s.mem.kept)
        /\ u.mem.size = mem.size /\ u.mem.parked = mem.parked
    BY <1>3, <2>1 DEF Give
  <2>3. e.item = Head(s.mem.kept)
    BY DEF Emission
  <2> HIDE DEF e
  <2>4. Row(got, u.out, u.mem.kept)
    BY <1>3, <1>6, <2>2, <2>3, RowPopped
  <2>5. /\ DOMAIN out \subseteq DOMAIN u.out
        /\ \A k \in DOMAIN out : u.out[k] = out[k]
        /\ \E k \in DOMAIN u.out : u.out[k] = e
    <3>1. /\ DOMAIN out = 1..Len(out) /\ Len(out) \in Nat
          /\ DOMAIN u.out = 1..(Len(out) + 1) /\ u.out[Len(out) + 1] = e
          /\ \A k \in 1..Len(out) : u.out[k] = out[k]
      BY <1>2, <2>2, AppendSeq
    <3> QED
      BY <3>1
  <2>6. ToSet(s.mem.kept) \subseteq ToSet(u.mem.kept) \cup {Head(s.mem.kept)}
    <3>1. s.mem.kept \in Seq(Item)
      BY <1>3 DEF Row
    <3> QED
      BY <1>6, <2>2, <3>1, HeadAndTail
  <2>7. {out[k].item : k \in DOMAIN out} \cup ToSet(s.mem.kept)
          \subseteq {u.out[k].item : k \in DOMAIN u.out} \cup ToSet(u.mem.kept)
    BY <2>3, <2>5, <2>6
  <2> QED
    BY <1>3, <2>2, <2>4, <2>7 DEF u
<1> QED
  BY <1>5, <1>6

GateReady ==
  /\ node.type = "gate" /\ NodePorts = {"in", "pop"} /\ node.opt.size \in Nat
  /\ pipe \in [NodePorts -> Seq(Item)] /\ got \in Seq(Item) /\ base \in 0..Len(got)
  /\ cuts \in Nat /\ starts \in Nat
  /\ Fresh \in Seq(Item) /\ OnceEach(Fresh) /\ InLine("in") /\ InLine("pop")
  /\ starts = 0 => NotYet
  /\ life # "running" => pc = "none"

LEMMA GateIsReady ==
  ASSUME node \in AllTypes, node.type = "gate", BufferTyped, BufferLines
  PROVE  GateReady
<1>1. node.type \in BufferNames
  BY DEF BufferNames
<1>2. node \in BufferTypes /\ node.ports = <<"in", "pop">>
  BY <1>1, BufferPorts
<1>3. node.opt.size \in Nat
  BY <1>2 DEF BufferTypes, BufferType
<1>4. NodePorts = {"in", "pop"}
  BY <1>2 DEF NodePorts, ToSet
<1>5. /\ pipe \in [NodePorts -> Seq(Item)] /\ got \in Seq(Item) /\ base \in 0..Len(got)
      /\ cuts \in Nat /\ starts \in Nat
      /\ starts = 0 => NotYet
      /\ life # "running" => pc = "none"
  BY <1>1 DEF BufferTyped
<1>6. InLine("in") /\ InLine("pop")
  BY <1>1, <1>4 DEF BufferLines
<1> QED
  BY <1>3, <1>4, <1>5, <1>6, FreshTyped, FreshOnce DEF GateReady

LEMMA RowNone ==
  /\ \A g : Row(g, <<>>, <<>>)
  /\ \A g, o, q : Row(g, o, q) => Row(g, o, <<>>)
<1>1. <<>> \in Seq(Item) /\ DOMAIN <<>> = {}
  BY EmptyTyped
<1> QED
  BY <1>1, NoneIsSeq DEF Row

LEMMA MissingNone == ASSUME NEW H PROVE Cardinality(Missing(<<>>, H)) = 0
<1>1. Missing(<<>>, H) = {}
  BY DEF Missing
<1> QED
  BY <1>1, FS_EmptySet

\* The type of the node stays, and with it the items there are.
LEMMA QueueNext ==
  ASSUME node' = node, pc' \in {"none", "loop", "cancelIn"},
         starts' # 0 => QueueKept(pc', local', mem', out', got', Fresh', cuts')
  PROVE  QueueInv'
<1>1. Item' = Item
  BY DEF Item, NodePorts
<1>2. \A g, i : Entered(g, i)' <=> Entered(g, i)
  BY <1>1 DEF Entered
<1>3. \A g, o, q : Row(g, o, q)' <=> Row(g, o, q)
  BY <1>1, <1>2 DEF Row
<1>4. \A p, l, m, o, g, new, c :
        QueueKept(p, l, m, o, g, new, c)' <=> QueueKept(p, l, m, o, g, new, c)
  BY <1>2, <1>3 DEF QueueKept
<1> QED
  BY <1>4 DEF QueueInv

LEMMA QueueStart ==
  ASSUME GateReady, QueueInv, Start(BufferMem, BufferLocal), node' = node
  PROVE  QueueInv'
<1>1. /\ life = "stopped" /\ pc = "none" /\ pc' = "loop" /\ local' = NoTasks
      /\ mem' = BufferMem /\ out' = out /\ got' = got /\ cuts' = cuts /\ base' = Len(got)
  BY DEF Start, Enter, GateReady, BufferLocal
<1>2. BufferMem = [kept |-> <<>>, size |-> node.opt.size,
                   parked |-> IF mem = <<>> THEN [in |-> 0, pop |-> 0] ELSE mem.parked]
  BY Zenon DEF BufferMem, Windows, GateReady
<1>3. /\ DOMAIN mem' = {"kept", "size", "parked"} /\ mem'.kept = <<>>
      /\ mem'.size = node.opt.size
      /\ mem'.parked = IF mem = <<>> THEN [in |-> 0, pop |-> 0] ELSE mem.parked
  BY <1>1, <1>2
<1>4. /\ mem'.parked \in [{"in", "pop"} -> Nat]
      /\ Row(got, out, <<>>)
      /\ node.opt.size = 0 => mem'.parked["in"] <= cuts
  <2>1. CASE starts = 0
    <3>1. mem = <<>> /\ out = <<>> /\ cuts \in Nat
      BY <2>1 DEF GateReady, NotYet
    <3>2. Row(got, out, <<>>)
      BY <3>1, RowNone
    <3>3. mem'.parked = [in |-> 0, pop |-> 0]
      BY <1>3, <3>1
    <3> QED
      BY <3>1, <3>2, <3>3
  <2>2. CASE starts # 0
    <3>1. QueueKept(pc, local, mem, out, got, Fresh, cuts)
      BY <2>2 DEF QueueInv, GateReady
    <3>2. DOMAIN mem = {"kept", "size", "parked"} /\ mem.parked \in [{"in", "pop"} -> Nat]
      BY <3>1 DEF QueueKept
    <3>3. mem # <<>>
      <4>1. DOMAIN mem = {"kept", "size", "parked"}
        BY <3>2
      <4> QED
        BY <4>1
    <3>4. Row(got, out, <<>>)
      BY <3>1, RowNone DEF QueueKept
    <3> DEFINE N == Cardinality(Missing(Fresh, HeldOf(out, mem.kept, pc, local)))
    <3>5. N \in Nat /\ cuts \in Nat
      BY MissingTyped DEF GateReady
    <3>6. node.opt.size = 0 => N + mem.parked["in"] <= cuts
      BY <3>1 DEF QueueKept
    <3> HIDE DEF N
    <3>7. node.opt.size = 0 => mem.parked["in"] <= cuts
      BY <3>2, <3>5, <3>6
    <3> QED
      BY <1>3, <3>2, <3>3, <3>4, <3>7
  <2> QED
    BY <2>1, <2>2
<1>5. Fresh' = <<>>
  BY <1>1, FreshNone DEF GateReady
<1>6. /\ DOMAIN local' = {"tasks", "done"} /\ local'.tasks = <<>>
      /\ DOMAIN local'.tasks = {}
  BY <1>1 DEF NoTasks
<1>7. Cardinality(Missing(Fresh', HeldOf(out', mem'.kept, pc', local'))) = 0
  BY <1>5, MissingNone
<1>8. QueueKept(pc', local', mem', out', got', Fresh', cuts')
  <2>1. mem'.parked["in"] \in Nat
    BY <1>4
  <2> QED
    BY <1>1, <1>3, <1>4, <1>6, <1>7, <2>1 DEF QueueKept, Queueing
<1> QED
  BY <1>1, <1>8, QueueNext

LEMMA QueueResume ==
  ASSUME GateReady, QueueInv, Resume(BufferLocal), node' = node
  PROVE  QueueInv'
<1>1. /\ pc = "none" /\ pc' = "loop" /\ local' = NoTasks /\ starts # 0
      /\ UNCHANGED <<starts, mem, out, got, cuts, base>>
  BY DEF Resume, Enter, GateReady, BufferLocal, NotYet, dataVars
<1>2. QueueKept(pc, local, mem, out, got, Fresh, cuts) /\ Fresh' = Fresh
  BY <1>1 DEF QueueInv, GateReady, Fresh
<1>3. DOMAIN local' = {"tasks", "done"} /\ DOMAIN local'.tasks = {}
  BY <1>1 DEF NoTasks
<1>4. HeldOf(out', mem'.kept, pc', local') = HeldOf(out, mem.kept, pc, local)
  BY <1>1, <1>3 DEF HeldOf, Queueing
<1>5. QueueKept(pc', local', mem', out', got', Fresh', cuts')
  BY <1>1, <1>2, <1>3, <1>4 DEF QueueKept, Queueing
<1> QED
  BY <1>1, <1>5, QueueNext

\* When a turn is settled, nothing of it is missing.
LEMMA QueueSettled ==
  ASSUME GateReady, QueueKept(pc, local, mem, out, got, Fresh, cuts), NEW done,
         "in" \in done <=> Queueing(pc, local),
         NEW p, NEW l, p = "none" \/ (p = "loop" /\ l = NoTasks),
         NEW c \in Nat, cuts <= c
  PROVE  QueueKept(p, l, Settled(done).mem, Settled(done).out, got, Fresh, c)
<1> DEFINE u == Settled(done)
           H == HeldOf(out, mem.kept, pc, local)
           I == HeldOf(u.out, u.mem.kept, p, l)
<1>1. /\ DOMAIN mem = {"kept", "size", "parked"} /\ mem.size = node.opt.size
      /\ node.opt.size \in Nat
      /\ mem.parked \in [{"in", "pop"} -> Nat]
      /\ Row(got, out, mem.kept)
      /\ "in" \in done =>
           Entered(got, local.tasks["in"]) /\ Behind(out, mem.kept, local.tasks["in"])
      /\ node.opt.size = 0 => Cardinality(Missing(Fresh, H)) + mem.parked["in"] <= cuts
  BY DEF QueueKept, GateReady
<1>2. /\ DOMAIN u.mem = {"kept", "size", "parked"}
      /\ u.mem.size = mem.size /\ u.mem.parked = mem.parked
      /\ Row(got, u.out, u.mem.kept)
      /\ mem.size = 0 =>
           {out[k].item : k \in DOMAIN out} \cup ToSet(mem.kept)
             \cup (IF "in" \in done THEN {local.tasks["in"]} ELSE {})
           \subseteq {u.out[k].item : k \in DOMAIN u.out} \cup ToSet(u.mem.kept)
  BY <1>1, SettledRow
<1>3. p # "none" => DOMAIN l = {"tasks", "done"} /\ DOMAIN l.tasks = {}
  BY DEF NoTasks
<1>4. ~Queueing(p, l)
  BY <1>3 DEF Queueing
<1> HIDE DEF u
<1>5. ASSUME node.opt.size = 0
      PROVE  Cardinality(Missing(Fresh, I)) + u.mem.parked["in"] <= c
  <2>1. H \subseteq I
    BY <1>1, <1>2, <1>5 DEF HeldOf
  <2>2. Fresh \in Seq(Item) /\ cuts \in Nat
    BY DEF GateReady
  <2>3. Cardinality(Missing(Fresh, I)) \in Nat /\ Cardinality(Missing(Fresh, H)) \in Nat
    BY <2>2, MissingTyped
  <2>4. Cardinality(Missing(Fresh, I)) <= Cardinality(Missing(Fresh, H))
    BY <2>1, <2>2, MissingSame
  <2>5. mem.parked["in"] \in Nat
    BY <1>1
  <2> HIDE DEF H, I
  <2> QED
    BY <1>1, <1>2, <1>5, <2>2, <2>3, <2>4, <2>5
<1>6. p # "cancelIn"
  OBVIOUS
<1> QED
  BY <1>1, <1>2, <1>3, <1>4, <1>5, <1>6 DEF QueueKept, u

LEMMA QueueWaits ==
  ASSUME GateReady, QueueInv, GateWait \/ GateCancelled, node' = node
  PROVE  QueueInv'
<1>1. /\ pc \in {"loop", "cancelIn"} /\ starts # 0
      /\ UNCHANGED <<got, base, cuts, starts>>
  BY DEF GateWait, GateCancelled, GateReady, NotYet, lifeVars
<1>2. QueueKept(pc, local, mem, out, got, Fresh, cuts) /\ Fresh' = Fresh /\ cuts \in Nat
  BY <1>1 DEF QueueInv, GateReady, Fresh
<1>3. ASSUME NEW done, "in" \in done <=> Queueing(pc, local),
             mem' = Settled(done).mem, out' = Settled(done).out,
             local' = NoTasks, pc' = "loop"
      PROVE  QueueInv'
  <2>1. QueueKept("loop", NoTasks, Settled(done).mem, Settled(done).out, got, Fresh, cuts)
    BY <1>2, <1>3, QueueSettled
  <2>2. QueueKept(pc', local', mem', out', got', Fresh', cuts')
    BY <1>1, <1>2, <1>3, <2>1
  <2> QED
    BY <1>3, <2>2, QueueNext
<1>4. ASSUME NEW done
      PROVE  /\ [Settled(done) EXCEPT !.local = NoTasks].mem = Settled(done).mem
             /\ [Settled(done) EXCEPT !.local = NoTasks].out = Settled(done).out
             /\ [Settled(done) EXCEPT !.local = NoTasks].local = NoTasks
             /\ [Settled(done) EXCEPT !.local = NoTasks].pc = pc
  <2>1. DOMAIN Self = {"mem", "local", "out", "pc"} /\ Self.pc = pc
    BY DEF Self
  <2>2. DOMAIN Queued(Self, done) = {"mem", "local", "out", "pc"} /\ Queued(Self, done).pc = pc
    BY <2>1 DEF Queued
  <2>3. DOMAIN Settled(done) = {"mem", "local", "out", "pc"} /\ Settled(done).pc = pc
    BY <2>2 DEF Settled, Popped, Give
  <2> QED
    BY <2>3
<1>5. CASE pc = "loop" /\ GateWait /\ "in" \in Undone
  <2> DEFINE d == DOMAIN local.tasks
  <2>1. /\ pc' = "cancelIn" /\ local' = [local EXCEPT !.done = d]
        /\ UNCHANGED <<mem, out>> /\ "in" \notin d
    BY <1>5 DEF GateWait, Undone
  <2>2. DOMAIN local = {"tasks", "done"} /\ d \subseteq {"in", "pop"}
    BY <1>2, <1>5 DEF QueueKept
  <2>3. DOMAIN local' = {"tasks", "done"} /\ local'.tasks = local.tasks /\ local'.done = d
    BY <2>1, <2>2
  <2>4. ~Queueing(pc, local) /\ ~Queueing(pc', local')
    BY <2>1 DEF Queueing
  <2>5. HeldOf(out', mem'.kept, pc', local') = HeldOf(out, mem.kept, pc, local)
    BY <2>1, <2>4 DEF HeldOf
  <2>6. QueueKept(pc', local', mem', out', got', Fresh', cuts')
    BY <1>1, <1>2, <2>1, <2>2, <2>3, <2>4, <2>5 DEF QueueKept
  <2> QED
    BY <2>1, <2>6, QueueNext
<1>6. CASE pc = "loop" /\ GateWait /\ "in" \notin Undone
  <2> DEFINE d == DOMAIN local.tasks
  <2>1. Becomes([Settled(d) EXCEPT !.local = NoTasks])
    BY <1>6 DEF GateWait
  <2>2. mem' = Settled(d).mem /\ out' = Settled(d).out /\ local' = NoTasks /\ pc' = "loop"
    BY <1>4, <1>6, <2>1 DEF Becomes
  <2>3. "in" \in d <=> Queueing(pc, local)
    BY <1>6 DEF Queueing
  <2> QED
    BY <1>3, <2>2, <2>3
<1>7. CASE pc = "cancelIn"
  <2> DEFINE u == [Settled(local.done) EXCEPT !.local = NoTasks, !.pc = "loop"]
  <2>1. GateCancelled /\ Becomes(u)
    BY <1>7 DEF GateWait, GateCancelled
  <2>2. u.mem = Settled(local.done).mem /\ u.out = Settled(local.done).out
        /\ u.local = NoTasks /\ u.pc = "loop"
    <3>1. DOMAIN Self = {"mem", "local", "out", "pc"}
      BY DEF Self
    <3>2. DOMAIN Queued(Self, local.done) = {"mem", "local", "out", "pc"}
      BY <3>1 DEF Queued
    <3>3. DOMAIN Settled(local.done) = {"mem", "local", "out", "pc"}
      BY <3>2 DEF Settled, Popped, Give
    <3> QED
      BY <3>3
  <2>3. mem' = Settled(local.done).mem /\ out' = Settled(local.done).out
        /\ local' = NoTasks /\ pc' = "loop"
    BY <2>1, <2>2 DEF Becomes
  <2>4. "in" \in local.done <=> Queueing(pc, local)
    BY <1>2, <1>7 DEF QueueKept, Queueing
  <2> QED
    BY <1>3, <2>3, <2>4
<1> QED
  BY <1>1, <1>5, <1>6, <1>7 DEF GateWait, GateCancelled

LEMMA QueueGets ==
  ASSUME GateReady, QueueInv, NEW p \in {"in", "pop"}, GateGet(p), node' = node
  PROVE  QueueInv'
<1> DEFINE i == Head(pipe[p])
           t == [q \in DOMAIN local.tasks \cup {p} |-> IF q = p THEN i ELSE local.tasks[q]]
<1>1. /\ pc \in {"loop", "cancelIn"} /\ starts # 0 /\ pipe[p] # <<>>
      /\ UNCHANGED <<base, cuts, starts, pc, mem, out>>
      /\ got' = Append(got, i) /\ local' = [local EXCEPT !.tasks = t]
      /\ pc = "cancelIn" => p = "pop"
      /\ p \notin DOMAIN local.tasks
  BY DEF GateGet, GateReady, NotYet, lifeVars, Undone
<1>2. /\ QueueKept(pc, local, mem, out, got, Fresh, cuts) /\ cuts \in Nat
      /\ got \in Seq(Item) /\ Fresh \in Seq(Item) /\ base \in 0..Len(got)
      /\ pipe \in [NodePorts -> Seq(Item)] /\ NodePorts = {"in", "pop"} /\ InLine("in")
  BY <1>1 DEF QueueInv, GateReady
<1>3. /\ DOMAIN mem = {"kept", "size", "parked"} /\ mem.size = node.opt.size
      /\ mem.parked \in [{"in", "pop"} -> Nat]
      /\ Row(got, out, mem.kept)
      /\ DOMAIN local = {"tasks", "done"} /\ DOMAIN local.tasks \subseteq {"in", "pop"}
      /\ Queueing(pc, local) =>
           Entered(got, local.tasks["in"]) /\ Behind(out, mem.kept, local.tasks["in"])
      /\ pc = "cancelIn" => "in" \notin DOMAIN local.tasks /\ "in" \notin local.done
      /\ node.opt.size = 0 =>
           Cardinality(Missing(Fresh, HeldOf(out, mem.kept, pc, local))) + mem.parked["in"] <= cuts
  BY <1>1, <1>2 DEF QueueKept
<1>4. i \in Item
  <2>1. pipe[p] \in Seq(Item)
    BY <1>2
  <2> QED
    BY <1>1, <2>1
<1>5. /\ DOMAIN local' = {"tasks", "done"} /\ local'.tasks = t /\ local'.done = local.done
  BY <1>1, <1>3
<1>6. /\ DOMAIN t = DOMAIN local.tasks \cup {p} /\ t[p] = i
      /\ \A q \in DOMAIN local.tasks : t[q] = local.tasks[q]
  BY <1>1
<1>7. Row(got', out, mem.kept)
  BY <1>1, <1>2, <1>3, <1>4, RowMore
<1>8. Fresh' = Append(Fresh, i)
  BY <1>1, <1>2, <1>4, FreshMore
<1>9. p = "in" => Behind(out, mem.kept, i) /\ i.port = "in"
  BY <1>1, <1>2, <1>3, RowFetched
<1>10. p = "pop" => i.port # "in"
  <2>1. p = "pop" => pipe["pop"] = pipe[p] /\ pipe[p] \in Seq(Item)
    BY <1>2
  <2>2. p = "pop" => i = pipe[p][1] /\ 1 \in DOMAIN pipe[p]
    BY <1>1, <2>1
  <2>3. p = "pop" => i.port = "pop"
    BY <2>1, <2>2 DEF InLine, GateReady
  <2> QED
    BY <2>3
<1> HIDE DEF i, t
<1>11. Queueing(pc', local') =>
         Entered(got', local'.tasks["in"]) /\ Behind(out, mem.kept, local'.tasks["in"])
  <2>1. CASE p = "in"
    <3>1. i = got'[Len(got) + 1] /\ Len(got) + 1 \in DOMAIN got'
      BY <1>1, <1>2, <1>4
    <3>2. Entered(got', i)
      BY <1>4, <1>9, <2>1, <3>1 DEF Entered
    <3> QED
      BY <1>5, <1>6, <1>9, <2>1, <3>2
  <2>2. CASE p = "pop"
    <3>1. Queueing(pc', local') => Queueing(pc, local) /\ local'.tasks["in"] = local.tasks["in"]
      BY <1>1, <1>5, <1>6, <2>2 DEF Queueing
    <3> QED
      BY <1>1, <1>2, <1>3, <1>4, <3>1, EnteredMore
  <2> QED
    BY <2>1, <2>2
<1>12. ASSUME node.opt.size = 0
       PROVE  Cardinality(Missing(Fresh', HeldOf(out, mem.kept, pc', local')))
                + mem.parked["in"] <= cuts
  <2> DEFINE H == HeldOf(out, mem.kept, pc, local)
             I == HeldOf(out, mem.kept, pc', local')
  <2>1. H \subseteq I
    <3>1. Queueing(pc, local) => Queueing(pc', local') /\ local'.tasks["in"] = local.tasks["in"]
      BY <1>1, <1>5, <1>6 DEF Queueing
    <3> QED
      BY <3>1 DEF HeldOf
  <2>2. i.port # "in" \/ i \in I
    <3>1. p = "in" => Queueing(pc', local') /\ local'.tasks["in"] = i
      BY <1>1, <1>5, <1>6 DEF Queueing
    <3> QED
      BY <1>10, <3>1 DEF HeldOf
  <2>3. Cardinality(Missing(Fresh', I)) <= Cardinality(Missing(Fresh, H))
    BY <1>2, <1>4, <1>8, <2>1, <2>2, MissingMore
  <2>4. Cardinality(Missing(Fresh, H)) \in Nat /\ Cardinality(Missing(Fresh', I)) \in Nat
    <3>1. Fresh' \in Seq(Item)
      BY <1>2, <1>4, <1>8
    <3> QED
      BY <1>2, <3>1, MissingTyped
  <2>5. mem.parked["in"] \in Nat
    BY <1>3
  <2> HIDE DEF H, I
  <2>6. Cardinality(Missing(Fresh, H)) + mem.parked["in"] <= cuts
    BY <1>3, <1>12 DEF H
  <2>7. Cardinality(Missing(Fresh', I)) + mem.parked["in"] <= cuts
    BY <1>2, <2>3, <2>4, <2>5, <2>6
  <2> QED
    BY <2>7 DEF I
<1>13. QueueKept(pc', local', mem', out', got', Fresh', cuts')
  <2>1. DOMAIN local'.tasks \subseteq {"in", "pop"}
    BY <1>3, <1>5, <1>6
  <2>2. pc' = "cancelIn" => "in" \notin DOMAIN local'.tasks /\ "in" \notin local'.done
    BY <1>1, <1>3, <1>5, <1>6
  <2> QED
    BY <1>1, <1>3, <1>5, <1>7, <1>11, <1>12, <2>1, <2>2 DEF QueueKept
<1> QED
  BY <1>1, <1>13, QueueNext

LEMMA QueueParked ==
  ASSUME GateReady, QueueInv, NEW p \in {"in", "pop"}, ParkedGet(p), node' = node
  PROVE  QueueInv'
<1> DEFINE i == Head(pipe[p])
<1>1. /\ starts # 0 /\ pipe[p] # <<>> /\ mem.parked[p] > 0
      /\ UNCHANGED <<base, cuts, starts, pc, local, out>>
      /\ got' = Append(got, i) /\ mem' = [mem EXCEPT !.parked[p] = @ - 1]
  BY DEF ParkedGet, GateReady, NotYet, lifeVars, loopVars
<1>2. /\ QueueKept(pc, local, mem, out, got, Fresh, cuts) /\ cuts \in Nat
      /\ got \in Seq(Item) /\ Fresh \in Seq(Item) /\ base \in 0..Len(got)
      /\ pipe \in [NodePorts -> Seq(Item)] /\ NodePorts = {"in", "pop"} /\ InLine("pop")
      /\ pc \in {"none", "loop", "cancelIn"}
  BY <1>1 DEF QueueInv, GateReady
<1>3. /\ DOMAIN mem = {"kept", "size", "parked"} /\ mem.size = node.opt.size
      /\ mem.parked \in [{"in", "pop"} -> Nat]
      /\ Row(got, out, mem.kept)
      /\ Queueing(pc, local) =>
           Entered(got, local.tasks["in"]) /\ Behind(out, mem.kept, local.tasks["in"])
      /\ node.opt.size = 0 =>
           Cardinality(Missing(Fresh, HeldOf(out, mem.kept, pc, local))) + mem.parked["in"] <= cuts
  BY <1>2 DEF QueueKept
<1>4. i \in Item
  <2>1. pipe[p] \in Seq(Item)
    BY <1>2
  <2> QED
    BY <1>1, <2>1
<1>5. /\ DOMAIN mem' = {"kept", "size", "parked"} /\ mem'.size = node.opt.size
      /\ mem'.kept = mem.kept /\ mem'.parked = [mem.parked EXCEPT ![p] = @ - 1]
  BY <1>1, <1>3
<1>6. /\ mem'.parked \in [{"in", "pop"} -> Nat]
      /\ mem'.parked["in"] = IF p = "in" THEN mem.parked["in"] - 1 ELSE mem.parked["in"]
      /\ mem.parked["in"] \in Nat /\ mem'.parked["in"] \in Nat
  <2>1. mem.parked[p] \in Nat /\ mem.parked[p] - 1 \in Nat
    BY <1>1, <1>3
  <2>2. mem'.parked \in [{"in", "pop"} -> Nat]
    BY <1>3, <1>5, <2>1
  <2>3. mem'.parked["in"] = IF p = "in" THEN mem.parked["in"] - 1 ELSE mem.parked["in"]
    BY <1>3, <1>5
  <2> QED
    BY <1>3, <2>2, <2>3
<1>7. Fresh' = Append(Fresh, i)
  BY <1>1, <1>2, <1>4, FreshMore
<1>8. p = "pop" => i.port # "in"
  <2>1. p = "pop" => pipe["pop"] = pipe[p] /\ pipe[p] \in Seq(Item)
    BY <1>2
  <2>2. p = "pop" => i = pipe[p][1] /\ 1 \in DOMAIN pipe[p]
    BY <1>1, <2>1
  <2>3. p = "pop" => i.port = "pop"
    BY <1>2, <2>1, <2>2 DEF InLine
  <2> QED
    BY <2>3
<1> HIDE DEF i
<1>9. /\ Row(got', out, mem.kept)
      /\ Queueing(pc, local) =>
           Entered(got', local.tasks["in"]) /\ Behind(out, mem.kept, local.tasks["in"])
  BY <1>1, <1>2, <1>3, <1>4, RowMore, EnteredMore
<1>10. ASSUME node.opt.size = 0
       PROVE  Cardinality(Missing(Fresh', HeldOf(out, mem.kept, pc, local)))
                + mem'.parked["in"] <= cuts
  <2> DEFINE H == HeldOf(out, mem.kept, pc, local)
             a == Cardinality(Missing(Fresh, H))
             b == Cardinality(Missing(Fresh', H))
  <2>1. /\ b <= a + 1
        /\ i.port # "in" => b <= a
    BY <1>2, <1>4, <1>7, MissingMore
  <2>2. a \in Nat /\ b \in Nat
    <3>1. Fresh' \in Seq(Item)
      BY <1>2, <1>4, <1>7
    <3> QED
      BY <1>2, <3>1, MissingTyped
  <2>3. a + mem.parked["in"] <= cuts
    BY <1>3, <1>10
  <2> HIDE DEF a, b
  <2>4. b + mem'.parked["in"] <= cuts
    <3> DEFINE m == mem.parked["in"]
               n == mem'.parked["in"]
    <3>1. m \in Nat /\ n \in Nat /\ a + m <= cuts /\ cuts \in Nat
      BY <1>2, <1>6, <2>3
    <3>2. \/ n = m - 1 /\ b <= a + 1
          \/ n = m /\ b <= a
      BY <1>6, <1>8, <2>1
    <3> HIDE DEF m, n
    <3>3. b + n <= cuts
      BY <2>2, <3>1, <3>2
    <3> QED
      BY <3>3 DEF n
  <2> QED
    BY <2>4 DEF b
<1>11. QueueKept(pc', local', mem', out', got', Fresh', cuts')
  BY <1>1, <1>2, <1>5, <1>6, <1>9, <1>10 DEF QueueKept
<1> QED
  BY <1>1, <1>2, <1>11, QueueNext

LEMMA QueueCuts ==
  ASSUME GateReady, QueueInv, NEW next, GateCut(next), node' = node
  PROVE  QueueInv'
<1>1. /\ starts # 0 /\ pc' = "none" /\ cuts' = cuts + 1
      /\ UNCHANGED <<base, starts, got>>
  BY DEF GateCut, GateReady, NotYet, Cancel, Leave
<1>2. /\ QueueKept(pc, local, mem, out, got, Fresh, cuts) /\ cuts \in Nat
      /\ Fresh \in Seq(Item) /\ OnceEach(Fresh) /\ Fresh' = Fresh
      /\ pc \in {"none", "loop", "cancelIn"}
  BY <1>1 DEF QueueInv, GateReady, Fresh
<1>3. /\ DOMAIN mem = {"kept", "size", "parked"} /\ mem.size = node.opt.size
      /\ mem.parked \in [{"in", "pop"} -> Nat]
      /\ Row(got, out, mem.kept)
      /\ node.opt.size = 0 =>
           Cardinality(Missing(Fresh, HeldOf(out, mem.kept, pc, local))) + mem.parked["in"] <= cuts
  BY <1>2 DEF QueueKept
<1>4. QueueKept(pc', local', mem', out', got, Fresh, cuts') => QueueInv'
  BY <1>1, <1>2, QueueNext
<1> SUFFICES QueueKept("none", local', mem', out', got, Fresh, cuts + 1)
  BY <1>1, <1>4
<1> DEFINE H == HeldOf(out, mem.kept, pc, local)
           I == HeldOf(out, mem.kept, "none", local')
<1>5. ~Queueing("none", local')
  BY DEF Queueing
<1>6. Cardinality(Missing(Fresh, H)) \in Nat /\ Cardinality(Missing(Fresh, I)) \in Nat
  BY <1>2, MissingTyped
<1>7. CASE pc = "none"
  <2>1. mem' = mem /\ out' = out
    BY <1>7 DEF GateCut, Self
  <2>2. H = I
    BY <1>5, <1>7 DEF HeldOf, Queueing
  <2>3. mem.parked["in"] \in Nat
    BY <1>3
  <2> HIDE DEF H, I
  <2>4. node.opt.size = 0 => Cardinality(Missing(Fresh, I)) + mem.parked["in"] <= cuts + 1
    BY <1>2, <1>3, <1>6, <2>2, <2>3 DEF H
  <2> QED
    BY <1>3, <1>5, <2>1, <2>4 DEF QueueKept, I
<1>8. CASE pc = "cancelIn"
  <2>1. mem' = Settled(local.done).mem /\ out' = Settled(local.done).out
    BY <1>8 DEF GateCut
  <2>2. "in" \in local.done <=> Queueing(pc, local)
    BY <1>2, <1>8 DEF QueueKept, Queueing
  <2>3. cuts + 1 \in Nat /\ cuts <= cuts + 1
    BY <1>2
  <2>4. QueueKept("none", local', Settled(local.done).mem, Settled(local.done).out, got, Fresh,
                  cuts + 1)
    BY <1>2, <2>2, <2>3, QueueSettled
  <2> QED
    BY <2>1, <2>4
<1>9. CASE pc = "loop"
  <2> DEFINE parks == [p \in DOMAIN mem.parked |-> mem.parked[p] + (IF p \in Undone THEN 1 ELSE 0)]
  <2>1. /\ mem' = [Self EXCEPT !.mem.parked =
                     [p \in DOMAIN @ |-> @[p] + (IF p \in Undone THEN 1 ELSE 0)]].mem
        /\ out' = [Self EXCEPT !.mem.parked =
                     [p \in DOMAIN @ |-> @[p] + (IF p \in Undone THEN 1 ELSE 0)]].out
    BY <1>9 DEF GateCut
  <2>2. Self.mem = mem /\ Self.out = out /\ DOMAIN Self = {"mem", "local", "out", "pc"}
    BY DEF Self
  <2>3. out' = out /\ mem' = [mem EXCEPT !.parked = parks]
    BY <2>1, <2>2
  <2>4. /\ DOMAIN mem' = {"kept", "size", "parked"} /\ mem'.kept = mem.kept
        /\ mem'.size = mem.size /\ mem'.parked = parks
    BY <1>3, <2>3
  <2>5. /\ parks \in [{"in", "pop"} -> Nat] /\ mem.parked["in"] \in Nat
        /\ parks["in"] = mem.parked["in"] + (IF "in" \in Undone THEN 1 ELSE 0)
    BY <1>3
  <2> HIDE DEF parks
  <2>6. ASSUME node.opt.size = 0
        PROVE  Cardinality(Missing(Fresh, I)) + parks["in"] <= cuts + 1
    <3> DEFINE a == Cardinality(Missing(Fresh, H))
               b == Cardinality(Missing(Fresh, I))
               m == mem.parked["in"]
               n == parks["in"]
    <3>1. /\ b <= a + 1
          /\ "in" \in Undone => b <= a
      <4>1. CASE Queueing(pc, local)
        <5>1. H \subseteq I \cup {local.tasks["in"]} /\ "in" \notin Undone
          BY <1>5, <4>1 DEF HeldOf, Queueing, Undone
        <5> QED
          BY <1>2, <5>1, MissingLess
      <4>2. CASE ~Queueing(pc, local)
        <5>1. H \subseteq I
          BY <1>5, <4>2 DEF HeldOf
        <5>2. b <= a
          BY <1>2, <5>1, MissingSame
        <5> QED
          BY <1>6, <5>2
      <4> QED
        BY <4>1, <4>2
    <3>2. a \in Nat /\ b \in Nat /\ m \in Nat /\ n \in Nat /\ cuts \in Nat /\ a + m <= cuts
      BY <1>2, <1>3, <1>6, <2>5, <2>6
    <3>3. \/ n = m + 1 /\ b <= a
          \/ n = m /\ b <= a + 1
      BY <2>5, <3>1
    <3> HIDE DEF a, b, m, n
    <3>4. b + n <= cuts + 1
      BY <3>2, <3>3
    <3> QED
      BY <3>4 DEF b, n
  <2> QED
    BY <1>3, <1>5, <2>3, <2>4, <2>5, <2>6 DEF QueueKept
<1> QED
  BY <1>2, <1>7, <1>8, <1>9

LEMMA QueueStep ==
  ASSUME node \in AllTypes, node' = node, BufferTyped, BufferLines, QueueInv, [Next]_vars
  PROVE  QueueInv'
<1> SUFFICES ASSUME node.type = "gate" PROVE QueueInv'
  BY DEF QueueInv
<1>1. node.type \in BufferNames /\ GateReady
  BY GateIsReady DEF BufferNames
<1>2. pc \in {"none", "loop", "cancelIn", "ended"} /\ node.ports = <<"in", "pop">>
  BY <1>1, BufferPorts DEF BufferTyped
<1>3. CASE Aside
  <2>1. UNCHANGED <<starts, cuts, pc, local, mem, out, got, base, Fresh>>
    BY <1>3 DEF Aside, lifeVars, Fresh
  <2>2. starts' # 0 => QueueKept(pc', local', mem', out', got', Fresh', cuts')
    BY <2>1 DEF QueueInv
  <2>3. pc' \in {"none", "loop", "cancelIn"}
    BY <2>1 DEF QueueInv
  <2> QED
    BY <2>2, <2>3, QueueNext
<1>4. CASE BufferCall
  BY <1>4 DEF BufferCall, Resize, Windows, Resettable
<1>5. CASE BufferStep
  <2>1. QueueGate
    BY <1>5
       DEF BufferStep, Fifo, Lifo, Stack, Table, LineSplitter, LineBuffer, Rolling, SyncBarrier,
           And, Or, Nand, Nor, Xor, Xnor, LogicGate
  <2>2. ToSet(node.ports) = {"in", "pop"}
    BY <1>2 DEF ToSet
  <2> QED
    BY <1>1, <2>1, <2>2, QueueWaits, QueueGets, QueueParked DEF QueueGate
<1> QED
  BY <1>1, <1>2, <1>3, <1>4, <1>5, BufferNext, QueueStart, QueueResume, QueueCuts, Zenon
     DEF BufferChange

LEMMA QueueMeaning ==
  ASSUME node \in AllTypes, BufferTyped, BufferLines, QueueInv PROVE GateLosesOnlyByCuts
<1> SUFFICES ASSUME node.type = "gate", life # "stopped" PROVE GateLosesOnlyByCuts
  BY DEF GateLosesOnlyByCuts
<1>1. GateReady
  BY GateIsReady
<1>2. QueueKept(pc, local, mem, out, got, Fresh, cuts)
  BY <1>1 DEF QueueInv, GateReady, NotYet
<1>3. RelayedOrHeld = HeldOf(out, mem.kept, pc, local)
  BY Zenon DEF RelayedOrHeld, HeldOf, Queueing
<1>4. {k \in GateItems : Fresh[k] \notin RelayedOrHeld}
        = Missing(Fresh, HeldOf(out, mem.kept, pc, local))
  BY <1>3 DEF GateItems, Missing
<1>5. ASSUME node.opt.size = 0
      PROVE  Cardinality({k \in GateItems : Fresh[k] \notin RelayedOrHeld}) <= cuts
  <2> DEFINE a == Cardinality(Missing(Fresh, HeldOf(out, mem.kept, pc, local)))
  <2>1. a \in Nat /\ mem.parked["in"] \in Nat /\ cuts \in Nat /\ a + mem.parked["in"] <= cuts
    BY <1>1, <1>2, <1>5, MissingTyped DEF QueueKept, GateReady
  <2> HIDE DEF a
  <2>2. a <= cuts
    BY <2>1
  <2> QED
    BY <1>4, <2>2 DEF a
<1>6. \A j, k \in DOMAIN out : j < k => out[j].item.n < out[k].item.n
  BY <1>2 DEF QueueKept, Row
<1> QED
  BY <1>5, <1>6 DEF GateLosesOnlyByCuts

-----------------------------------------------------------------------------
(* What is read is passed on.                                              *)

PassInv ==
  LoopTyped /\ BufferTyped /\ BufferLines /\ LinesInv /\ RollingInv /\ QueueInv

LEMMA PassInit == ASSUME NodeInit PROVE PassInv
<1>1. /\ NotYet /\ cuts = 0 /\ starts = 0 /\ base = 0 /\ got = <<>> /\ Len(got) = 0
      /\ pc = "none" /\ out = <<>> /\ mem = <<>> /\ sent = 0
      /\ wired = <<>> /\ turn = <<>> /\ pass = <<>>
  BY DEF NodeInit, Init, NotYet
<1>2. LoopTyped
  BY LoopInit
<1>3. \A p \in NodePorts : pipe[p] = <<>> /\ DOMAIN pipe[p] = {}
  BY DEF NodeInit, Init, NodePorts
<1>4. pipe \in [NodePorts -> Seq(Item)]
  BY EmptyTyped DEF NodeInit, Init, NodePorts
<1>5. \A S : <<>> \in Seq(S)
  BY EmptyTyped
<1>6. BufferTyped
  BY <1>1, <1>4, <1>5, NodeLoopAssumption DEF BufferTyped, Distinct, NotYet
<1>7. BufferLines
  BY <1>1, <1>3 DEF BufferLines, InLine
<1>8. LinesInv /\ QueueInv
  BY <1>1 DEF LinesInv, QueueInv
<1>9. RollingInv
  <2>1. Flips(out) = {} /\ \A p : ReadOf(got, p) = {}
    BY <1>1 DEF Flips, ReadOf
  <2>2. IsSeq(out) /\ Len(out) = 0
    BY <1>1, NoneIsSeq
  <2>3. Pending(pc, local) = 0 /\ Choice(mem) = 0
    BY <1>1 DEF Pending, Choice
  <2>4. /\ IsFiniteSet(Flips(out)) /\ Cardinality(Flips(out)) = 0
        /\ \A p : Cardinality(ReadOf(got, p)) = 0
    BY <2>1, FS_EmptySet
  <2>5. /\ Len(out) + Pending(pc, local) <= Cardinality(ReadOf(got, "trigger"))
        /\ Cardinality(ReadOf(got, "trigger")) <= Len(out) + Pending(pc, local) + cuts
        /\ Cardinality(Flips(out)) + Choice(mem) <= Cardinality(ReadOf(got, "retain"))
    BY <1>1, <2>2, <2>3, <2>4
  <2> QED
    BY <1>1, <2>2, <2>4, <2>5 DEF RollingInv
<1> QED
  BY <1>2, <1>6, <1>7, <1>8, <1>9 DEF PassInv

LEMMA PassStep == ASSUME PassInv, [Next]_vars PROVE PassInv'
<1>1. node \in AllTypes /\ LoopTyped /\ LoopTyped'
  BY LoopStep DEF PassInv, LoopTyped
<1>2. node' = node
  BY NextStays DEF PassInv, vars, Stays
<1>3. BufferTyped' /\ BufferLines'
  BY <1>1, <1>2, BufferTypedStep DEF PassInv
<1> QED
  BY <1>1, <1>2, <1>3, LinesStep, RollingStep, QueueStep, Zenon DEF PassInv

\* For any number of items, calls and cuts: a line buffer emits each line it
\* read once and in order, or keeps it; a rolling window gives one history for
\* each trigger but for the turns that were cut, and a choice decides one of
\* them; and a gate relays in order, and loses no more than the cuts account for.
THEOREM WhatIsReadIsPassedOn == Spec => []PassedOn
<1>1. NodeInit => PassInv
  BY PassInit
<1>2. PassInv /\ [Next]_vars => PassInv'
  BY PassStep
<1>3. PassInv => PassedOn
  BY LinesMeaning, RollingMeaning, QueueMeaning DEF PassInv, PassedOn, LoopTyped
<1> QED
  BY <1>1, <1>2, <1>3, PTL DEF Spec

-----------------------------------------------------------------------------
(* Windows: what is at the end of a sequence.                              *)

LEMMA EndsSame == ASSUME NEW S, NEW s \in Seq(S) PROVE EndsWith(s, s) /\ EndsWith(s, <<>>)
BY DEF EndsWith

LEMMA EndsEnds ==
  ASSUME NEW S, NEW s \in Seq(S), NEW t \in Seq(S), NEW u \in Seq(S),
         EndsWith(s, t), EndsWith(t, u)
  PROVE  EndsWith(s, u)
<1>1. /\ Len(s) \in Nat /\ Len(t) \in Nat /\ Len(u) \in Nat
      /\ Len(t) <= Len(s) /\ Len(u) <= Len(t)
      /\ \A k \in 1..Len(t) : t[k] = s[(Len(s) - Len(t)) + k]
      /\ \A k \in 1..Len(u) : u[k] = t[(Len(t) - Len(u)) + k]
  BY DEF EndsWith
<1>2. ASSUME NEW k \in 1..Len(u) PROVE u[k] = s[(Len(s) - Len(u)) + k]
  <2>1. /\ (Len(t) - Len(u)) + k \in 1..Len(t)
        /\ (Len(s) - Len(t)) + ((Len(t) - Len(u)) + k) = (Len(s) - Len(u)) + k
    BY <1>1
  <2> QED
    BY <1>1, <2>1
<1> QED
  BY <1>1, <1>2 DEF EndsWith

LEMMA EndsLast ==
  ASSUME NEW S, NEW s \in Seq(S), NEW n \in Nat
  PROVE  LastN(s, n) \in Seq(S) /\ EndsWith(s, LastN(s, n)) /\ Len(LastN(s, n)) <= n
<1> DEFINE a == IF Len(s) > n THEN Len(s) - n + 1 ELSE 1
           t == SubSeq(s, a, Len(s))
<1>1. /\ a \in Nat /\ a >= 1 /\ a <= Len(s) + 1 /\ Len(s) \in Nat
      /\ (Len(s) - a) + 1 <= n
  OBVIOUS
<1>2. LastN(s, n) = t
  BY DEF LastN
<1> HIDE DEF a
<1>3. /\ t \in Seq(S) /\ Len(t) = (Len(s) - a) + 1
      /\ \A k \in 1..((Len(s) - a) + 1) : t[k] = s[(a - 1) + k]
  BY <1>1
<1> HIDE DEF t
<1>4. Len(t) <= Len(s) /\ Len(s) - Len(t) = a - 1
  BY <1>1, <1>3
<1> QED
  BY <1>1, <1>2, <1>3, <1>4 DEF EndsWith

LEMMA EndsTail ==
  ASSUME NEW S, NEW s \in Seq(S), s # <<>>
  PROVE  /\ Tail(s) \in Seq(S) /\ EndsWith(s, Tail(s)) /\ Len(Tail(s)) = Len(s) - 1
         /\ Len(s) \in Nat \ {0}
<1> DEFINE t == Tail(s)
<1>1. /\ t \in Seq(S) /\ Len(t) = Len(s) - 1 /\ Len(s) \in Nat /\ Len(s) # 0
      /\ \A k \in 1..(Len(s) - 1) : t[k] = s[k + 1]
  OBVIOUS
<1> HIDE DEF t
<1>2. Len(s) - Len(t) = 1 /\ Len(t) <= Len(s)
  BY <1>1
<1>3. \A k \in 1..Len(t) : t[k] = s[1 + k]
  BY <1>1
<1> QED
  BY <1>1, <1>2, <1>3 DEF EndsWith, t

-----------------------------------------------------------------------------

DataOf(s) == FlattenSeq([k \in DOMAIN s |-> AsData(s[k])])

LEMMA DataAppend ==
  ASSUME NEW S, NEW s \in Seq(S), NEW i \in S, DataOf(s) \in Seq(S)
  PROVE  DataOf(Append(s, i)) = DataOf(s) \o AsData(i)
<1> DEFINE a == [k \in DOMAIN s |-> AsData(s[k])]
           t == Append(s, i)
           b == [k \in DOMAIN t |-> AsData(t[k])]
<1>1. \A x \in S : AsData(x) \in Seq(S)
  BY DEF AsData
<1>2. /\ DOMAIN s = 1..Len(s) /\ Len(s) \in Nat /\ \A k \in 1..Len(s) : s[k] \in S
      /\ DOMAIN t = 1..(Len(s) + 1) /\ t[Len(s) + 1] = i /\ \A k \in 1..Len(s) : t[k] = s[k]
  OBVIOUS
<1> HIDE DEF t
<1>3. a \in Seq(Seq(S)) /\ Len(a) = Len(s)
  BY <1>1, <1>2
<1>4. b = Append(a, AsData(i))
  <2> DEFINE c == Append(a, AsData(i))
  <2>1. /\ c \in Seq(Seq(S)) /\ Len(c) = Len(s) + 1 /\ c[Len(s) + 1] = AsData(i)
        /\ \A k \in 1..Len(s) : c[k] = a[k]
    BY <1>1, <1>3
  <2>2. b \in Seq(Seq(S)) /\ Len(b) = Len(s) + 1
    BY <1>1, <1>2
  <2>3. ASSUME NEW k \in 1..(Len(s) + 1) PROVE b[k] = c[k]
    <3>1. CASE k = Len(s) + 1
      BY <1>2, <2>1, <3>1
    <3>2. CASE k # Len(s) + 1
      <4>1. k \in 1..Len(s)
        BY <1>2, <3>2
      <4> QED
        BY <1>2, <2>1, <4>1
    <3> QED
      BY <3>1, <3>2
  <2> HIDE DEF b, c
  <2>4. b = c
    BY <1>2, <2>1, <2>2, <2>3
  <2> QED
    BY <2>4 DEF c
<1>5. FlattenSeq(a) \in Seq(S)
  BY DEF DataOf
<1>6. AsData(i) \in Seq(S)
  BY <1>1
<1> HIDE DEF a, b
<1>7. FlattenSeq(b) = FlattenSeq(a) \o AsData(i)
  BY <1>3, <1>4, <1>5, <1>6, FlattenAppend
<1> QED
  BY <1>7 DEF DataOf, a, b, t

LEMMA DataNone == DataOf(<<>>) = <<>>
<1>1. [k \in DOMAIN <<>> |-> AsData(<<>>[k])] = <<>>
  OBVIOUS
<1>2. FlattenSeq(<<>>) = <<>>
  BY DEF FlattenSeq
<1> QED
  BY <1>1, <1>2 DEF DataOf

\* What is read for the content: one more item of it at a time, or none.
DataMoves ==
  \/ Data' = Data \/ Data' = <<>>
  \/ \E p \in NodePorts :
       /\ Fetches(p) /\ base' = base /\ pipe[p] # <<>> /\ Head(pipe[p]) \in Item
       /\ got' = Append(got, Head(pipe[p])) /\ Data' = Data \o AsData(Head(pipe[p]))

LEMMA DataStep ==
  ASSUME node \in AllTypes, node.type \in BufferNames, BufferTyped, Data \in Seq(Item),
         [Next]_vars
  PROVE  DataMoves /\ Data' \in Seq(Item)
<1>1. /\ got \in Seq(Item) /\ base \in 0..Len(got) /\ pipe \in [NodePorts -> Seq(Item)]
      /\ Fresh \in Seq(Item)
  BY FreshTyped DEF BufferTyped
<1>2. Data = DataOf(Fresh) /\ Data' = DataOf(Fresh')
  BY DEF Data, DataOf
<1>3. \A i \in Item : AsData(i) \in Seq(Item)
  BY DEF AsData
<1>4. CASE got' = got /\ base' = base
  BY <1>4 DEF DataMoves, Data, Fresh
<1>5. CASE got' = got /\ base' = Len(got)
  <2>1. Fresh' = <<>>
    BY <1>1, <1>5, FreshNone
  <2> QED
    BY <1>2, <2>1, DataNone, EmptyTyped DEF DataMoves
<1>6. ASSUME NEW p \in NodePorts, Fetches(p), base' = base
      PROVE  DataMoves /\ Data' \in Seq(Item)
  <2> DEFINE i == Head(pipe[p])
  <2>1. pipe[p] # <<>> /\ got' = Append(got, i)
    BY <1>6 DEF Fetches, TakesFrom
  <2>2. i \in Item
    <3>1. pipe[p] \in Seq(Item)
      BY <1>1
    <3> QED
      BY <2>1, <3>1
  <2>3. Fresh' = Append(Fresh, i)
    BY <1>1, <1>6, <2>1, <2>2, FreshMore
  <2>4. Data' = Data \o AsData(i)
    BY <1>1, <1>2, <2>2, <2>3, DataAppend
  <2>5. Data' \in Seq(Item)
    BY <1>3, <2>2, <2>4
  <2> QED
    BY <1>6, <2>1, <2>2, <2>4, <2>5 DEF DataMoves
<1>7. ASSUME NEW p \in NodePorts, NEW i \in Item, SentTo(p, i), base' = base PROVE got' = got
  BY <1>7 DEF SentTo
<1> QED
  BY <1>4, <1>5, <1>6, <1>7, BufferWays

-----------------------------------------------------------------------------
(* What a turn makes of the content.                                       *)

Drops == "policy" \in DOMAIN node.opt => node.opt.policy = "drop"
Grudging == node.type = "stack" \/ "policy" \in DOMAIN node.opt

\* It holds no more than its size, or no more than it did.
Sized(kept, kept1, size) ==
  size > 0 => \/ Len(kept1) <= size
              \/ Grudging /\ Len(kept1) <= Len(kept)

NewContent(i, kept, kept1, size) ==
  /\ kept1 \in Seq(Item)
  /\ Drops => EndsWith(Append(kept, i), kept1)
  /\ Sized(kept, kept1, size)

WindowTurn ==
  LET i == Head(pipe[Head(pass)]) IN
  /\ pc = "loop" /\ pass # <<>> /\ base' = base
  /\ DOMAIN mem' = DOMAIN mem /\ mem'.size = mem.size
  /\ \/ got' = got /\ mem'.kept \in {mem.kept, <<>>}
     \/ /\ TakesFrom(Head(pass))
        /\ \/ AsData(i) = <<>> /\ mem'.kept \in {mem.kept, <<>>}
           \/ AsData(i) = <<i>> /\ NewContent(i, mem.kept, mem'.kept, mem.size)

WindowReady ==
  /\ {"kept", "size"} \subseteq DOMAIN mem /\ mem.size \in Nat /\ mem.kept \in Seq(Item)
  /\ node.type = "stack" /\ node.opt.mode \in {"peek", "clear"} => mem.kept = <<>>

\* What the item is that the task reads next.
LEMMA NextItem ==
  ASSUME node \in AllTypes, node.type \in BufferNames, BufferTyped, BufferLines,
         pass # <<>>, pipe[Head(pass)] # <<>>
  PROVE  /\ Head(pipe[Head(pass)]) \in Item /\ Head(pipe[Head(pass)]).port = Head(pass)
         /\ Head(pass) \in NodePorts
<1> DEFINE p == Head(pass)
<1>1. p \in NodePorts
  BY DEF BufferTyped
<1>2. pipe[p] \in Seq(Item) /\ InLine(p)
  BY <1>1 DEF BufferTyped, BufferLines
<1>3. Head(pipe[p]) = pipe[p][1] /\ 1 \in DOMAIN pipe[p] /\ pipe[p][1] \in Item
  BY <1>2
<1> QED
  BY <1>1, <1>2, <1>3 DEF InLine

\* The last of a queue of size n with i, and no more.
LEMMA ContentLast ==
  ASSUME NEW i \in Item, NEW q \in Seq(Item), NEW n \in Nat
  PROVE  NewContent(i, q, IF n > 0 THEN LastN(Append(q, i), n) ELSE Append(q, i), n)
<1> DEFINE a == Append(q, i)
<1>1. a \in Seq(Item)
  OBVIOUS
<1>2. /\ LastN(a, n) \in Seq(Item) /\ EndsWith(a, LastN(a, n)) /\ Len(LastN(a, n)) <= n
      /\ EndsWith(a, a)
  BY <1>1, EndsLast, EndsSame
<1> HIDE DEF a
<1>3. NewContent(i, q, IF n > 0 THEN LastN(a, n) ELSE a, n)
  BY <1>1, <1>2 DEF NewContent, Sized, a
<1> QED
  BY <1>3 DEF a

LEMMA ContentCapacity ==
  ASSUME WindowReady, node.type = "fifo", "policy" \in DOMAIN node.opt, NEW s, s.mem = mem,
         NEW i \in Item, node.opt.policy \in {"drop", "block"}
  PROVE  NewContent(i, mem.kept, EnforceCapacity(s, i), mem.size)
<1> DEFINE q == mem.kept
           n == mem.size
<1>1. q \in Seq(Item) /\ n \in Nat /\ Len(q) \in Nat
  BY DEF WindowReady
<1>2. /\ Append(q, i) \in Seq(Item) /\ Len(Append(q, i)) = Len(q) + 1
      /\ EndsWith(Append(q, i), Append(q, i))
  <2> DEFINE a == Append(q, i)
  <2>1. a \in Seq(Item) /\ Len(a) = Len(q) + 1
    BY <1>1
  <2> HIDE DEF a
  <2>2. EndsWith(a, a)
    BY <2>1, EndsSame
  <2> QED
    BY <2>1, <2>2 DEF a
<1>3. CASE n = 0 \/ Len(q) < n
  <2>1. EnforceCapacity(s, i) = Append(q, i)
    BY <1>3 DEF EnforceCapacity
  <2> QED
    BY <1>1, <1>2, <1>3, <2>1 DEF NewContent, Sized
<1>4. CASE ~(n = 0 \/ Len(q) < n) /\ node.opt.policy = "block"
  <2>1. EnforceCapacity(s, i) = q /\ ~Drops /\ Grudging
    BY <1>4 DEF EnforceCapacity, Drops, Grudging
  <2> QED
    BY <1>1, <2>1 DEF NewContent, Sized
<1>5. CASE ~(n = 0 \/ Len(q) < n) /\ node.opt.policy # "block"
  <2> DEFINE l == LastN(q, n - 1)
  <2>1. EnforceCapacity(s, i) = Append(l, i)
    BY <1>5, Zenon DEF EnforceCapacity
  <2>2. n - 1 \in Nat
    BY <1>1, <1>5
  <2>3. l \in Seq(Item) /\ EndsWith(q, l) /\ Len(l) <= n - 1
    BY <1>1, <2>2, EndsLast
  <2> HIDE DEF l
  <2>4. EndsWith(Append(q, i), Append(l, i))
    BY <1>1, <2>3, EndsAppend
  <2>5. Append(l, i) \in Seq(Item) /\ Len(Append(l, i)) = Len(l) + 1 /\ Len(l) \in Nat
    BY <2>3
  <2>6. Len(Append(l, i)) <= n
    BY <1>1, <2>3, <2>5
  <2> QED
    BY <2>1, <2>4, <2>5, <2>6 DEF NewContent, Sized
<1> QED
  BY <1>3, <1>4, <1>5

-----------------------------------------------------------------------------
(* The turns of the windows.                                               *)

LEMMA WindowNode ==
  ASSUME node \in AllTypes, node.type \in Windows
  PROVE  /\ node.type \in BufferNames /\ node.type # "gate"
         /\ node.type # "rolling" => NodePorts \subseteq {"in", "in2"}
         /\ node.type = "rolling" => NodePorts = {"in", "trigger", "retain"}
         /\ node.type = "fifo" => node.opt.policy \in {"drop", "block"} /\ "policy" \in DOMAIN node.opt
         /\ node.type # "fifo" => "policy" \notin DOMAIN node.opt
         /\ node.opt.size \in Nat
<1>1. node.type \in BufferNames /\ node.type # "gate"
  BY DEF Windows, BufferNames
<1>2. node \in BufferTypes
  BY <1>1, Families
<1>3. /\ node.type # "rolling" => node.ports = <<"in", "in2">>
      /\ node.type = "rolling" => node.ports = <<"in", "trigger", "retain">>
  BY <1>2 DEF BufferTypes, BufferType, Windows, TwoIn
<1>4. /\ node.type = "fifo" => node.opt.policy \in {"drop", "block"} /\ "policy" \in DOMAIN node.opt
      /\ node.type # "fifo" => "policy" \notin DOMAIN node.opt
      /\ node.opt.size \in Nat
  BY <1>2 DEF BufferTypes, BufferType, Windows, Sizes
<1> QED
  BY <1>1, <1>3, <1>4 DEF NodePorts, ToSet

LEMMA WindowItem ==
  ASSUME node \in AllTypes, node.type \in Windows, BufferTyped, BufferLines,
         pass # <<>>, pipe[Head(pass)] # <<>>
  PROVE  LET i == Head(pipe[Head(pass)]) IN
           /\ i \in Item /\ Head(pass) \in NodePorts
           /\ AsData(i) = IF Head(pass) \in {"trigger", "retain"} THEN <<>> ELSE <<i>>
           /\ node.type # "rolling" => AsData(i) = <<i>>
BY WindowNode, NextItem DEF AsData

\* What the content becomes; the rest of what the node keeps is no matter.
KeptIs(kept) == DOMAIN mem' = DOMAIN mem /\ mem'.size = mem.size /\ mem'.kept = kept

LEMMA KeptSet ==
  ASSUME WindowReady, NEW kept, mem' = [mem EXCEPT !.kept = kept]
  PROVE  KeptIs(kept)
BY DEF WindowReady, KeptIs

\* A turn that takes what is read into the content, or reads nothing.
LEMMA KeptTurn ==
  ASSUME WindowReady, pc = "loop", pass # <<>>, base' = base,
         NEW kept,
         \/ got' = got /\ mem' = mem
         \/ /\ TakesFrom(Head(pass)) /\ KeptIs(kept)
            /\ AsData(Head(pipe[Head(pass)])) = <<Head(pipe[Head(pass)])>>
            /\ NewContent(Head(pipe[Head(pass)]), mem.kept, kept, mem.size)
  PROVE  WindowTurn
<1>1. CASE got' = got /\ mem' = mem
  BY <1>1 DEF WindowTurn
<1>2. CASE ~(got' = got /\ mem' = mem)
  BY <1>2 DEF WindowTurn, KeptIs
<1> QED
  BY <1>1, <1>2

LEMMA FifoTurn ==
  ASSUME node \in AllTypes, BufferTyped, BufferLines, WindowReady, Fifo
  PROVE  WindowTurn
<1> DEFINE p == Head(pass)
           i == Head(pipe[p])
           Rest(s) == IF Len(pass) = 1 /\ s.pc = "loop" THEN ShowContent(s) ELSE s
           kept == EnforceCapacity(Self, i)
           t == FifoTake(Self, p, i)
           Fields == {"mem", "local", "out", "pc"}
<1>1. /\ pc = "loop" /\ pass # <<>> /\ base' = base /\ node.type = "fifo"
      /\ \/ TakesFrom(p) /\ Becomes(Rest(t))
         \/ Becomes(Rest(Self)) /\ got' = got
  BY DEF Fifo, Poll, TakesFrom
<1>2. DOMAIN Self = Fields /\ Self.mem = mem
  BY DEF Self
<1>3. DOMAIN t = Fields /\ t.mem = [mem EXCEPT !.kept = kept]
  BY <1>2 DEF FifoTake
<1>4. ASSUME NEW s, DOMAIN s = Fields PROVE Rest(s).mem = s.mem
  BY <1>4 DEF ShowContent, Shows
<1>5. TakesFrom(p) => i \in Item /\ AsData(i) = <<i>> /\ NewContent(i, mem.kept, kept, mem.size)
  <2> SUFFICES ASSUME TakesFrom(p)
               PROVE  i \in Item /\ AsData(i) = <<i>> /\ NewContent(i, mem.kept, kept, mem.size)
    OBVIOUS
  <2>1. node.type \in Windows /\ pipe[p] # <<>>
    BY <1>1 DEF Windows, TakesFrom
  <2>2. i \in Item /\ AsData(i) = <<i>>
    BY <1>1, <2>1, WindowItem
  <2>3. node.opt.policy \in {"drop", "block"} /\ "policy" \in DOMAIN node.opt
    BY <1>1, <2>1, WindowNode
  <2> QED
    BY <1>1, <1>2, <2>2, <2>3, ContentCapacity
<1> HIDE DEF t, kept, Rest
<1>6. Rest(t).mem = [mem EXCEPT !.kept = kept] /\ Rest(Self).mem = mem
  BY <1>2, <1>3, <1>4
<1> HIDE DEF i, p
<1>7. \/ got' = got /\ mem' = mem
      \/ TakesFrom(p) /\ mem' = [mem EXCEPT !.kept = kept]
  BY <1>1, <1>6 DEF Becomes
<1> QED
  BY <1>1, <1>5, <1>7, KeptSet, KeptTurn DEF i, p

LEMMA LifoTurn ==
  ASSUME node \in AllTypes, BufferTyped, BufferLines, WindowReady, Lifo
  PROVE  WindowTurn
<1> DEFINE p == Head(pass)
           i == Head(pipe[p])
           Rest(s) == IF Len(pass) = 1 /\ s.pc = "loop" THEN ShowContent(s) ELSE s
           all == Append(mem.kept, i)
           kept == IF mem.size > 0 THEN LastN(all, mem.size) ELSE all
           t == LifoTake(Self, p, i)
           Fields == {"mem", "local", "out", "pc"}
<1>1. /\ pc = "loop" /\ pass # <<>> /\ base' = base /\ node.type = "lifo"
      /\ \/ TakesFrom(p) /\ Becomes(Rest(t))
         \/ Becomes(Rest(Self)) /\ got' = got
  BY DEF Lifo, Poll, TakesFrom
<1>2. DOMAIN Self = Fields /\ Self.mem = mem
  BY DEF Self
<1>3. DOMAIN t = Fields /\ t.mem = [mem EXCEPT !.kept = kept]
  BY <1>2 DEF LifoTake
<1>4. ASSUME NEW s, DOMAIN s = Fields PROVE Rest(s).mem = s.mem
  BY <1>4 DEF ShowContent, Shows
<1>5. TakesFrom(p) => AsData(i) = <<i>> /\ NewContent(i, mem.kept, kept, mem.size)
  <2> SUFFICES ASSUME TakesFrom(p)
               PROVE  AsData(i) = <<i>> /\ NewContent(i, mem.kept, kept, mem.size)
    OBVIOUS
  <2>1. node.type \in Windows /\ pipe[p] # <<>>
    BY <1>1 DEF Windows, TakesFrom
  <2>2. i \in Item /\ AsData(i) = <<i>>
    BY <1>1, <2>1, WindowItem
  <2> QED
    BY <2>2, ContentLast DEF WindowReady
<1> HIDE DEF t, kept, Rest
<1>6. Rest(t).mem = [mem EXCEPT !.kept = kept] /\ Rest(Self).mem = mem
  BY <1>2, <1>3, <1>4
<1> HIDE DEF i, p
<1>7. \/ got' = got /\ mem' = mem
      \/ TakesFrom(p) /\ mem' = [mem EXCEPT !.kept = kept]
  BY <1>1, <1>6 DEF Becomes
<1> QED
  BY <1>1, <1>5, <1>7, KeptSet, KeptTurn DEF i, p

LEMMA TableTurn ==
  ASSUME node \in AllTypes, BufferTyped, BufferLines, WindowReady, Table
  PROVE  WindowTurn
<1>1. PICK due \in BOOLEAN :
        Poll(TableTake, LAMBDA s : IF due THEN Shows(s, s.mem.kept) ELSE s)
  BY Zenon DEF Table
<1> DEFINE p == Head(pass)
           i == Head(pipe[p])
           End(s) == IF due THEN Shows(s, s.mem.kept) ELSE s
           Rest(s) == IF Len(pass) = 1 /\ s.pc = "loop" THEN End(s) ELSE s
           all == Append(mem.kept, i)
           kept == IF Len(all) > mem.size /\ mem.size > 0 THEN LastN(all, mem.size) ELSE all
           t == TableTake(Self, p, i)
           Fields == {"mem", "local", "out", "pc"}
<1>2. /\ pc = "loop" /\ pass # <<>> /\ base' = base /\ node.type = "table"
      /\ \/ TakesFrom(p) /\ Becomes(Rest(t))
         \/ Becomes(Rest(Self)) /\ got' = got
  BY <1>1 DEF Table, Poll, TakesFrom
<1>3. DOMAIN Self = Fields /\ Self.mem = mem
  BY DEF Self
<1>4. DOMAIN t = Fields /\ t.mem = [mem EXCEPT !.kept = kept]
  BY <1>3 DEF TableTake
<1>5. ASSUME NEW s, DOMAIN s = Fields PROVE Rest(s).mem = s.mem
  BY <1>5 DEF Shows
<1>6. TakesFrom(p) => AsData(i) = <<i>> /\ NewContent(i, mem.kept, kept, mem.size)
  <2> SUFFICES ASSUME TakesFrom(p)
               PROVE  AsData(i) = <<i>> /\ NewContent(i, mem.kept, kept, mem.size)
    OBVIOUS
  <2>1. node.type \in Windows /\ pipe[p] # <<>>
    BY <1>2 DEF Windows, TakesFrom
  <2>2. i \in Item /\ AsData(i) = <<i>>
    BY <1>2, <2>1, WindowItem
  <2> HIDE DEF i
  <2>3. mem.kept \in Seq(Item) /\ mem.size \in Nat /\ all \in Seq(Item) /\ Len(all) \in Nat
    BY <2>2 DEF WindowReady
  <2>4. CASE Len(all) > mem.size \/ mem.size = 0
    <3>1. kept = IF mem.size > 0 THEN LastN(all, mem.size) ELSE all
      BY <2>3, <2>4
    <3> QED
      BY <2>2, <2>3, <3>1, ContentLast
  <2>5. CASE ~(Len(all) > mem.size \/ mem.size = 0)
    <3>1. kept = all /\ Len(all) <= mem.size
      BY <2>3, <2>5
    <3>2. EndsWith(all, all)
      BY <2>3, EndsSame
    <3> QED
      BY <2>2, <2>3, <3>1, <3>2 DEF NewContent, Sized
  <2> QED
    BY <2>4, <2>5
<1> HIDE DEF t, kept, Rest
<1>7. Rest(t).mem = [mem EXCEPT !.kept = kept] /\ Rest(Self).mem = mem
  BY <1>3, <1>4, <1>5
<1> HIDE DEF i, p
<1>8. \/ got' = got /\ mem' = mem
      \/ TakesFrom(p) /\ mem' = [mem EXCEPT !.kept = kept]
  BY <1>2, <1>7 DEF Becomes
<1> QED
  BY <1>2, <1>6, <1>8, KeptSet, KeptTurn DEF i, p

LEMMA ContentNone ==
  ASSUME NEW i \in Item, NEW q \in Seq(Item), NEW n \in Nat
  PROVE  NewContent(i, q, <<>>, n)
<1> DEFINE a == Append(q, i)
<1>1. a \in Seq(Item)
  OBVIOUS
<1> HIDE DEF a
<1>2. EndsWith(a, <<>>)
  BY <1>1, EndsSame
<1>3. <<>> \in Seq(Item) /\ Len(<<>>) = 0
  OBVIOUS
<1> QED
  BY <1>2, <1>3 DEF NewContent, Sized, a

\* A push makes room by one item.
LEMMA ContentPush ==
  ASSUME node.type = "stack", NEW i \in Item, NEW q \in Seq(Item), NEW n \in Nat
  PROVE  /\ Len(q) < n => NewContent(i, q, Append(q, i), n)
         /\ q # <<>> => NewContent(i, q, Append(Tail(q), i), n)
<1>0. Grudging
  BY DEF Grudging
<1>1. ASSUME Len(q) < n PROVE NewContent(i, q, Append(q, i), n)
  <2> DEFINE a == Append(q, i)
  <2>1. a \in Seq(Item) /\ Len(a) = Len(q) + 1 /\ Len(q) \in Nat
    OBVIOUS
  <2> HIDE DEF a
  <2>2. EndsWith(a, a) /\ Len(a) <= n
    BY <1>1, <2>1, EndsSame
  <2> QED
    BY <2>1, <2>2 DEF NewContent, Sized, a
<1>2. ASSUME q # <<>> PROVE NewContent(i, q, Append(Tail(q), i), n)
  <2> DEFINE t == Tail(q)
             a == Append(t, i)
  <2>1. t \in Seq(Item) /\ EndsWith(q, t) /\ Len(t) = Len(q) - 1 /\ Len(q) \in Nat \ {0}
    BY <1>2, EndsTail
  <2> HIDE DEF t
  <2>2. EndsWith(Append(q, i), a)
    BY <2>1, EndsAppend
  <2>3. a \in Seq(Item) /\ Len(a) = Len(t) + 1
    BY <2>1
  <2> HIDE DEF a
  <2>4. Len(a) <= Len(q)
    BY <2>1, <2>3
  <2> QED
    BY <1>0, <2>2, <2>3, <2>4 DEF NewContent, Sized, a, t
<1> QED
  BY <1>1, <1>2

LEMMA StackTurn ==
  ASSUME node \in AllTypes, BufferTyped, BufferLines, WindowReady, Stack
  PROVE  WindowTurn
<1> DEFINE p == Head(pass)
           i == Head(pipe[p])
           Rest(s) == IF Len(pass) = 1 /\ s.pc = "loop" THEN IdleEnd(s) ELSE s
           pushed == IF Len(mem.kept) < mem.size THEN Append(mem.kept, i)
                     ELSE IF mem.kept = <<>> THEN <<>> ELSE Append(Tail(mem.kept), i)
           kept == IF node.opt.mode \in {"peek", "clear"} THEN <<>> ELSE pushed
           t == StackTake(Self, p, i)
           Fields == {"mem", "local", "out", "pc"}
<1>1. /\ pc = "loop" /\ pass # <<>> /\ base' = base /\ node.type = "stack"
      /\ \/ TakesFrom(p) /\ Becomes(Rest(t))
         \/ Becomes(Rest(Self)) /\ got' = got
  BY DEF Stack, Poll, TakesFrom
<1>2. DOMAIN Self = Fields /\ Self.mem = mem
  BY DEF Self
<1>3. /\ "kept" \in DOMAIN mem /\ "size" \in DOMAIN mem
      /\ node.opt.mode \in {"peek", "clear"} => mem.kept = <<>>
  BY <1>1 DEF WindowReady
<1>4. /\ DOMAIN t.mem = DOMAIN mem /\ t.mem.size = mem.size /\ t.mem.kept = kept
  <2>1. CASE node.opt.mode = "peek"
    <3>1. t = Shows(Self, mem.kept)
      BY <1>2, <2>1 DEF StackTake
    <3> QED
      BY <1>2, <1>3, <2>1, <3>1 DEF Shows
  <2>2. CASE node.opt.mode = "clear"
    <3>1. t = Shows([Self EXCEPT !.mem.kept = <<>>], <<>>)
      BY <2>2 DEF StackTake
    <3> QED
      BY <1>2, <1>3, <2>2, <3>1 DEF Shows
  <2>3. CASE node.opt.mode \notin {"peek", "clear"} /\ Len(mem.kept) < mem.size
    <3>1. t = Shows([Self EXCEPT !.mem.kept = Append(mem.kept, i)], Append(mem.kept, i))
      BY <1>2, <2>3 DEF StackTake
    <3> QED
      BY <1>2, <1>3, <2>3, <3>1 DEF Shows
  <2>4. CASE /\ node.opt.mode \notin {"peek", "clear"} /\ ~(Len(mem.kept) < mem.size)
             /\ mem.kept = <<>>
    <3>1. t = [Self EXCEPT !.pc = "ended"]
      BY <1>2, <2>4 DEF StackTake
    <3> QED
      BY <1>2, <1>3, <2>4, <3>1
  <2>5. CASE /\ node.opt.mode \notin {"peek", "clear"} /\ ~(Len(mem.kept) < mem.size)
             /\ mem.kept # <<>>
    <3> DEFINE a == Append(Tail(mem.kept), i)
    <3>1. t = Shows([Self EXCEPT !.mem.kept = a], a)
      BY <1>2, <2>5 DEF StackTake
    <3> QED
      BY <1>2, <1>3, <2>5, <3>1 DEF Shows
  <2> QED
    BY <2>1, <2>2, <2>3, <2>4, <2>5
<1>5. TakesFrom(p) => AsData(i) = <<i>> /\ NewContent(i, mem.kept, kept, mem.size)
  <2> SUFFICES ASSUME TakesFrom(p)
               PROVE  AsData(i) = <<i>> /\ NewContent(i, mem.kept, kept, mem.size)
    OBVIOUS
  <2>1. node.type \in Windows /\ pipe[p] # <<>>
    BY <1>1 DEF Windows, TakesFrom
  <2>2. i \in Item /\ AsData(i) = <<i>>
    BY <1>1, <2>1, WindowItem
  <2> HIDE DEF i
  <2>3. mem.kept \in Seq(Item) /\ mem.size \in Nat
    BY DEF WindowReady
  <2>4. /\ NewContent(i, mem.kept, <<>>, mem.size)
        /\ Len(mem.kept) < mem.size => NewContent(i, mem.kept, Append(mem.kept, i), mem.size)
        /\ mem.kept # <<>> => NewContent(i, mem.kept, Append(Tail(mem.kept), i), mem.size)
    BY <1>1, <2>2, <2>3, ContentNone, ContentPush
  <2> QED
    BY <2>2, <2>4
<1>6. Rest(t) = t /\ Rest(Self) = Self
  BY DEF IdleEnd
<1> HIDE DEF t, kept, Rest
<1>7. \/ got' = got /\ mem' = mem
      \/ TakesFrom(p) /\ KeptIs(kept)
  BY <1>1, <1>2, <1>4, <1>6 DEF Becomes, KeptIs
<1> HIDE DEF i, p
<1> QED
  BY <1>1, <1>5, <1>7, KeptTurn DEF i, p

LEMMA WindowRolls ==
  ASSUME node \in AllTypes, BufferTyped, BufferLines, WindowReady, Rolling,
         {"kept", "size", "retain"} = DOMAIN mem
  PROVE  WindowTurn
<1> DEFINE p == Head(pass)
           i == Head(pipe[p])
           Rest(s) == IF Len(pass) = 1 /\ s.pc = "loop" THEN RollingEnd(s) ELSE s
           all == Append(mem.kept, i)
           last == IF mem.size > 0 THEN LastN(all, mem.size) ELSE all
           kept == IF p = "in" THEN last ELSE mem.kept
           t == RollingTake(Self, p, i)
           Fields == {"mem", "local", "out", "pc"}
           Parts == {"kept", "size", "retain"}
<1>1. /\ pc = "loop" /\ pass # <<>> /\ base' = base /\ node.type = "rolling"
      /\ \/ TakesFrom(p) /\ Becomes(Rest(t))
         \/ Becomes(Rest(Self)) /\ got' = got
  BY DEF Rolling, Poll, TakesFrom
<1>0. node.type \in Windows /\ p \in {"in", "trigger", "retain"}
  <2>1. node.type \in Windows /\ node.type \in BufferNames
    BY <1>1 DEF Windows, BufferNames
  <2>2. pass \in Seq(NodePorts) /\ NodePorts = {"in", "trigger", "retain"}
    BY <1>1, <2>1, WindowNode DEF BufferTyped
  <2> QED
    BY <1>1, <2>1, <2>2
<1>2. DOMAIN Self = Fields /\ Self.mem = mem
  BY DEF Self
<1>3. DOMAIN t = Fields /\ DOMAIN t.mem = Parts /\ t.mem.size = mem.size /\ t.mem.kept = kept
  BY <1>0, <1>2 DEF RollingTake
<1>4. ASSUME NEW s, DOMAIN s = Fields, DOMAIN s.mem = Parts
      PROVE  /\ DOMAIN Rest(s).mem = Parts /\ Rest(s).mem.size = s.mem.size
             /\ Rest(s).mem.kept \in {s.mem.kept, <<>>}
  <2>1. CASE Rest(s) = s
    BY <1>4, <2>1
  <2>2. CASE Rest(s) = RollingEnd(s) /\ s.local # Unseen
    <3> DEFINE keep == IF s.mem.retain # <<>> THEN s.mem.retain[1] ELSE node.opt.retain
               e == Emission(s.mem.kept, <<"history">>, keep)
               u == [s EXCEPT !.local = Unseen, !.mem.retain = <<>>,
                              !.mem.kept = IF keep THEN @ ELSE <<>>]
    <3>1. /\ DOMAIN u = Fields /\ DOMAIN u.mem = Parts /\ u.mem.size = s.mem.size
          /\ u.mem.kept \in {s.mem.kept, <<>>}
      BY <1>4
    <3>2. Rest(s) = [u EXCEPT !.out = Append(@, e)]
      BY <2>2 DEF RollingEnd, Give
    <3> HIDE DEF u, e
    <3>3. Rest(s).mem = u.mem
      BY <3>1, <3>2
    <3> HIDE DEF Rest
    <3> QED
      BY <3>1, <3>3
  <2> QED
    BY <2>1, <2>2 DEF RollingEnd
<1>5. TakesFrom(p) =>
        \/ AsData(i) = <<>> /\ kept = mem.kept
        \/ /\ AsData(i) = <<i>> /\ NewContent(i, mem.kept, kept, mem.size)
           /\ NewContent(i, mem.kept, <<>>, mem.size)
  <2> SUFFICES ASSUME TakesFrom(p)
               PROVE  \/ AsData(i) = <<>> /\ kept = mem.kept
                      \/ /\ AsData(i) = <<i>> /\ NewContent(i, mem.kept, kept, mem.size)
                         /\ NewContent(i, mem.kept, <<>>, mem.size)
    OBVIOUS
  <2>1. /\ pipe[p] # <<>> /\ i \in Item
        /\ AsData(i) = IF p \in {"trigger", "retain"} THEN <<>> ELSE <<i>>
    BY <1>0, <1>1, WindowItem DEF TakesFrom
  <2>2. CASE p # "in"
    BY <1>0, <2>1, <2>2
  <2>3. CASE p = "in"
    <3>1. AsData(i) = <<i>> /\ kept = last
      BY <2>1, <2>3
    <3>2. mem.kept \in Seq(Item) /\ mem.size \in Nat
      BY DEF WindowReady
    <3> HIDE DEF i
    <3>3. NewContent(i, mem.kept, last, mem.size) /\ NewContent(i, mem.kept, <<>>, mem.size)
      BY <2>1, <3>2, ContentLast, ContentNone
    <3> QED
      BY <3>1, <3>3
  <2> QED
    BY <2>2, <2>3
<1> HIDE DEF t, kept, Rest
<1>6. /\ DOMAIN Rest(t).mem = Parts /\ Rest(t).mem.size = mem.size
      /\ Rest(t).mem.kept \in {kept, <<>>}
      /\ DOMAIN Rest(Self).mem = Parts /\ Rest(Self).mem.size = mem.size
      /\ Rest(Self).mem.kept \in {mem.kept, <<>>}
  BY <1>2, <1>3, <1>4
<1> HIDE DEF i, p
<1>7. /\ DOMAIN mem' = DOMAIN mem /\ mem'.size = mem.size
      /\ \/ TakesFrom(p) /\ mem'.kept \in {kept, <<>>}
         \/ got' = got /\ mem'.kept \in {mem.kept, <<>>}
  BY <1>1, <1>6 DEF Becomes
<1> QED
  BY <1>1, <1>5, <1>7 DEF WindowTurn, i, p

-----------------------------------------------------------------------------
(* A window holds the newest it has read.                                  *)

WindowInv ==
  node.type \in Windows =>
    /\ Data \in Seq(Item)
    /\ starts # 0 => WindowReady /\ (Drops => EndsWith(Data, mem.kept))

\* What WithinSize says of a step.
WithinNow ==
  node.type \in Windows /\ Len(Data') > Len(Data) /\ mem'.size > 0 =>
    \/ Len(mem'.kept) <= mem'.size
    \/ /\ node.type = "stack" \/ "policy" \in DOMAIN node.opt
       /\ Len(mem'.kept) <= Len(mem.kept)

\* Nothing was read since the node was started or reset.
LEMMA WindowEmptied ==
  ASSUME node' = node, node.type \in Windows, got \in Seq(Item), Data \in Seq(Item),
         got' = got, base' = Len(got),
         {"kept", "size"} \subseteq DOMAIN mem', mem'.kept = <<>>, mem'.size \in Nat
  PROVE  WindowInv' /\ WithinNow
<1>1. Fresh' = <<>>
  BY FreshNone
<1>2. Data' = <<>>
  BY <1>1, DataNone DEF Data, DataOf
<1>3. Item' = Item /\ <<>> \in Seq(Item) /\ EndsWith(<<>>, <<>>)
  <2>1. <<>> \in Seq(Item)
    OBVIOUS
  <2> QED
    BY <2>1, EndsSame DEF Item, NodePorts
<1>4. WindowReady'
  BY <1>3 DEF WindowReady
<1>5. Data' \in Seq(Item)' /\ EndsWith(Data, mem.kept)'
  BY <1>2, <1>3
<1>6. WindowInv'
  BY <1>4, <1>5 DEF WindowInv
<1>7. ~(Len(Data') > Len(Data))
  <2>1. Len(Data) \in Nat /\ Len(<<>>) = 0
    OBVIOUS
  <2> QED
    BY <1>2, <2>1
<1> QED
  BY <1>6, <1>7 DEF WithinNow

\* Nothing is read, and what is kept stays or goes.
LEMMA WindowStays ==
  ASSUME node' = node, node.type \in Windows, Data \in Seq(Item),
         WindowReady, Drops => EndsWith(Data, mem.kept),
         got' = got, base' = base,
         DOMAIN mem' = DOMAIN mem, mem'.kept \in {mem.kept, <<>>}, mem'.size \in Nat
  PROVE  WindowInv' /\ WithinNow
<1>1. Data' = Data
  BY DEF Data, Fresh
<1>2. Item' = Item /\ <<>> \in Seq(Item) /\ EndsWith(Data, <<>>)
  <2>1. <<>> \in Seq(Item) /\ EndsWith(Data, <<>>)
    BY EndsSame
  <2> QED
    BY <2>1 DEF Item, NodePorts
<1>3. mem.kept \in Seq(Item) /\ {"kept", "size"} \subseteq DOMAIN mem
      /\ node.type = "stack" /\ node.opt.mode \in {"peek", "clear"} => mem.kept = <<>>
  BY DEF WindowReady
<1>4. WindowReady'
  BY <1>2, <1>3 DEF WindowReady
<1>5. Drops' = Drops
  BY DEF Drops
<1>6. Drops => EndsWith(Data', mem'.kept)
  BY <1>1, <1>2
<1>7. WindowInv'
  BY <1>1, <1>2, <1>4, <1>5, <1>6 DEF WindowInv
<1>8. ~(Len(Data') > Len(Data))
  <2>1. Len(Data) \in Nat
    OBVIOUS
  <2> QED
    BY <1>1, <2>1
<1> QED
  BY <1>7, <1>8 DEF WithinNow

\* One item more is read, and taken into the content.
LEMMA WindowTakes ==
  ASSUME node' = node, node.type \in Windows, Data \in Seq(Item), NEW i \in Item,
         WindowReady, Drops => EndsWith(Data, mem.kept), Data' = Append(Data, i),
         DOMAIN mem' = DOMAIN mem, mem'.size = mem.size,
         NewContent(i, mem.kept, mem'.kept, mem.size),
         node.type = "stack" /\ node.opt.mode \in {"peek", "clear"} => mem'.kept = <<>>
  PROVE  WindowInv' /\ WithinNow
<1>1. /\ mem.kept \in Seq(Item) /\ mem.size \in Nat /\ mem'.kept \in Seq(Item)
      /\ {"kept", "size"} \subseteq DOMAIN mem
      /\ Drops => EndsWith(Append(mem.kept, i), mem'.kept)
      /\ Sized(mem.kept, mem'.kept, mem.size)
  BY DEF WindowReady, NewContent
<1>2. Item' = Item /\ Drops' = Drops
  BY DEF Item, NodePorts, Drops
<1>3. Append(Data, i) \in Seq(Item) /\ Append(mem.kept, i) \in Seq(Item)
  BY <1>1
<1>4. ASSUME Drops PROVE EndsWith(Append(Data, i), mem'.kept)
  <2>1. EndsWith(Append(Data, i), Append(mem.kept, i))
    BY <1>1, <1>4, EndsAppend
  <2>2. EndsWith(Append(mem.kept, i), mem'.kept)
    BY <1>1, <1>4
  <2> DEFINE a == Append(Data, i)
             b == Append(mem.kept, i)
  <2> HIDE DEF a, b
  <2>3. a \in Seq(Item) /\ b \in Seq(Item) /\ EndsWith(a, b) /\ EndsWith(b, mem'.kept)
    BY <1>3, <2>1, <2>2 DEF a, b
  <2>4. EndsWith(a, mem'.kept)
    BY <1>1, <2>3, EndsEnds
  <2> QED
    BY <2>4 DEF a
<1>5. WindowReady'
  BY <1>1, <1>2 DEF WindowReady
<1>6. WindowInv'
  BY <1>2, <1>3, <1>4, <1>5 DEF WindowInv
<1>7. WithinNow
  BY <1>1 DEF WithinNow, Sized, Grudging
<1> QED
  BY <1>6, <1>7

LEMMA WindowTurns ==
  ASSUME node \in AllTypes, node.type \in Windows, BufferTyped, BufferLines, RollingInv,
         WindowReady, starts # 0, BufferStep
  PROVE  WindowTurn
<1>1. Fifo \/ Lifo \/ Stack \/ Table \/ Rolling
  BY DEF BufferStep, Windows, LineSplitter, LineBuffer, SyncBarrier, And, Or, Nand, Nor, Xor,
         Xnor, LogicGate, QueueGate, GateWait, GateCancelled, GateGet, ParkedGet
<1>2. Rolling => DOMAIN mem = {"kept", "size", "retain"}
  BY DEF Rolling, RollingInv
<1> QED
  BY <1>1, <1>2, FifoTurn, LifoTurn, StackTurn, TableTurn, WindowRolls

\* A stack that only shows or clears keeps nothing.
LEMMA StackShows ==
  ASSUME node.type = "stack", node.opt.mode \in {"peek", "clear"}, WindowReady, BufferStep
  PROVE  mem'.kept = <<>>
<1> DEFINE p == Head(pass)
           i == Head(pipe[p])
           Rest(s) == IF Len(pass) = 1 /\ s.pc = "loop" THEN IdleEnd(s) ELSE s
           t == StackTake(Self, p, i)
<1>1. Stack
  BY DEF BufferStep, Fifo, Lifo, Table, LineSplitter, LineBuffer, Rolling, SyncBarrier, And, Or,
         Nand, Nor, Xor, Xnor, LogicGate, QueueGate, GateWait, GateCancelled, GateGet, ParkedGet
<1>2. mem.kept = <<>> /\ "kept" \in DOMAIN mem
  BY DEF WindowReady
<1>3. Becomes(Rest(t)) \/ Becomes(Rest(Self))
  BY <1>1 DEF Stack, Poll
<1>4. Rest(t) = t /\ Rest(Self) = Self
  BY DEF IdleEnd
<1>5. DOMAIN Self = {"mem", "local", "out", "pc"} /\ Self.mem = mem
  BY DEF Self
<1>6. t.mem.kept = <<>>
  <2>1. CASE node.opt.mode = "peek"
    <3>1. t = Shows(Self, mem.kept)
      BY <1>5, <2>1 DEF StackTake
    <3> QED
      BY <1>2, <1>5, <3>1 DEF Shows
  <2>2. CASE node.opt.mode = "clear"
    <3>1. t = Shows([Self EXCEPT !.mem.kept = <<>>], <<>>)
      BY <2>2 DEF StackTake
    <3> QED
      BY <1>2, <1>5, <3>1 DEF Shows
  <2> QED
    BY <2>1, <2>2
<1> HIDE DEF t, Rest
<1> QED
  BY <1>2, <1>3, <1>4, <1>5, <1>6 DEF Becomes

LEMMA WindowStep ==
  ASSUME node \in AllTypes, node' = node, BufferTyped, BufferLines, RollingInv, WindowInv,
         [Next]_vars
  PROVE  WindowInv' /\ WithinNow
<1> SUFFICES ASSUME node.type \in Windows PROVE WindowInv' /\ WithinNow
  BY DEF WindowInv, WithinNow
<1>1. /\ node.type \in BufferNames /\ node.type # "gate" /\ node.opt.size \in Nat
  BY WindowNode
<1>2. /\ got \in Seq(Item) /\ base \in 0..Len(got) /\ Fresh \in Seq(Item) /\ starts \in Nat
      /\ pc \in {"none", "loop", "cancelIn", "ended"}
      /\ starts = 0 => life = "stopped" /\ pc = "none"
  BY <1>1, FreshTyped DEF BufferTyped, NotYet
<1>3. /\ Data \in Seq(Item)
      /\ starts # 0 => WindowReady /\ (Drops => EndsWith(Data, mem.kept))
  BY DEF WindowInv
<1>4. Data = DataOf(Fresh) /\ Data' = DataOf(Fresh')
  BY DEF Data, DataOf
<1>5. ASSUME UNCHANGED <<mem, got, base, starts>> PROVE WindowInv' /\ WithinNow
  <2>1. CASE starts # 0
    <3>1. DOMAIN mem' = DOMAIN mem /\ mem'.kept = mem.kept /\ mem'.size \in Nat
      BY <1>3, <1>5, <2>1 DEF WindowReady
    <3> QED
      BY <1>3, <1>5, <2>1, <3>1, WindowStays
  <2>2. CASE starts = 0
    <3>1. Data' = Data /\ Item' = Item
      BY <1>5 DEF Data, Fresh, Item, NodePorts
    <3>2. Len(Data) \in Nat
      BY <1>3
    <3>3. ~(Len(Data') > Len(Data))
      BY <3>1, <3>2
    <3>4. WindowInv'
      BY <1>3, <1>5, <2>2, <3>1 DEF WindowInv
    <3> QED
      BY <3>3, <3>4 DEF WithinNow
  <2> QED
    BY <2>1, <2>2
<1>6. CASE Aside \/ Resume(BufferLocal) \/ Pause \/ Stop
  BY <1>5, <1>6 DEF Aside, Resume, Pause, Stop, lifeVars, dataVars
<1>7. CASE Start(BufferMem, BufferLocal)
  <2>1. /\ mem' = BufferMem /\ got' = got /\ base' = Len(got)
    BY <1>7 DEF Start
  <2>2. \/ BufferMem = [kept |-> <<>>, size |-> node.opt.size]
        \/ BufferMem = [kept |-> <<>>, size |-> node.opt.size, retain |-> <<>>]
    BY DEF BufferMem, Windows
  <2>3. {"kept", "size"} \subseteq DOMAIN mem' /\ mem'.kept = <<>> /\ mem'.size \in Nat
    BY <1>1, <2>1, <2>2
  <2> QED
    BY <1>2, <1>3, <2>1, <2>3, WindowEmptied
<1>8. CASE BufferCall
  <2>1. starts # 0
    BY <1>2, <1>8 DEF BufferCall
  <2>2. WindowReady
    BY <1>3, <2>1
  <2>3. CASE Reset(Emptied)
    <3>1. mem' = [mem EXCEPT !.kept = <<>>] /\ got' = got /\ base' = Len(got)
      BY <2>3 DEF Reset, Emptied
    <3>2. {"kept", "size"} \subseteq DOMAIN mem' /\ mem'.kept = <<>> /\ mem'.size \in Nat
      BY <2>2, <3>1 DEF WindowReady
    <3> QED
      BY <1>2, <1>3, <3>1, <3>2, WindowEmptied
  <2>4. ASSUME NEW n \in Nat, Resize(n) PROVE WindowInv' /\ WithinNow
    <3>1. mem' = [mem EXCEPT !.size = n] /\ got' = got /\ base' = base
      BY <2>4 DEF Resize, SetAttribute
    <3>2. DOMAIN mem' = DOMAIN mem /\ mem'.kept = mem.kept /\ mem'.size \in Nat
      BY <2>2, <3>1 DEF WindowReady
    <3> QED
      BY <1>3, <2>1, <3>1, <3>2, WindowStays
  <2> QED
    BY <1>8, <2>3, <2>4 DEF BufferCall, Sizes
<1>9. CASE BufferStep
  <2>1. starts # 0
    <3>1. Fifo \/ Lifo \/ Stack \/ Table \/ Rolling
      BY <1>9
         DEF BufferStep, Windows, LineSplitter, LineBuffer, SyncBarrier, And, Or, Nand, Nor, Xor,
             Xnor, LogicGate, QueueGate, GateWait, GateCancelled, GateGet, ParkedGet
    <3>2. pc = "loop"
      BY <3>1 DEF Fifo, Lifo, Stack, Table, Rolling, Poll
    <3> QED
      BY <1>2, <3>2
  <2>2. WindowReady /\ (Drops => EndsWith(Data, mem.kept))
    BY <1>3, <2>1
  <2>3. WindowTurn
    BY <1>9, <2>1, <2>2, WindowTurns
  <2> DEFINE p == Head(pass)
             i == Head(pipe[p])
  <2>4. /\ base' = base /\ DOMAIN mem' = DOMAIN mem /\ mem'.size = mem.size /\ mem.size \in Nat
        /\ pass # <<>>
        /\ \/ got' = got /\ mem'.kept \in {mem.kept, <<>>}
           \/ /\ TakesFrom(p)
              /\ \/ AsData(i) = <<>> /\ mem'.kept \in {mem.kept, <<>>}
                 \/ AsData(i) = <<i>> /\ NewContent(i, mem.kept, mem'.kept, mem.size)
    BY <2>2, <2>3 DEF WindowTurn, WindowReady
  <2>5. CASE got' = got /\ mem'.kept \in {mem.kept, <<>>}
    BY <1>3, <2>2, <2>4, <2>5, WindowStays
  <2>6. ASSUME TakesFrom(p) PROVE i \in Item /\ Data' = Data \o AsData(i)
    <3>1. pipe[p] # <<>> /\ got' = Append(got, i)
      BY <2>6 DEF TakesFrom
    <3>2. i \in Item
      BY <2>4, <3>1, WindowItem
    <3>3. Fresh' = Append(Fresh, i)
      BY <1>2, <2>4, <3>1, <3>2, FreshMore
    <3> QED
      BY <1>2, <1>3, <1>4, <3>2, <3>3, DataAppend
  <2> HIDE DEF i
  <2>7. CASE TakesFrom(p) /\ AsData(i) = <<>> /\ mem'.kept \in {mem.kept, <<>>}
    <3>1. Data' = Data /\ Item' = Item
      <4>1. Data' = Data \o <<>>
        BY <2>6, <2>7
      <4>2. Data \o <<>> = Data
        BY <1>3
      <4> QED
        BY <4>1, <4>2 DEF Item, NodePorts
    <3>2. <<>> \in Seq(Item) /\ EndsWith(Data, <<>>)
      BY <1>3, EndsSame
    <3>3. WindowReady'
      BY <2>2, <2>4, <2>7, <3>1, <3>2 DEF WindowReady
    <3>4. WindowInv'
      BY <1>3, <2>2, <2>7, <3>1, <3>2, <3>3 DEF WindowInv, Drops
    <3>5. ~(Len(Data') > Len(Data))
      <4>1. Len(Data) \in Nat
        BY <1>3
      <4> QED
        BY <3>1, <4>1
    <3> QED
      BY <3>4, <3>5 DEF WithinNow
  <2>8. CASE /\ TakesFrom(p) /\ AsData(i) = <<i>>
             /\ NewContent(i, mem.kept, mem'.kept, mem.size)
    <3>1. i \in Item /\ Data' = Data \o <<i>>
      BY <2>6, <2>8
    <3>2. Data \o <<i>> = Append(Data, i)
      BY <1>3, <3>1
    <3>3. node.type = "stack" /\ node.opt.mode \in {"peek", "clear"} => mem'.kept = <<>>
      BY <1>9, <2>2, StackShows
    <3> QED
      BY <1>3, <2>2, <2>4, <2>8, <3>1, <3>2, <3>3, WindowTakes
  <2> QED
    BY <2>4, <2>5, <2>7, <2>8
<1> QED
  BY <1>1, <1>2, <1>6, <1>7, <1>8, <1>9, BufferNext DEF BufferChange

LEMMA WindowMeaning == ASSUME node \in AllTypes, BufferTyped, WindowInv PROVE KeepsTheNewest
<1> SUFFICES ASSUME node.type \in Windows, life # "stopped",
                    "policy" \in DOMAIN node.opt => node.opt.policy = "drop"
             PROVE  IsSuffix(mem.kept, Data)
  BY DEF KeepsTheNewest
<1>1. starts # 0
  BY WindowNode DEF BufferTyped, NotYet
<1>2. mem.kept \in Seq(Item) /\ Data \in Seq(Item) /\ EndsWith(Data, mem.kept)
  BY <1>1 DEF WindowInv, WindowReady, Drops
<1> QED
  BY <1>2, SuffixMeaning

LEMMA WindowInit == ASSUME NodeInit PROVE WindowInv
<1>1. got = <<>> /\ base = 0 /\ starts = 0
  BY DEF NodeInit, Init
<1>2. Fresh = <<>>
  BY <1>1 DEF Fresh
<1> QED
  BY <1>1, <1>2, DataNone, EmptyTyped DEF WindowInv, Data, DataOf

\* For any sizes, items, calls and cuts: a queue, stack, table or window holds
\* the newest items it has read since it was started or reset, in their order;
\* and an item that is read leaves no more of them than its size of the moment,
\* or, in the two types that keep an excess, no more than there were.
THEOREM WindowsHoldTheNewest == Spec => WindowsKept
<1>1. NodeInit => PassInv /\ WindowInv
  BY PassInit, WindowInit
<1>2. PassInv /\ WindowInv /\ [Next]_vars => (PassInv /\ WindowInv)'
  BY PassStep, WindowStep, NextStays DEF PassInv, LoopTyped, vars, Stays
<1>3. PassInv /\ WindowInv => KeepsTheNewest
  BY WindowMeaning DEF PassInv, LoopTyped
<1>4. PassInv /\ WindowInv /\ [Next]_vars =>
        [node.type \in Windows /\ Len(Data') > Len(Data) /\ mem'.size > 0 =>
           \/ Len(mem'.kept) <= mem'.size
           \/ /\ node.type = "stack" \/ "policy" \in DOMAIN node.opt
              /\ Len(mem'.kept) <= Len(mem.kept)]_vars
  <2>1. PassInv /\ WindowInv /\ [Next]_vars => node \in AllTypes /\ node' = node
    BY NextStays DEF PassInv, LoopTyped, vars, Stays
  <2> QED
    BY <2>1, WindowStep DEF PassInv, WithinNow
<1> QED
  BY <1>1, <1>2, <1>3, <1>4, PTL DEF Spec, WindowsKept, WithinSize
=============================================================================
