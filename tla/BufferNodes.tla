---------------------------- MODULE BufferNodes ----------------------------
(***************************************************************************)
(* The node types that keep items: queues, stack, table, windows, the      *)
(* gate, the barrier, and the logic gates, which keep the values of a turn.*)
(* `out` is everything such a node emitted, except for the types that emit *)
(* their whole content over and over: of these it is the last emission.    *)
(*                                                                         *)
(* A definition marked "Defect" is a wrong version of the one after it, to *)
(* check that the properties would notice; no specification uses it.       *)
(***************************************************************************)
EXTENDS NodeLoop

BufferType(t, ports, polls, opt) ==
  [type |-> t, ports |-> ports, polls |-> polls, opt |-> opt,
   varies |-> IF t \in {"line_splitter", "and", "or", "nand", "nor", "xor", "xnor"}
              THEN ToSet(ports) ELSE {"retain"}]

TwoIn == <<"in", "in2">>
Sizes == {0, 1, 2}

BufferTypes ==
  {BufferType("fifo", TwoIn, "all", [size |-> n, policy |-> p]) :
     n \in Sizes, p \in {"drop", "block"}}
  \cup {BufferType(t, TwoIn, "all", [size |-> n]) : t \in {"lifo", "table"}, n \in Sizes}
  \cup {BufferType("stack", TwoIn, "all", [size |-> n, mode |-> m]) :
          n \in Sizes, m \in {"push_pop", "peek", "clear"}}
  \cup {BufferType("line_splitter", <<"in">>, "named", <<>>)}
  \cup {BufferType("line_buffer", <<"in">>, "named", [lines |-> n, mode |-> m]) :
          n \in {1, 2}, m \in {"single", "multi"}}
  \cup {BufferType("rolling", <<"in", "trigger", "retain">>, "named",
                   [size |-> 1, retain |-> r]) : r \in BOOLEAN}
  \cup {BufferType("gate", <<"in", "pop">>, "named", [size |-> n]) : n \in {0, 1}}
  \cup {BufferType("barrier", TwoIn, "all", [flush |-> f]) : f \in BOOLEAN}
  \cup {BufferType(t, TwoIn, "all", [needed |-> 2]) :
          t \in {"and", "or", "nand", "nor", "xor", "xnor"}}
  \cup {BufferType("and", TwoIn, "all", [needed |-> 1])}

\* A local variable that says whether a turn has seen what it waits for.
Seen   == <<TRUE>>
Unseen == <<FALSE>>

Shows(s, content) == [s EXCEPT !.out = <<content>>]
IdleEnd(s) == s

-----------------------------------------------------------------------------
(* Queues, stack and table.  mem.kept is the queue, the stack or the rows, *)
(* mem.size the attribute max_size or max_rows.                            *)

\* Defect: the newest item makes room, not the oldest.
EnforceCapacityNewest(s, i) ==
  IF s.mem.size = 0 \/ Len(s.mem.kept) < s.mem.size THEN Append(s.mem.kept, i)
  ELSE IF node.opt.policy = "block" THEN s.mem.kept
  ELSE Append(SubSeq(s.mem.kept, 1, s.mem.size - 1), i)

\* Room is made by dropping the oldest, or the new item is turned away.
EnforceCapacity(s, i) ==
  IF s.mem.size = 0 \/ Len(s.mem.kept) < s.mem.size THEN Append(s.mem.kept, i)
  ELSE IF node.opt.policy = "block" THEN s.mem.kept
  ELSE Append(LastN(s.mem.kept, s.mem.size - 1), i)

\* local: whether this turn has read anything.
FifoTake(s, p, i) ==
  [s EXCEPT !.mem.kept = EnforceCapacity(s, i), !.local = Seen]

\* At the end of a turn the content is shown, unless nothing was read and
\* nothing is kept.
ShowContent(s) ==
  LET t == [s EXCEPT !.local = Unseen]
  IN IF s.local = Seen \/ s.mem.kept # <<>> THEN Shows(t, s.mem.kept) ELSE t

Fifo == node.type = "fifo" /\ Poll(FifoTake, ShowContent)

LifoTake(s, p, i) ==
  LET all == Append(s.mem.kept, i)
  IN [s EXCEPT !.mem.kept = IF s.mem.size > 0 THEN LastN(all, s.mem.size) ELSE all,
               !.local = Seen]

Lifo == node.type = "lifo" /\ Poll(LifoTake, ShowContent)

\* Defect: a push makes no room.
StackTakeUnbounded(s, p, i) ==
  LET all == Append(s.mem.kept, i)
  IN Shows([s EXCEPT !.mem.kept = all], all)

\* A push makes room by one item, whatever the size is by now.  With
\* max_size 0 the first push pops an empty list: the exception ends the task.
StackTake(s, p, i) ==
  CASE node.opt.mode = "peek"  -> Shows(s, s.mem.kept)
    [] node.opt.mode = "clear" -> Shows([s EXCEPT !.mem.kept = <<>>], <<>>)
    [] OTHER ->
         IF Len(s.mem.kept) < s.mem.size
         THEN LET all == Append(s.mem.kept, i)
              IN Shows([s EXCEPT !.mem.kept = all], all)
         ELSE IF s.mem.kept = <<>> THEN [s EXCEPT !.pc = "ended"]
         ELSE LET all == Append(Tail(s.mem.kept), i)
              IN Shows([s EXCEPT !.mem.kept = all], all)

Stack == node.type = "stack" /\ Poll(StackTake, IdleEnd)

\* rows[-0:] is all rows: a table with max_rows 0 is not limited.
TableTake(s, p, i) ==
  LET all == Append(s.mem.kept, i)
  IN [s EXCEPT !.mem.kept =
        IF Len(all) > s.mem.size /\ s.mem.size > 0 THEN LastN(all, s.mem.size) ELSE all]

\* The rows are shown at the end of a turn if emit_interval is over.
Table ==
  /\ node.type = "table"
  /\ \E due \in BOOLEAN :
       Poll(TableTake, LAMBDA s : IF due THEN Shows(s, s.mem.kept) ELSE s)

-----------------------------------------------------------------------------
(* Lines and windows.                                                      *)

\* 'single' emits the lines one by one, 'multi' as one list.
Flush(s) == Give([s EXCEPT !.mem.kept = <<>>], s.mem.kept, <<"out">>, node.opt.mode)

\* local: this turn's read did not time out.
LineTake(s, p, i) ==
  LET t == [s EXCEPT !.mem.kept = Append(@, i), !.local = Seen]
  IN IF node.opt.mode = "single" \/ Len(t.mem.kept) >= node.opt.lines THEN Flush(t) ELSE t

\* A timeout flushes what is there.
LineEnd(s) ==
  IF s.local = Seen THEN [s EXCEPT !.local = Unseen]
  ELSE IF s.mem.kept # <<>> THEN Flush(s) ELSE s

LineBuffer == node.type = "line_buffer" /\ Poll(LineTake, LineEnd)

\* The text up to an item that ends a line (ok) is a line.  What follows the
\* last line end waits in a local variable of process().
LineSplitter ==
  /\ node.type = "line_splitter"
  /\ Poll(LAMBDA s, p, i :
            LET all == Append(s.local, i)
            IN IF i.ok THEN Give([s EXCEPT !.local = <<>>], all, <<"out">>, "line")
               ELSE [s EXCEPT !.local = all],
          IdleEnd)

\* One turn: an item for the buffer, a trigger, a one-shot choice whether to
\* retain.  The trigger is a local variable (local), the choice an attribute
\* (mem.retain): it waits for the next flush.  With emit_passthrough each item
\* is emitted besides, which is left out.
RollingTake(s, p, i) ==
  CASE p = "in" ->
         LET all == Append(s.mem.kept, i)
         IN [s EXCEPT !.mem.kept = IF s.mem.size > 0 THEN LastN(all, s.mem.size) ELSE all]
    [] p = "trigger" -> [s EXCEPT !.local = Seen]
    [] p = "retain"  -> [s EXCEPT !.mem.retain = <<i.ok>>]

RollingEnd(s) ==
  IF s.local = Unseen THEN s
  ELSE LET keep == IF s.mem.retain # <<>> THEN s.mem.retain[1] ELSE node.opt.retain
       IN Give([s EXCEPT !.local = Unseen, !.mem.retain = <<>>,
                          !.mem.kept = IF keep THEN @ ELSE <<>>],
                s.mem.kept, <<"history">>, keep)

Rolling == node.type = "rolling" /\ Poll(RollingTake, RollingEnd)

-----------------------------------------------------------------------------
(* The barrier and the logic gates.                                        *)

\* mem.pending is the dict of what each input holds, local is got_one.
BarrierTake(s, p, i) ==
  [s EXCEPT !.mem.pending = [q \in DOMAIN @ \cup {p} |-> IF q = p THEN i ELSE @[q]],
            !.local = Seen]

\* Defect: the items of a full set stay pending.
BarrierEndKeeps(s) ==
  IF s.local = Unseen THEN s
  ELSE LET t == [s EXCEPT !.local = Unseen]
       IN IF ToSet(turn) \subseteq DOMAIN s.mem.pending
          THEN Give(t, s.mem.pending, turn, "set") ELSE t

\* Once every input of this turn holds an item, all are emitted.
BarrierEnd(s) ==
  IF s.local = Unseen THEN s
  ELSE LET t == [s EXCEPT !.local = Unseen]
       IN IF ToSet(turn) \subseteq DOMAIN s.mem.pending
          THEN Give([t EXCEPT !.mem.pending = IF node.opt.flush THEN <<>> ELSE @],
                     s.mem.pending, turn, "set")
          ELSE t

SyncBarrier == node.type = "barrier" /\ Poll(BarrierTake, BarrierEnd)

\* local: the values of this turn.
GateTake(s, p, i) == [s EXCEPT !.local = Append(@, i)]

\* Too few values make no result, and are dropped.
GateEnd(s, Truth(_)) ==
  LET t == [s EXCEPT !.local = <<>>]
      used == SubSeq(s.local, 1, node.opt.needed)
  IN IF Len(s.local) < node.opt.needed THEN t
     ELSE Give(t, used, <<"out">>, Truth(used))

LogicGate(type, Truth(_)) ==
  node.type = type /\ Poll(GateTake, LAMBDA s : GateEnd(s, Truth))

AllTrue(used) == \A k \in DOMAIN used : used[k].ok
AnyTrue(used) == \E k \in DOMAIN used : used[k].ok
OddTrue(used) == Cardinality({k \in DOMAIN used : used[k].ok}) % 2 = 1

And  == LogicGate("and",  AllTrue)
Or   == LogicGate("or",   AnyTrue)
Nand == LogicGate("nand", LAMBDA used : ~AllTrue(used))
Nor  == LogicGate("nor",  LAMBDA used : ~AnyTrue(used))
Xor  == LogicGate("xor",  OddTrue)
Xnor == LogicGate("xnor", LAMBDA used : ~OddTrue(used))

-----------------------------------------------------------------------------
(* QueueGate reads both its ports at once: each turn makes a get() task for *)
(* either, waits until one is done or half a second is over, and cancels   *)
(* the others.  local.tasks holds the results of the tasks that are done,  *)
(* local.done those that were when the wait ended.  A turn that is         *)
(* cancelled in the wait leaves its tasks behind, parked on the pipes: each *)
(* takes one more item, for nobody (mem.parked counts them).               *)

NoTasks == [tasks |-> <<>>, done |-> {}]
GatePorts == ToSet(turn)
Undone == GatePorts \ DOMAIN local.tasks

\* A task that is parked is first in line for the pipe's next item.
GateGet(p) ==
  /\ node.type = "gate"
  /\ pc \in {"loop", "cancelIn"}
  /\ p \in Undone
  /\ pc = "cancelIn" => p = "pop"
  /\ mem.parked[p] = 0
  /\ pipe[p] # <<>>
  /\ local' = [local EXCEPT !.tasks =
       [q \in DOMAIN @ \cup {p} |-> IF q = p THEN Head(pipe[p]) ELSE @[q]]]
  /\ pipe' = [pipe EXCEPT ![p] = Tail(@)]
  /\ got' = Append(got, Head(pipe[p]))
  /\ UNCHANGED <<node, envVars, lifeVars, pc, turn, pass, mem, out, base>>

ParkedGet(p) ==
  /\ node.type = "gate"
  /\ mem # <<>>
  /\ mem.parked[p] > 0
  /\ pipe[p] # <<>>
  /\ pipe' = [pipe EXCEPT ![p] = Tail(@)]
  /\ got' = Append(got, Head(pipe[p]))
  /\ mem' = [mem EXCEPT !.parked[p] = @ - 1]
  /\ UNCHANGED <<node, envVars, lifeVars, loopVars, out, base>>

\* The results of the tasks done: the item is queued, then a pop relays the
\* first of the queue, if there is one.
Queued(s, done) ==
  IF "in" \notin done THEN s
  ELSE LET all == Append(s.mem.kept, local.tasks["in"])
       IN [s EXCEPT !.mem.kept = IF s.mem.size > 0 THEN LastN(all, s.mem.size) ELSE all]

\* Defect: the item that is relayed stays in the queue.
PoppedKeeps(s, done) ==
  IF "pop" \notin done \/ s.mem.kept = <<>> THEN s
  ELSE Give(s, Head(s.mem.kept), <<"out">>, "item")

Popped(s, done) ==
  IF "pop" \notin done \/ s.mem.kept = <<>> THEN s
  ELSE Give([s EXCEPT !.mem.kept = Tail(@)], Head(s.mem.kept), <<"out">>, "item")
Settled(done) == Popped(Queued(Self, done), done)

NextGateTurn == turn' = Polled /\ pass' = Polled

\* The wait is over.  If the task of 'in' is not done, it is cancelled and
\* awaited first, and that of 'pop' may finish meanwhile.
GateWait ==
  /\ node.type = "gate"
  /\ pc = "loop"
  /\ turn # <<>>
  /\ IF "in" \in Undone
     THEN /\ pc' = "cancelIn"
          /\ local' = [local EXCEPT !.done = DOMAIN local.tasks]
          /\ UNCHANGED <<turn, pass, mem, out>>
     ELSE /\ Becomes([Settled(DOMAIN local.tasks) EXCEPT !.local = NoTasks])
          /\ NextGateTurn
  /\ UNCHANGED <<node, envVars, lifeVars, pipe, got, base>>

\* A pop that came too late for the wait is awaited and thrown away.
GateCancelled ==
  /\ node.type = "gate"
  /\ pc = "cancelIn"
  /\ Becomes([Settled(local.done) EXCEPT !.local = NoTasks, !.pc = "loop"])
  /\ NextGateTurn
  /\ UNCHANGED <<node, envVars, lifeVars, pipe, got, base>>

\* pause() and stop().  In the wait, the tasks not done stay parked, and what
\* the others hold is lost.  While 'in' is awaited the cancellation is
\* swallowed: the turn is finished, and then the loop sees _running.
GateCut(next) ==
  /\ node.type = "gate"
  /\ life # "stopped"
  /\ life # next
  /\ life' = next
  /\ Cancel
  /\ LET s == CASE pc = "loop" ->
                     [Self EXCEPT !.mem.parked =
                        [p \in DOMAIN @ |-> @[p] + (IF p \in Undone THEN 1 ELSE 0)]]
                [] pc = "cancelIn" -> Settled(local.done)
                [] OTHER -> Self
     IN mem' = s.mem /\ out' = s.out
  /\ UNCHANGED <<node, envVars, starts, pipe, got, base>>

QueueGate == GateWait \/ GateCancelled \/ \E p \in ToSet(node.ports) : GateGet(p) \/ ParkedGet(p)

-----------------------------------------------------------------------------

BufferStep ==
  \/ Fifo \/ Lifo \/ Stack \/ Table
  \/ LineBuffer \/ LineSplitter \/ Rolling
  \/ SyncBarrier \/ And \/ Or \/ Nand \/ Nor \/ Xor \/ Xnor
  \/ QueueGate

Windows == {"fifo", "lifo", "stack", "table", "rolling"}

\* What init() sets (a task parked on a pipe outlives it) and the locals that
\* process() begins with.
BufferMem ==
  CASE node.type = "rolling" -> [kept |-> <<>>, size |-> node.opt.size, retain |-> <<>>]
    [] node.type = "gate"    -> [kept |-> <<>>, size |-> node.opt.size,
                                 parked |-> IF mem = <<>> THEN [in |-> 0, pop |-> 0]
                                            ELSE mem.parked]
    [] node.type = "barrier" -> [pending |-> <<>>]
    [] node.type = "line_buffer" -> [kept |-> <<>>]
    [] node.type \in Windows \ {"rolling"} -> [kept |-> <<>>, size |-> node.opt.size]
    [] OTHER -> <<>>
BufferLocal ==
  CASE node.type \in {"fifo", "lifo", "line_buffer", "rolling", "barrier"} -> Unseen
    [] node.type = "gate" -> NoTasks
    [] OTHER -> <<>>

\* The types that override reset(), which empties what they keep.
Resettable == {"fifo", "lifo", "stack", "table", "line_buffer"}
Emptied == [mem EXCEPT !.kept = <<>>]

Resize(n) ==
  /\ node.type \in Windows
  /\ n # mem.size
  /\ SetAttribute([mem EXCEPT !.size = n])

BufferCall ==
  \/ node.type \in Resettable /\ life # "stopped" /\ Reset(Emptied)
  \/ life # "stopped" /\ \E n \in (IF node.type = "rolling" THEN {2} ELSE Sizes) : Resize(n)

-----------------------------------------------------------------------------
(* Properties.                                                             *)

\* What was read to be kept: all but triggers and choices.
AsData(i) == IF i.port \in {"trigger", "retain"} THEN <<>> ELSE <<i>>
Data == FlattenSeq([k \in DOMAIN Fresh |-> AsData(Fresh[k])])

\* A queue, stack, table or window holds the newest items it has read, in
\* their order, and nothing from before a reset or a restart: whatever was
\* evicted, resized or flushed, and wherever a pause cut a turn.
KeepsTheNewest ==
  /\ node.type \in Windows
  /\ life # "stopped"
  /\ "policy" \in DOMAIN node.opt => node.opt.policy = "drop"
  => IsSuffix(mem.kept, Data)

\* An item that is read never leaves more items than the size of the moment.
\* Only two types keep an excess a live resize made, and then it does not
\* grow: the stack, which makes room for one, and a queue that blocks.
WithinSize ==
  [][node.type \in Windows /\ Len(Data') > Len(Data) /\ mem'.size > 0 =>
       \/ Len(mem'.kept) <= mem'.size
       \/ /\ node.type = "stack" \/ "policy" \in DOMAIN node.opt
          /\ Len(mem'.kept) <= Len(mem.kept)]_vars

\* What a node keeps is the newest it has read, and never more than it may.
WindowsKept == []KeepsTheNewest /\ WithinSize

\* What a queue holds is what it has shown, sooner or later, also when the
\* turn that read it was cut before its end.
Unshown ==
  /\ node.type \in {"fifo", "lifo"}
  /\ life = "running" /\ wired # <<>>
  /\ mem.kept # <<>>
  /\ out = <<>> \/ out[1] # mem.kept
ContentIsShown == Unshown ~> ~Unshown

\* Every line that a line buffer read is emitted once, in order, or waits in
\* the buffer, through pauses and timeouts.
NoLineLost ==
  node.type = "line_buffer" /\ life # "stopped" =>
    LET passed == FlattenSeq([k \in DOMAIN out |-> out[k].item]) \o mem.kept
    IN IsSuffix(Fresh, passed) /\ Len(passed) <= Len(got)

\* A rolling window answers every trigger with one history, unless the turn
\* was cut; and a one-shot choice whether to retain decides one flush only.
Triggers == Cardinality({k \in DOMAIN got : got[k].port = "trigger"})
Retains  == Cardinality({k \in DOMAIN got : got[k].port = "retain"})
FlushPerTrigger ==
  node.type = "rolling" =>
    LET pending == IF pc = "loop" /\ local = Seen THEN 1 ELSE 0
    IN /\ Len(out) + pending <= Triggers
       /\ Triggers <= Len(out) + pending + cuts
       /\ Cardinality({k \in DOMAIN out : out[k].form # node.opt.retain}) <= Retains

\* A barrier that flushes releases each item at most once, and the items of
\* an input in their order.
ReleasedOnce ==
  node.type = "barrier" /\ node.opt.flush =>
    \A j, k \in DOMAIN out : j < k =>
      \A p \in DOMAIN out[j].item \cap DOMAIN out[k].item :
        out[j].item[p].n < out[k].item[p].n

\* A barrier never begins a turn with its set full, unless a turn was cut
\* between the read that completed the set and its end: then the set waits
\* for one more item.
FullSetIsReleased ==
  /\ node.type = "barrier" /\ node.opt.flush
  /\ pc = "loop" /\ pass = turn /\ turn # <<>> /\ ToSet(turn) \subseteq DOMAIN mem.pending
  => cuts > 0

\* A logic gate combines the values of one turn only: reads that followed
\* each other, each from another port.
OneTurnPerResult ==
  node.type \in {"and", "or", "nand", "nor", "xor", "xnor"} =>
    \A k \in DOMAIN out : LET used == out[k].item IN
      /\ \A i, j \in DOMAIN used : i # j => used[i].port # used[j].port
      /\ \E b \in 0..Len(got) : \A i \in DOMAIN used :
           b + i <= Len(got) /\ got[b + i] = used[i]

\* A gate relays in the order of arrival, and an item it read is relayed,
\* queued or held by a task of the turn; it loses no more of them than turns
\* were cut (a size limit apart).
GateItems == {k \in DOMAIN Fresh : Fresh[k].port = "in"}
RelayedOrHeld ==
  {out[k].item : k \in DOMAIN out} \cup ToSet(mem.kept)
  \cup (IF pc = "loop" /\ "in" \in DOMAIN local.tasks THEN {local.tasks["in"]} ELSE {})
GateLosesOnlyByCuts ==
  node.type = "gate" /\ life # "stopped" =>
    /\ \A j, k \in DOMAIN out : j < k => out[j].item.n < out[k].item.n
    /\ node.opt.size = 0 =>
         Cardinality({k \in GateItems : Fresh[k] \notin RelayedOrHeld}) <= cuts
=============================================================================
