----------------------------- MODULE FanInPipe -----------------------------
(***************************************************************************)
(* FanInPipe of core/stream.py: several pipes read as one.                 *)
(*                                                                         *)
(* Every source keeps one get() task in flight (`_pending`).  The reader's *)
(* get() collects the finished ones, hands out the first result and keeps  *)
(* the rest (`_buffer`); with nothing finished it arms the missing tasks   *)
(* and waits for one of those it then sees (asyncio.wait on a snapshot).   *)
(* Most nodes wrap get() in wait_for(), so the wait may be abandoned at    *)
(* any moment while the tasks go on.                                       *)
(*                                                                         *)
(* The items of a source are numbered as they are put into its pipe.  The  *)
(* pipe of source s holds the items taken[s]+1 .. sent[s], in order: it is *)
(* an asyncio.Queue without a size limit.  `_manual`, the queue behind     *)
(* put(), is one more source, always there.                                *)
(*                                                                         *)
(* A definition marked "Defect" is a wrong version of the one after it, to *)
(* check that the properties would notice; no specification uses it.       *)
(***************************************************************************)
EXTENDS Naturals, Sequences, FiniteSets, Functions

CONSTANTS
  Sources,      \* the pipes that may be wired, and Manual
  Manual,       \* the internal queue that put() feeds
  MaxItems,     \* how many items are put into each pipe
  ReaderTimesOut  \* whether the node reads with a timeout

ASSUME FanInAssumption ==
  /\ IsFiniteSet(Sources)
  /\ Manual \in Sources
  /\ MaxItems \in Nat
  /\ ReaderTimesOut \in BOOLEAN

VARIABLES
  sources,    \* _sources, with Manual
  gone,       \* sources removed: the pipe of a wire is not wired twice
  sent,       \* items put into each pipe so far
  taken,      \* items that have left each pipe
  task,       \* the _pending task of each source: "none", "waiting" or "done"
  result,     \* the item a finished task holds
  buffer,     \* _buffer: <<source, item>> in the order they are handed out
  reading,    \* whether the reader is suspended in get()
  watched,    \* the sources whose tasks that get() waits for
  delivered   \* history: the last item of each source handed to the reader

wireVars == <<sources, gone, sent>>
taskVars == <<taken, task, result>>
readVars == <<buffer, reading, watched, delivered>>
vars     == <<wireVars, taskVars, readVars>>

TypeOK ==
  /\ sources \subseteq Sources
  /\ gone \subseteq Sources
  /\ sent \in [Sources -> 0..MaxItems]
  /\ taken \in [Sources -> 0..MaxItems]
  /\ task \in [Sources -> {"none", "waiting", "done"}]
  /\ result \in [Sources -> 0..MaxItems]
  /\ buffer \in Seq(Sources \X (0..MaxItems))
  /\ reading \in BOOLEAN
  /\ watched \subseteq Sources
  /\ delivered \in [Sources -> 0..MaxItems]

Init ==
  /\ sources = {Manual}
  /\ gone = {}
  /\ sent = [s \in Sources |-> 0]
  /\ taken = [s \in Sources |-> 0]
  /\ task = [s \in Sources |-> "none"]
  /\ result = [s \in Sources |-> 0]
  /\ buffer = <<>>
  /\ reading = FALSE
  /\ watched = {}
  /\ delivered = [s \in Sources |-> 0]

-----------------------------------------------------------------------------
(* The wires.                                                              *)

\* Pipe.put() on a wire, or put() on the FanInPipe itself.
Send(s) ==
  /\ s \in sources
  /\ sent[s] < MaxItems
  /\ sent' = [sent EXCEPT ![s] = @ + 1]
  /\ UNCHANGED <<sources, gone, taskVars, readVars>>

AddSource(s) ==
  /\ s \notin sources \cup gone
  /\ sources' = sources \cup {s}
  /\ UNCHANGED <<gone, sent, taskVars, readVars>>

\* The task is forgotten and, unless it has finished, cancelled.  A result it
\* already holds goes with it.
RemoveSource(s) ==
  /\ s \in sources \ {Manual}
  /\ sources' = sources \ {s}
  /\ gone' = gone \cup {s}
  /\ task' = [task EXCEPT ![s] = "none"]
  /\ result' = [result EXCEPT ![s] = 0]
  /\ UNCHANGED <<sent, taken, readVars>>

\* Defect: an empty pipe is read.
MayHaveItem(s) == taken[s] <= sent[s]

\* The pipe of s is not empty.
HasItem(s) == taken[s] < sent[s]

\* A get() task gets its item, whether or not anyone is waiting for it.
TaskTakes(s) ==
  /\ task[s] = "waiting"
  /\ HasItem(s)
  /\ taken' = [taken EXCEPT ![s] = @ + 1]
  /\ task' = [task EXCEPT ![s] = "done"]
  /\ result' = [result EXCEPT ![s] = taken[s] + 1]
  /\ UNCHANGED <<wireVars, readVars>>

-----------------------------------------------------------------------------
(* The reader.                                                             *)

Finished == {s \in Sources : task[s] = "done"}

\* Defect: only the result handed out is kept.
DrainKeepsFirst ==
  \E s \in Finished :
    /\ delivered' = [delivered EXCEPT ![s] = result[s]]
    /\ task' = [r \in Sources |-> IF r \in Finished THEN "none" ELSE task[r]]
    /\ result' = [r \in Sources |-> IF r \in Finished THEN 0 ELSE result[r]]
    /\ UNCHANGED buffer

\* _drain_done() with something to collect: the finished tasks are forgotten,
\* one result is returned and the others are buffered, in some order.
Drain ==
  LET n == Cardinality(Finished) IN
  \E order \in Bijection(1..n, Finished) :
    /\ delivered' = [delivered EXCEPT ![order[1]] = result[order[1]]]
    /\ buffer' = buffer \o [i \in 1..(n - 1) |-> <<order[i + 1], result[order[i + 1]]>>]
    /\ task' = [s \in Sources |-> IF s \in Finished THEN "none" ELSE task[s]]
    /\ result' = [s \in Sources |-> IF s \in Finished THEN 0 ELSE result[s]]

\* Defect: tasks are created only once, together.
ArmOnce ==
  /\ task' = [s \in Sources |-> IF s \in sources /\ \A r \in Sources : task[r] = "none"
                                THEN "waiting" ELSE task[s]]
  /\ watched' = {s \in sources : task'[s] = "waiting"}

\* _arm(), then the snapshot of _pending that asyncio.wait() is given.
Arm ==
  /\ task' = [s \in Sources |-> IF s \in sources /\ task[s] = "none"
                                THEN "waiting" ELSE task[s]]
  /\ watched' = sources

GetBuffered ==
  /\ ~reading
  /\ buffer # <<>>
  /\ delivered' = [delivered EXCEPT ![Head(buffer)[1]] = Head(buffer)[2]]
  /\ buffer' = Tail(buffer)
  /\ UNCHANGED <<wireVars, taskVars, reading, watched>>

GetFinished ==
  /\ ~reading
  /\ buffer = <<>>
  /\ Finished # {}
  /\ Drain
  /\ UNCHANGED <<wireVars, taken, reading, watched>>

\* Defects: finished tasks are replaced before they are collected, which an
\* earlier version of _arm() did; the buffer is not looked at first.
GetWaitsUndrained ==
  /\ ~reading
  /\ buffer = <<>>
  /\ task' = [s \in Sources |-> IF s \in sources THEN "waiting" ELSE task[s]]
  /\ watched' = sources
  /\ reading' = TRUE
  /\ UNCHANGED <<wireVars, taken, result, buffer, delivered>>

GetWaitsBehindBuffer ==
  /\ ~reading
  /\ Finished = {}
  /\ Arm
  /\ reading' = TRUE
  /\ UNCHANGED <<wireVars, taken, result, buffer, delivered>>

\* Nothing to hand out: get() arms the tasks and waits for one of them.
GetWaits ==
  /\ ~reading
  /\ buffer = <<>>
  /\ Finished = {}
  /\ Arm
  /\ reading' = TRUE
  /\ UNCHANGED <<wireVars, taken, result, buffer, delivered>>

\* One of the tasks waited for is over: it has its item, or it was cancelled.
Woken == reading /\ \E s \in watched : task[s] # "waiting"

WakeDelivers ==
  /\ Woken
  /\ Finished # {}
  /\ Drain
  /\ reading' = FALSE
  /\ watched' = {}
  /\ UNCHANGED <<wireVars, taken>>

WakeRearms ==
  /\ Woken
  /\ Finished = {}
  /\ Arm
  /\ UNCHANGED <<wireVars, taken, result, buffer, reading, delivered>>

\* The wait_for() around get() times out, or stop() or pause() cancels the
\* node's loop: the wait ends, the tasks stay.
Abandon ==
  /\ reading
  /\ reading' = FALSE
  /\ watched' = {}
  /\ UNCHANGED <<wireVars, taskVars, buffer, delivered>>

-----------------------------------------------------------------------------
Get == GetBuffered \/ GetFinished \/ GetWaits
Wake == WakeDelivers \/ WakeRearms

Next ==
  \/ \E s \in Sources : Send(s) \/ AddSource(s) \/ RemoveSource(s) \/ TaskTakes(s)
  \/ Get \/ Wake \/ Abandon

Spec == Init /\ [][Next]_vars

(***************************************************************************)
(* The event loop runs every task that can go on, the node calls get()     *)
(* again after each item and each timeout, and a reader that reads with a  *)
(* timeout does time out.  Nothing makes an upstream node send.            *)
(***************************************************************************)
Fairness ==
  /\ \A s \in Sources : WF_vars(TaskTakes(s))
  /\ WF_vars(Get)
  /\ WF_vars(Wake)
  /\ ReaderTimesOut => WF_vars(Abandon)

FairSpec == Spec /\ Fairness

-----------------------------------------------------------------------------
(* Properties.                                                             *)

\* FanInPipe keeps the promise of MergedInput: each source's items reach the
\* reader in order, none twice, none skipped, none invented, whatever wait is
\* abandoned and whatever wire is added or removed meanwhile.
Merged == INSTANCE MergedInput WITH
            Sources <- Sources, sent <- sent, delivered <- delivered
ImplementsMergedInput == Merged!Spec

Buffered(s) == \E i \in 1..Len(buffer) : buffer[i][1] = s

\* An item that has left the pipe of a wire still in place is never lost: it
\* has been handed out, or is in the buffer, or is held by the pending task.
NothingLost ==
  \A s \in sources :
    taken[s] = delivered[s] + (IF Buffered(s) \/ task[s] = "done" THEN 1 ELSE 0)

\* The buffer holds at most one item of each source, so it never grows with
\* the traffic, and a source with an item there has no task running ahead.
OneAheadPerSource ==
  /\ \A i, j \in 1..Len(buffer) : buffer[i][1] = buffer[j][1] => i = j
  /\ \A s \in Sources : Buffered(s) => task[s] = "none"

\* Every item put into a wire that stays in place reaches the reader.
EverythingArrives ==
  \A s \in Sources, n \in 1..MaxItems :
    (s \in sources /\ sent[s] >= n) ~> (delivered[s] >= n \/ s \notin sources)
=============================================================================
