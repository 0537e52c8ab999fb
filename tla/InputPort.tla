----------------------------- MODULE InputPort -----------------------------
(***************************************************************************)
(* A data input port of a node while wires come and go: add_input(),       *)
(* remove_input() and add_input_if_unwired() of core/node.py, and the node *)
(* that reads whatever `inputs[name]` is when it asks.                     *)
(*                                                                         *)
(* One source is read directly.  A second one makes a FanInPipe, and the   *)
(* port keeps it until one source is left; then the port reads that one    *)
(* directly again, and the FanInPipe is dropped as it is: with the get()   *)
(* task it has in flight on that pipe, with the items it has ahead, with   *)
(* what was injected into it.  Module FanInPipe has what goes on inside;   *)
(* here a FanInPipe has at most one item of each source ahead, which is    *)
(* FanInPipe!OneAheadPerSource, and hands out any of those it has.         *)
(*                                                                         *)
(* The items of a pipe are numbered as they are put, and the pipe holds    *)
(* taken[p]+1 .. sent[p].  The queue behind put() of FanInPipe number g is *)
(* the pipe g.                                                             *)
(*                                                                         *)
(* A definition marked "Defect" is a wrong version of the one after it, to *)
(* check that the properties would notice; no specification uses it.       *)
(***************************************************************************)
EXTENDS Naturals, Sequences, FiniteSets, FiniteSetsExt, Functions, SequencesExt

CONSTANTS
  Wires,      \* the pipes of the wires that may be drawn to the port
  Own,        \* the pipe a self-contained node makes for itself in init()
  MaxFans,    \* how many FanInPipes the port goes through
  MaxItems    \* how many items are put into the pipes, all together

ASSUME InputPortAssumption ==
  /\ Own \notin Wires
  /\ (Wires \cup {Own}) \cap (1..MaxFans) = {}
  /\ MaxFans \in Nat
  /\ MaxItems \in Nat

Fans     == 1..MaxFans
Pipes    == Wires \cup {Own} \cup Fans
Nothing  == <<>>

VARIABLES
  sources,      \* _input_sources of the port
  placeholder,  \* whether _fallback_input_pipes has the node's own pipe
  fan,          \* _input_fanin: the number of the FanInPipe, or 0
  made,         \* how many there have been
  members,      \* the _sources of each
  port,         \* what inputs[name] wraps, <<g>> for FanInPipe g; or Nothing
  removed,      \* wires that were removed: each has a pipe of its own
  sent,         \* items put into each pipe
  taken,        \* items that have left it
  waiting,      \* the sources each FanInPipe has a get() task waiting for
  ahead,        \* <<source, item>> it has taken and not handed out
  reading,      \* the pipe or FanInPipe the node is suspended on, or Nothing
  watched,      \* the sources whose tasks that get() waits for
  got,          \* history: the items of each source the node was given
  collapses     \* history: how often a FanInPipe was dropped for each wire

wiringVars == <<sources, placeholder, fan, made, members, port, removed, collapses>>
fanVars    == <<waiting, ahead>>
readVars   == <<reading, watched, got>>
inputVars  == <<wiringVars, sent, taken, fanVars, readVars>>

InputInit ==
  /\ sources = <<>> /\ placeholder = FALSE
  /\ fan = 0 /\ made = 0
  /\ members = [g \in Fans |-> {}]
  /\ port = Nothing
  /\ removed = {}
  /\ sent = [p \in Pipes |-> 0] /\ taken = [p \in Pipes |-> 0]
  /\ waiting = [g \in Fans |-> {}] /\ ahead = [g \in Fans |-> {}]
  /\ reading = Nothing /\ watched = {}
  /\ got = [p \in Pipes |-> <<>>]
  /\ collapses = [w \in Wires |-> 0]

-----------------------------------------------------------------------------
(* The wires.                                                              *)

\* Defect: every further source gets a FanInPipe of its own making.
AddInputAlwaysNew(w) ==
  /\ w \notin Range(sources) \cup removed
  /\ LET kept == IF placeholder THEN <<>> ELSE sources IN
     /\ sources' = Append(kept, w)
     /\ IF kept = <<>>
        THEN port' = <<w>> /\ UNCHANGED <<fan, made, members>>
        ELSE /\ made < MaxFans
             /\ made' = made + 1
             /\ fan' = made'
             /\ members' = [members EXCEPT ![fan'] = Range(sources')]
             /\ port' = <<fan'>>
  /\ placeholder' = FALSE
  /\ UNCHANGED <<removed, collapses, sent, taken, fanVars, readVars>>

\* add_input(): the node's own pipe makes room for the first real wire, the
\* second one makes a FanInPipe of both, the others join it.
AddInput(w) ==
  /\ w \notin Range(sources) \cup removed
  /\ LET kept == IF placeholder /\ sources = <<Own>> THEN <<>> ELSE sources IN
     /\ sources' = Append(kept, w)
     /\ \/ /\ kept = <<>>
           /\ port' = <<w>>
           /\ UNCHANGED <<fan, made, members>>
        \/ /\ kept # <<>> /\ fan = 0 /\ made < MaxFans
           /\ made' = made + 1
           /\ fan' = made'
           /\ members' = [members EXCEPT ![fan'] = {Head(kept), w}]
           /\ port' = <<fan'>>
        \/ /\ kept # <<>> /\ fan # 0
           /\ members' = [members EXCEPT ![fan] = @ \cup {w}]
           /\ port' = <<fan>>
           /\ UNCHANGED <<fan, made>>
  /\ placeholder' = FALSE
  /\ UNCHANGED <<removed, collapses, sent, taken, fanVars, readVars>>

\* add_input_if_unwired(), which init() calls at every start.
AddInputIfUnwired ==
  /\ port = Nothing
  /\ sources' = <<Own>>
  /\ port' = <<Own>>
  /\ placeholder' = TRUE
  /\ UNCHANGED <<fan, made, members, removed, collapses, sent, taken, fanVars, readVars>>

\* FanInPipe.remove_source(): the task is cancelled.  If it is over, its result
\* goes with it; an item that get() had collected into the buffer stays.
ForgetSource(w) ==
  IF fan = 0 THEN UNCHANGED <<members, fanVars>>
  ELSE /\ members' = [members EXCEPT ![fan] = @ \ {w}]
       /\ waiting' = [waiting EXCEPT ![fan] = @ \ {w}]
       /\ \/ UNCHANGED ahead
          \/ ahead' = [ahead EXCEPT ![fan] = {x \in @ : x[1] # w}]

\* remove_input().
RemoveInput(w) ==
  /\ \E i \in DOMAIN sources : sources[i] = w /\ sources' = RemoveAt(sources, i)
  /\ \/ /\ sources' = <<>>
        /\ fan' = 0
        /\ port' = Nothing
        /\ UNCHANGED collapses
     \/ /\ Len(sources') = 1 /\ fan # 0
        /\ fan' = 0
        /\ port' = sources'
        /\ collapses' = [collapses EXCEPT ![sources'[1]] = @ + 1]
     \/ /\ sources' # <<>> /\ ~(Len(sources') = 1 /\ fan # 0)
        /\ UNCHANGED <<fan, port, collapses>>
  /\ ForgetSource(w)
  /\ removed' = removed \cup {w}
  /\ UNCHANGED <<placeholder, made, sent, taken, readVars>>

\* A wire brings an item; or send_to_node() puts one, through put() of what the
\* port wraps.
Put(p) ==
  /\ p \in Range(sources) \cup Range(port)
  /\ MapThenSumSet(LAMBDA q : sent[q], Pipes) < MaxItems
  /\ sent' = [sent EXCEPT ![p] = @ + 1]
  /\ UNCHANGED <<wiringVars, taken, fanVars, readVars>>

-----------------------------------------------------------------------------
(* The node that reads.                                                    *)

HasItem(p) == taken[p] < sent[p]

\* A get() task takes an item, of a FanInPipe long dropped as well.
TaskTakes(g, p) ==
  /\ p \in waiting[g]
  /\ HasItem(p)
  /\ taken' = [taken EXCEPT ![p] = @ + 1]
  /\ waiting' = [waiting EXCEPT ![g] = @ \ {p}]
  /\ ahead' = [ahead EXCEPT ![g] = @ \cup {<<p, taken'[p]>>}]
  /\ UNCHANGED <<wiringVars, sent, readVars>>

IsFan(r) == r # Nothing /\ r[1] \in Fans

\* The tasks get() creates: one for each source that has none.
Arm(g) ==
  LET missing == (members[g] \cup {g}) \ {x[1] : x \in ahead[g]} IN
  /\ waiting' = [waiting EXCEPT ![g] = @ \cup missing]
  /\ watched' = missing

HandOut(g) ==
  \E x \in ahead[g] :
    /\ ahead' = [ahead EXCEPT ![g] = @ \ {x}]
    /\ got' = [got EXCEPT ![x[1]] = Append(@, x[2])]

\* get() of the port: the node reads what inputs[name] is now.
GetDirectly ==
  /\ reading = Nothing
  /\ port # Nothing /\ ~IsFan(port)
  /\ reading' = port
  /\ UNCHANGED <<wiringVars, sent, taken, fanVars, watched, got>>

Receive(p) ==
  /\ reading = <<p>>
  /\ p \notin Fans
  /\ HasItem(p)
  /\ taken' = [taken EXCEPT ![p] = @ + 1]
  /\ got' = [got EXCEPT ![p] = Append(@, taken'[p])]
  /\ reading' = Nothing
  /\ UNCHANGED <<wiringVars, sent, fanVars, watched>>

GetAhead ==
  /\ reading = Nothing
  /\ IsFan(port)
  /\ HandOut(port[1])
  /\ UNCHANGED <<wiringVars, sent, taken, waiting, reading, watched>>

GetMerged ==
  /\ reading = Nothing
  /\ IsFan(port)
  /\ ahead[port[1]] = {}
  /\ Arm(port[1])
  /\ reading' = port
  /\ UNCHANGED <<wiringVars, sent, taken, ahead, got>>

\* A task that get() waits for is over: it has its item, or it was cancelled.
Woken == IsFan(reading) /\ \E p \in watched : p \notin waiting[reading[1]]

WakeDelivers ==
  /\ Woken
  /\ HandOut(reading[1])
  /\ reading' = Nothing /\ watched' = {}
  /\ UNCHANGED <<wiringVars, sent, taken, waiting>>

WakeRearms ==
  /\ Woken
  /\ ahead[reading[1]] = {}
  /\ Arm(reading[1])
  /\ UNCHANGED <<wiringVars, sent, taken, ahead, reading, got>>

\* The read times out, or the node is paused or stopped.
Abandon ==
  /\ reading # Nothing
  /\ reading' = Nothing /\ watched' = {}
  /\ UNCHANGED <<wiringVars, sent, taken, fanVars, got>>

InputNext ==
  \/ \E w \in Wires : AddInput(w) \/ RemoveInput(w)
  \/ AddInputIfUnwired
  \/ \E p \in Pipes : Put(p) \/ Receive(p)
  \/ \E g \in Fans, p \in Pipes : TaskTakes(g, p)
  \/ GetDirectly \/ GetAhead \/ GetMerged
  \/ WakeDelivers \/ WakeRearms \/ Abandon

InputSpec == InputInit /\ [][InputNext]_inputVars

-----------------------------------------------------------------------------
(* Properties.                                                             *)

\* _input_sources, _input_fanin and inputs[] are kept by hand, three records of
\* the same wires.  Whatever was wired and unwired in between, the port reads
\* every wire there is: the only one directly, several through a FanInPipe of
\* just these; and the node's own pipe is never merged with a wire.
ReadsWhatIsWired ==
  /\ Len(sources) = 0 => port = Nothing
  /\ Len(sources) = 1 => port = sources /\ fan = 0
  /\ Len(sources) > 1 => port = <<fan>> /\ members[fan] = Range(sources)
  /\ Own \in Range(sources) => sources = <<Own>>

\* The items of p a FanInPipe has ahead that the node can still be given.
Within(p) ==
  UNION {{x[2] : x \in {y \in ahead[g] : y[1] = p}} : g \in {h \in Fans : <<h>> \in {port, reading}}}

Missing(p) == (1..taken[p]) \ (Range(got[p]) \cup Within(p))

\* remove_input() promises to leave the other sources untouched.  What it does
\* keep: the items of a wire reach the node in order and once, and a wire that
\* is there loses at most one of them each time a FanInPipe is dropped for it,
\* the one that FanInPipe's get() task takes or had taken.
OnlyCollapsesLose ==
  \A w \in Wires \ removed :
    /\ \A i, j \in DOMAIN got[w] : i < j => got[w][i] < got[w][j]
    /\ Cardinality(Missing(w)) <= collapses[w]

\* The input port, as a whole.
InputPortKept == ReadsWhatIsWired /\ OnlyCollapsesLose
=============================================================================
