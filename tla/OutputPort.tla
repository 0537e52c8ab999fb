---------------------------- MODULE OutputPort ----------------------------
(***************************************************************************)
(* An output port of a node: add_output(), remove_output(),                *)
(* add_output_if_unwired(), emit() and manual_emit() of core/node.py.      *)
(*                                                                         *)
(* emit() makes a task for each consumer, which puts the item into that    *)
(* consumer's pipe; the event loop runs those tasks in the order they were *)
(* made, and the pipes have no limit.  A consumer of the kind "raw" gets   *)
(* the bare value of the item.  The items are numbered as they are made.   *)
(*                                                                         *)
(* A definition marked "Defect" is a wrong version of the one after it, to *)
(* check that the properties would notice; no specification uses it.       *)
(***************************************************************************)
EXTENDS Naturals, Sequences, FiniteSets, Functions, SequencesExt

CONSTANTS
  Consumers,   \* the pipes of the wires that may be drawn from the port
  OwnOut,      \* the pipe a self-contained node makes for itself in init()
  MaxLast,     \* _max_last: how many records the node keeps
  MaxEmits     \* how many emissions there are, replays included

ASSUME OutputPortAssumption ==
  /\ OwnOut \notin Consumers
  /\ MaxLast \in Nat \ {0}
  /\ MaxEmits \in Nat

OutPipes == Consumers \cup {OwnOut}
Kinds    == {"data", "raw"}

VARIABLES
  outputs,      \* outputs of the port: <<pipe, kind>> of each consumer
  ownPlaced,    \* whether _fallback_output_pipes has the node's own pipe
  unwired,      \* wires that were removed: each has a pipe of its own
  puts,         \* the put tasks made and not run: <<pipe, payload>>
  received,     \* history: the payloads put into each pipe
  drawn,        \* history: the <<wire, kind>> that are drawn
  due,          \* history: the payloads emitted while each wire was drawn
  last,         \* _last_items: the items emitted, and 0 for an attribute set
  emitted,      \* history: the number of items made so far
  newest,       \* history: the item of the last emission since a reset, or 0
  emissions,    \* how many emissions there were
  stale         \* history: whether a manual emit replayed another item than the
                \* last one emitted

portVars  == <<outputs, ownPlaced, unwired, puts, received, drawn, due>>
lastVars  == <<last, emitted, newest, emissions, stale>>
outputVars == <<portVars, lastVars>>

OutputInit ==
  /\ outputs = <<>> /\ ownPlaced = FALSE /\ unwired = {}
  /\ puts = <<>> /\ drawn = {}
  /\ received = [p \in OutPipes |-> <<>>] /\ due = [p \in OutPipes |-> <<>>]
  /\ last = <<>> /\ emitted = 0 /\ newest = 0
  /\ emissions = 0 /\ stale = FALSE

Wired == {x[1] : x \in Range(outputs)}

-----------------------------------------------------------------------------
(* The wires.                                                              *)

\* Defect: the last wire takes the port over, as it did before fan-out.
AddOutputTakesOver(p, kind) ==
  /\ p \notin Wired \cup unwired
  /\ outputs' = <<<<p, kind>>>>
  /\ ownPlaced' = FALSE
  /\ drawn' = drawn \cup {<<p, kind>>}
  /\ UNCHANGED <<unwired, puts, received, due, lastVars>>

\* add_output(): the node's own pipe makes room for the first real wire.
AddOutput(p, kind) ==
  /\ p \notin Wired \cup unwired
  /\ LET kept == IF ownPlaced /\ outputs = <<<<OwnOut, "data">>>> THEN <<>> ELSE outputs IN
     outputs' = Append(kept, <<p, kind>>)
  /\ ownPlaced' = FALSE
  /\ drawn' = drawn \cup {<<p, kind>>}
  /\ UNCHANGED <<unwired, puts, received, due, lastVars>>

\* add_output_if_unwired(), which init() calls at every start.
AddOutputIfUnwired ==
  /\ outputs = <<>>
  /\ outputs' = <<<<OwnOut, "data">>>>
  /\ ownPlaced' = TRUE
  /\ UNCHANGED <<unwired, puts, received, drawn, due, lastVars>>

\* remove_output().
RemoveOutput(p) ==
  /\ p \in Consumers
  /\ \E i \in DOMAIN outputs : outputs[i][1] = p /\ outputs' = RemoveAt(outputs, i)
  /\ unwired' = unwired \cup {p}
  /\ drawn' = {x \in drawn : x[1] # p}
  /\ UNCHANGED <<ownPlaced, puts, received, due, lastVars>>

-----------------------------------------------------------------------------
(* Emissions.                                                              *)

Payload(item, kind) == IF kind = "raw" THEN <<"bare", item>> ELSE <<"whole", item>>

\* The newest MaxLast records.
Trimmed(records) ==
  IF Len(records) <= MaxLast THEN records
  ELSE SubSeq(records, Len(records) - MaxLast + 1, Len(records))

\* Those an emission is due to: the wires drawn, or else the node's own pipe.
DueTo == IF drawn = {} /\ ownPlaced THEN {<<OwnOut, "data">>} ELSE drawn

\* emit(): the item is recorded, and a put task made for each
\* consumer there is.
EmitItem(item) ==
  /\ emissions < MaxEmits
  /\ emissions' = emissions + 1
  /\ last' = Trimmed(Append(last, item))
  /\ newest' = item
  /\ puts' = puts \o [i \in DOMAIN outputs |-> <<outputs[i][1], Payload(item, outputs[i][2])>>]
  /\ due' = [p \in OutPipes |->
               due[p] \o SetToSeq({Payload(item, x[2]) : x \in {y \in DueTo : y[1] = p}})]
  /\ UNCHANGED <<outputs, ownPlaced, unwired, received, drawn>>

Emit ==
  /\ EmitItem(emitted + 1)
  /\ emitted' = emitted + 1
  /\ UNCHANGED stale

PutRuns ==
  /\ puts # <<>>
  /\ LET put == Head(puts) IN received' = [received EXCEPT ![put[1]] = Append(@, put[2])]
  /\ puts' = Tail(puts)
  /\ UNCHANGED <<outputs, ownPlaced, unwired, drawn, due, lastVars>>

\* Defect: the records are walked from the oldest on.
ReplayableOldest ==
  {last[i] : i \in {j \in DOMAIN last : last[j] # 0 /\ \A k \in DOMAIN last : k < j => last[k] = 0}}

\* What manual_emit() may replay: the item of the newest record that has one.
Replayable ==
  {last[i] : i \in {j \in DOMAIN last : last[j] # 0 /\ \A k \in DOMAIN last : k > j => last[k] = 0}}

\* manual_emit(), of a type whose manual_emit_seed() has nothing to offer.
ManualEmit ==
  /\ \E item \in Replayable :
       /\ EmitItem(item)
       /\ stale' = (stale \/ item # newest)
  /\ UNCHANGED emitted

\* set_attribute() and record_output() leave a record that is not replayed.
Record ==
  /\ last' = Trimmed(Append(last, 0))
  /\ UNCHANGED <<portVars, emitted, newest, emissions, stale>>

\* reset(), or a new instance in place of this one, as far as the port goes.
Reset ==
  /\ last # <<>>
  /\ last' = <<>>
  /\ newest' = 0
  /\ UNCHANGED <<portVars, emitted, emissions, stale>>

OutputNext ==
  \/ \E p \in Consumers, kind \in Kinds : AddOutput(p, kind)
  \/ \E p \in Consumers : RemoveOutput(p)
  \/ AddOutputIfUnwired
  \/ Emit \/ PutRuns \/ ManualEmit \/ Record
  \/ Reset

OutputSpec == OutputInit /\ [][OutputNext]_outputVars

-----------------------------------------------------------------------------
(* Properties.                                                             *)

\* The first n puts that are made and not run, as far as they are for p.
Pending(p, n) == {i \in 1..n : puts[i][1] = p}

\* A consumer gets each item emitted while its wire was drawn, once, in order
\* and in its own kind, whatever other wires came and went; the node's own pipe
\* gets nothing once there is a wire.
EachConsumerGetsAll ==
  \A p \in OutPipes :
    LET all == Pending(p, Len(puts)) IN
    /\ Len(due[p]) = Len(received[p]) + Cardinality(all)
    /\ \A k \in DOMAIN received[p] : received[p][k] = due[p][k]
    /\ \A i \in all : puts[i][2] = due[p][Len(received[p]) + Cardinality(Pending(p, i))]

\* manual_emit() replays what the port emitted last, and nothing from before a
\* reset, however many records of other kinds there are.
ReplaysTheNewest == ~stale

\* The output port, as a whole.
OutputPortKept == EachConsumerGetsAll /\ ReplaysTheNewest
=============================================================================
