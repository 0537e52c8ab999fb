---------------------------- MODULE MergedInput ----------------------------
(***************************************************************************)
(* What a data input port with several wires promises the node behind it:  *)
(* each wire's items reach the node one by one, in the order they were     *)
(* sent, none twice and none skipped.  How the wires interleave is open.   *)
(*                                                                         *)
(* The items of a wire are numbered as they are sent, so an item is its    *)
(* number and a wire's whole history is two counters.                      *)
(***************************************************************************)
EXTENDS Naturals

CONSTANT Sources  \* the wires

VARIABLES
  sent,      \* how many items each wire has carried
  delivered  \* the last item of each wire the node has received

Init ==
  /\ sent = [s \in Sources |-> 0]
  /\ delivered = [s \in Sources |-> 0]

Send(s) ==
  /\ sent' = [sent EXCEPT ![s] = @ + 1]
  /\ UNCHANGED delivered

Deliver(s) ==
  /\ delivered[s] < sent[s]
  /\ delivered' = [delivered EXCEPT ![s] = @ + 1]
  /\ UNCHANGED sent

Next == \E s \in Sources : Send(s) \/ Deliver(s)

Spec == Init /\ [][Next]_<<sent, delivered>>
=============================================================================
