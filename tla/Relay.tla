------------------------------- MODULE Relay -------------------------------
(***************************************************************************)
(* What a node that handles its input item by item promises: every item    *)
(* that reaches one of its ports is handled once, in the order of that     *)
(* port, however often the node is paused, stopped and started again.      *)
(* Only a filter may pass over an item, and only one it does not match.    *)
(***************************************************************************)
EXTENDS Sequences

CONSTANTS
  Ports,    \* the input ports
  Items     \* all items: [port, n, ok]

VARIABLES
  pending,  \* the items that wait on each port
  handled,  \* the items handled, in order
  filters   \* whether the node may pass over items that are not ok

Init ==
  /\ pending = [p \in Ports |-> <<>>]
  /\ handled = <<>>
  /\ filters \in BOOLEAN

Arrive(i) ==
  /\ pending' = [pending EXCEPT ![i.port] = Append(@, i)]
  /\ UNCHANGED <<handled, filters>>

Handle(p) ==
  /\ pending[p] # <<>>
  /\ pending' = [pending EXCEPT ![p] = Tail(@)]
  /\ handled' = Append(handled, Head(pending[p]))
  /\ UNCHANGED filters

PassOver(p) ==
  /\ filters
  /\ pending[p] # <<>>
  /\ ~Head(pending[p]).ok
  /\ pending' = [pending EXCEPT ![p] = Tail(@)]
  /\ UNCHANGED <<handled, filters>>

Next ==
  \/ \E i \in Items : Arrive(i)
  \/ \E p \in Ports : Handle(p) \/ PassOver(p)

Spec == Init /\ [][Next]_<<pending, handled, filters>>
=============================================================================
