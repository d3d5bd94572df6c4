----------------------------- MODULE PacketPipe -----------------------------
(***************************************************************************)
(* What a bridge promises the device behind its UART: a bounded queue of   *)
(* packets, accepted in the order of their numbers, delivered whole, once  *)
(* and in the same order.  Which packets are accepted is left open: one    *)
(* that finds the queue full is dropped, or its sender is made to wait.    *)
(***************************************************************************)
EXTENDS Naturals, Sequences

CONSTANTS Capacity, Lengths

VARIABLES
  waiting,    \* the packets accepted and not delivered, oldest first
  delivered   \* the number of the last packet delivered

pipeVars == <<waiting, delivered>>

Init == waiting = <<>> /\ delivered = 0

Accept ==
  /\ Len(waiting) < Capacity
  /\ \E n \in Lengths :
       waiting' = Append(waiting, [num |-> delivered + Len(waiting) + 1, len |-> n])
  /\ UNCHANGED delivered

Deliver ==
  /\ waiting # <<>>
  /\ delivered' = Head(waiting).num
  /\ waiting' = Tail(waiting)

Next == Accept \/ Deliver

Spec == Init /\ [][Next]_pipeVars
=============================================================================
