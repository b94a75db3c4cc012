------------------------------ MODULE BarStream ------------------------------
(***************************************************************************)
(* What a bar feed promises its consumer (data/feed.py): bars close one    *)
(* after the other, none is ever revised, and the consumer receives the    *)
(* bars that closed, in the order they closed, each of them once.          *)
(***************************************************************************)
EXTENDS Naturals, Sequences

CONSTANT Bars        \* the bars a market may produce
VARIABLES closed,    \* the bars closed so far
          delivered  \* what the consumer has been handed

vars == <<closed, delivered>>

Init == closed = <<>> /\ delivered = <<>>

Close ==
  /\ \E bar \in Bars : closed' = Append(closed, bar)
  /\ UNCHANGED delivered

Deliver ==
  /\ Len(delivered) < Len(closed)
  /\ delivered' = Append(delivered, closed[Len(delivered) + 1])
  /\ UNCHANGED closed

Next == Close \/ Deliver

Spec == Init /\ [][Next]_vars
=============================================================================
