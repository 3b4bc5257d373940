-------------------------------- MODULE Fifo --------------------------------
(***************************************************************************)
(* What the queues between threads promise: values come out once and in    *)
(* the order in which they went in, and never more than Capacity wait.     *)
(***************************************************************************)
EXTENDS Naturals, Sequences

CONSTANTS Values, Capacity

VARIABLES queue, received

Init == queue = <<>> /\ received = <<>>

Push(v) ==
  /\ Len(queue) < Capacity
  /\ queue' = Append(queue, v)
  /\ UNCHANGED received

Pop ==
  /\ queue # <<>>
  /\ received' = Append(received, Head(queue))
  /\ queue' = Tail(queue)

Next == Pop \/ \E v \in Values : Push(v)

Spec == Init /\ [][Next]_<<queue, received>>
=============================================================================
