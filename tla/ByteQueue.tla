----------------------------- MODULE ByteQueue ------------------------------
(***************************************************************************)
(* What a pipe promises about its bytes: a bounded first-in first-out      *)
(* queue.                                                                  *)
(***************************************************************************)
EXTENDS Naturals, Sequences

CONSTANTS Bytes, Capacity

VARIABLES queue,  \* bytes written and not yet read
          last    \* the byte read last

Init == queue = <<>> /\ last \in Bytes

Send(v) == /\ Len(queue) < Capacity
           /\ queue' = Append(queue, v) /\ UNCHANGED last

Receive == /\ queue # <<>>
           /\ last' = Head(queue) /\ queue' = Tail(queue)

Next == Receive \/ \E v \in Bytes : Send(v)

Spec == Init /\ [][Next]_<<queue, last>>
=============================================================================
