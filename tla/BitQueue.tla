------------------------------ MODULE BitQueue ------------------------------
(***************************************************************************)
(* What a Temporary promises (src/sio/temp.go: "It operates as a FIFO      *)
(* queue with a fixed capacity"): bits come out in the order they went in. *)
(***************************************************************************)
EXTENDS Integers, Sequences

CONSTANTS Capacity,          \* in bits
          NoError,           \* the nil error of Send
          ErrChannelFull     \* its other answer

VARIABLES queue,   \* the bits sent and not received
          last     \* what the last call gave back: a bit, or the error of a Send

vars == <<queue, last>>

Init == queue = <<>> /\ last = NoError

Send(bit) == IF Len(queue) < Capacity
             THEN queue' = Append(queue, bit) /\ last' = NoError
             ELSE queue' = queue /\ last' = ErrChannelFull

Receive == /\ queue # <<>>
           /\ last' = Head(queue)
           /\ queue' = Tail(queue)

Rewind == queue' = <<>> /\ last' = NoError

Next == Receive \/ Rewind \/ \E bit \in BOOLEAN : Send(bit)

Spec == Init /\ [][Next]_vars
=============================================================================
