-------------------------------- MODULE Temp --------------------------------
(***************************************************************************)
(* The Temporary channel of src/sio/temp.go: a circular buffer of bits.    *)
(* Receive is a Go iterator; an action Receive is one of its rounds, with  *)
(* the bit yielded to the consumer, which may stop there.  The emulator    *)
(* rewinds the channel (Cpu.Reset) before a program can use it: Init is    *)
(* the state Rewind leaves.  Module Adapters puts the operations together. *)
(***************************************************************************)
EXTENDS Integers

CONSTANTS Capacity,          \* in bits
          NoError,           \* the nil error of Send
          ErrChannelFull     \* its other answer

VARIABLES ReadIndex, WriteIndex, Size,
          Data,    \* the buffer, a bit at each index below Capacity
          last     \* what the last call gave back: a bit, or the error of a Send

Indexes == 0 .. Capacity - 1

(* The index after i; the code's wrap to 0 at Capacity.                    *)
Succ(i) == IF i + 1 = Capacity THEN 0 ELSE i + 1

(* Mutant of Send: the limit is tested one bit too late.                   *)
Send_late(bit) ==
    IF Size > Capacity
    THEN last' = ErrChannelFull /\ UNCHANGED <<ReadIndex, WriteIndex, Size, Data>>
    ELSE /\ Data' = [Data EXCEPT ![WriteIndex] = bit]
         /\ WriteIndex' = Succ(WriteIndex)
         /\ Size' = Size + 1
         /\ last' = NoError
         /\ UNCHANGED ReadIndex

Send(bit) ==
    IF Size >= Capacity
    THEN last' = ErrChannelFull /\ UNCHANGED <<ReadIndex, WriteIndex, Size, Data>>
    ELSE /\ Data' = [Data EXCEPT ![WriteIndex] = bit]
         /\ WriteIndex' = Succ(WriteIndex)
         /\ Size' = Size + 1
         /\ last' = NoError
         /\ UNCHANGED ReadIndex

Receive == /\ Size > 0
           /\ last' = Data[ReadIndex]
           /\ ReadIndex' = Succ(ReadIndex)
           /\ Size' = Size - 1
           /\ UNCHANGED <<WriteIndex, Data>>

(* Mutant of Rewind: the write index stays where it was.                   *)
Rewind_keepsWrite == /\ ReadIndex' = 0 /\ Size' = 0
                     /\ Data' = [i \in Indexes |-> FALSE]
                     /\ last' = NoError
                     /\ UNCHANGED WriteIndex

Rewind == /\ ReadIndex' = 0 /\ WriteIndex' = 0 /\ Size' = 0
          /\ Data' = [i \in Indexes |-> FALSE]
          /\ last' = NoError

Init == /\ ReadIndex = 0 /\ WriteIndex = 0 /\ Size = 0
        /\ Data = [i \in Indexes |-> FALSE]
        /\ last = NoError

-----------------------------------------------------------------------------
(* Properties.                                                             *)

(* The index of the i-th bit of the queue, from 1.                         *)
At(i) == IF ReadIndex + i - 1 < Capacity THEN ReadIndex + i - 1
                                         ELSE ReadIndex + i - 1 - Capacity

(* No index ever leaves the buffer, which Go would answer with a panic,    *)
(* and the two indexes are Size apart: this is what tells a full buffer    *)
(* from an empty one, both of which have them equal.                       *)
IndexesFit == /\ Size \in 0 .. Capacity
              /\ Capacity > 0 => ReadIndex \in Indexes /\ WriteIndex \in Indexes
              /\ Capacity > 0 => WriteIndex = At(Size + 1)

(* The bits from ReadIndex on, round the end of the buffer, are a first-in *)
(* first-out queue of Capacity bits, across any number of wraps.           *)
Queue == INSTANCE BitQueue WITH queue <- [i \in 1 .. Size |-> Data[At(i)]]
RefinesBitQueue == Queue!Spec
=============================================================================
