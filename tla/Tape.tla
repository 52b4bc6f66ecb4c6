-------------------------------- MODULE Tape --------------------------------
(***************************************************************************)
(* The Tape channel of src/sio/tape.go: bits in and out of a stream of     *)
(* bytes.  Receive is a Go iterator: in a round of it a bit is yielded to  *)
(* the consumer, which goes on to the next round or stops at this bit.  It *)
(* is only behind the yield that the tape steps past the bit.              *)
(*                                                                         *)
(* The reader and the writer are files: a read gives a byte or an error    *)
(* (its end, or one that may pass), and a write may fail.  A byte is the   *)
(* set of its bits that are 1.  Module Adapters puts the operations        *)
(* together.                                                               *)
(***************************************************************************)
EXTENDS Integers, SequencesExt

CONSTANTS Width,     \* the bits of a byte: eight
          Tapes      \* what an input file may hold

VARIABLES Input,                            \* what has not been read of its file
          readIndex, hasInput, lastInput,   \* a byte of it, and where it is read
          nextOutput, writeIndex,           \* a byte of the output, and how far it is
          Output,                           \* the output file
          sent,                             \* history: the bits sent
          lost                              \* history: the bytes of them not written

(* A round begins with a read when there is no byte to go on with.         *)
Reads == readIndex = 0 /\ ~hasInput

HasBit == Reads => Input # <<>>
Bit == readIndex \in IF Reads THEN Head(Input) ELSE lastInput

Load == /\ Input' = IF Reads THEN Tail(Input) ELSE Input
        /\ lastInput' = IF Reads THEN Head(Input) ELSE lastInput

(* A round at whose bit the consumer stops.                                *)
Stop == /\ HasBit /\ Load
        /\ hasInput' = (hasInput \/ Reads)
        /\ UNCHANGED readIndex

(* A round after which it goes on.                                         *)
Receive == /\ HasBit /\ Load
           /\ readIndex' = (readIndex + 1) % Width
           /\ hasInput' = ((hasInput \/ Reads) /\ readIndex + 1 # Width)

With(bit) == IF bit THEN nextOutput \cup {writeIndex} ELSE nextOutput

(* Mutant of Send: the next byte starts with the bits of the last one.     *)
Send_keeps(bit) ==
    /\ sent' = Append(sent, bit)
    /\ nextOutput' = With(bit)
    /\ writeIndex' = (writeIndex + 1) % Width
    /\ Output' = IF writeIndex + 1 = Width THEN Append(Output, With(bit)) ELSE Output
    /\ UNCHANGED lost

(* The error of the write is dropped: a byte that is lost is lost silently.*)
Send(bit) ==
    /\ sent' = Append(sent, bit)
    /\ IF writeIndex + 1 # Width
       THEN /\ nextOutput' = With(bit) /\ writeIndex' = writeIndex + 1
            /\ UNCHANGED <<Output, lost>>
       ELSE /\ nextOutput' = {} /\ writeIndex' = 0
            /\ \/ Output' = Append(Output, With(bit)) /\ UNCHANGED lost
               \/ UNCHANGED Output /\ lost' = lost \cup {Len(sent') \div Width}

Init == /\ Input \in Tapes
        /\ readIndex = 0 /\ hasInput = FALSE /\ lastInput = {}
        /\ nextOutput = {} /\ writeIndex = 0 /\ Output = <<>>
        /\ sent = <<>> /\ lost = {}

-----------------------------------------------------------------------------
(* Properties.                                                             *)

(* Some of the bits of values that have w bits each, the first the lowest. *)
BitsOf(values, w, from, len) ==
    [i \in 1 .. len |-> (from + i - 1) % w \in values[((from + i - 1) \div w) + 1]]

(* The bits that a consumer has still to get.                              *)
Left == LET bytes == IF Reads THEN Input ELSE <<lastInput>> \o Input
        IN  BitsOf(bytes, Width, readIndex, Len(bytes) * Width - readIndex)
=============================================================================
