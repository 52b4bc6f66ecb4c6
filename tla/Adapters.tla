------------------------------ MODULE Adapters ------------------------------
(***************************************************************************)
(* SendAsUint8, 16 and 32 and ReceiveAsUint8, 16 and 32 of src/sio/as.go,  *)
(* on a Temporary (module Temp) or on a Tape (module Tape), between the    *)
(* single bits that a program sends and the resets that rewind the         *)
(* channel.  The two differ in when an iterator steps past the bit that it *)
(* yields: a Temporary before, a Tape after.                               *)
(*                                                                         *)
(* A step is a bit.  A value is the set of its bits that are 1.            *)
(***************************************************************************)
EXTENDS Integers, SequencesExt

CONSTANTS Capacity, NoError, ErrChannelFull,   \* of module Temp
          Width, Tapes,                        \* of module Tape
          Sizes,      \* the bits of a value: 8, 16 or 32
          Values,     \* what is sent, pairs of a size and a value
          MaxSent,    \* bound of the model: bits sent to a Tape
          NoLoop

VARIABLES tape,                                      \* whether the channel is a Tape
          ReadIndex, WriteIndex, Size, Data, last,   \* the Temporary
          Input, readIndex, hasInput, lastInput,     \* the Tape
          nextOutput, writeIndex, Output, sent, lost,
          pc,       \* "idle", "receive" or "send"
          size, n, value,   \* the loop's: n bits of the value are dealt with
          before,   \* history: what the channel held when the last ReceiveAs began
          got,      \* history: the whole values it has yielded
          stopped   \* history: whether its caller stopped it at the last of them

Tmp == INSTANCE Temp
Tp == INSTANCE Tape

tempVars == <<ReadIndex, WriteIndex, Size, Data, last>>
inVars == <<Input, readIndex, hasInput, lastInput>>
outVars == <<nextOutput, writeIndex, Output, sent, lost>>
tapeVars == <<inVars, outVars>>
loop == <<size, n, value>>
history == <<before, got, stopped>>
vars == <<tape, tempVars, tapeVars, pc, loop, history>>

ASSUME CapacityAssumption == Capacity \in Nat
ASSUME TapeAssumption == Width \in Nat \ {0} /\ Tapes \subseteq Seq(SUBSET (0 .. Width - 1))
ASSUME AdaptersAssumption == Sizes \subseteq Nat \ {0} /\ MaxSent \in Nat

Left == IF tape THEN Tp!Left ELSE [i \in 1 .. Size |-> Data[Tmp!At(i)]]

NoHistory == before' = NoLoop /\ got' = <<>> /\ stopped' = FALSE

-----------------------------------------------------------------------------
(* The channel: a round of its iterator, after which the consumer goes on  *)
(* or stops; what it yields; and a Send.                                   *)

Yields == IF tape THEN Tp!HasBit ELSE Size > 0
Bit == IF tape THEN Tp!Bit ELSE Data[ReadIndex]

Round(goesOn) ==
    IF tape THEN /\ IF goesOn THEN Tp!Receive ELSE Tp!Stop
                 /\ UNCHANGED <<tempVars, outVars>>
            ELSE Tmp!Receive /\ UNCHANGED tapeVars

ChannelSend(bit) ==
    IF tape THEN Tp!Send(bit) /\ UNCHANGED <<tempVars, inVars>>
            ELSE Tmp!Send(bit) /\ UNCHANGED tapeVars

(* The bound of the model.                                                 *)
RoomFor(bits) == tape => Len(sent) + bits =< MaxSent

-----------------------------------------------------------------------------
(* ReceiveAsUint.                                                          *)

ReceiveAs(s) == /\ pc = "idle"
                /\ pc' = "receive" /\ size' = s /\ n' = 0 /\ value' = {}
                /\ before' = Left /\ got' = <<>> /\ stopped' = FALSE
                /\ UNCHANGED <<tape, tempVars, tapeVars>>

Collected == IF Bit THEN value \cup {n} ELSE value

Collect == /\ pc = "receive" /\ Yields /\ n # size - 1
           /\ Round(TRUE)
           /\ value' = Collected /\ n' = n + 1
           /\ UNCHANGED <<tape, pc, size, history>>

(* Mutant of YieldValue: the next value starts with the bits of this one.  *)
YieldValue_keeps(goesOn) ==
    /\ pc = "receive" /\ Yields /\ n = size - 1
    /\ Round(goesOn)
    /\ got' = Append(got, Collected) /\ value' = Collected /\ n' = 0
    /\ stopped' = ~goesOn /\ pc' = IF goesOn THEN "receive" ELSE "idle"
    /\ UNCHANGED <<tape, size, before>>

YieldValue(goesOn) ==
    /\ pc = "receive" /\ Yields /\ n = size - 1
    /\ Round(goesOn)
    /\ got' = Append(got, Collected) /\ value' = {} /\ n' = 0
    /\ stopped' = ~goesOn /\ pc' = IF goesOn THEN "receive" ELSE "idle"
    /\ UNCHANGED <<tape, size, before>>

(* The channel has no more, or its reader fails; n bits of a last value,   *)
(* if there are any, are yielded as they are.                              *)
Exhausted == /\ pc = "receive" /\ (~Yields \/ (tape /\ Tp!Reads))
             /\ pc' = "idle"
             /\ UNCHANGED <<tape, tempVars, tapeVars, loop, history>>

-----------------------------------------------------------------------------
(* SendAsUint, and the rest.                                               *)

SendAs(s, v) == /\ pc = "idle" /\ RoomFor(s)
                /\ pc' = "send" /\ size' = s /\ n' = 0 /\ value' = v
                /\ NoHistory
                /\ UNCHANGED <<tape, tempVars, tapeVars>>

(* It returns at the first error: the bits before it stay sent.            *)
SendNext == /\ pc = "send"
            /\ ChannelSend(n \in value)
            /\ LET full == ~tape /\ last' = ErrChannelFull
                   ends == full \/ n + 1 = size
               IN  /\ pc' = IF ends THEN "idle" ELSE "send"
                   /\ n' = IF ends THEN 0 ELSE n + 1
                   /\ value' = IF ends THEN {} ELSE value
            /\ UNCHANGED <<tape, size, history>>

SendBit(bit) == /\ pc = "idle" /\ RoomFor(1)
                /\ ChannelSend(bit)
                /\ n' = 0 /\ value' = {} /\ NoHistory
                /\ UNCHANGED <<tape, pc, size>>

(* Cpu.Reset rewinds its channels, which a tape cannot be.                 *)
Reset == /\ pc = "idle"
         /\ IF tape THEN UNCHANGED tempVars ELSE Tmp!Rewind
         /\ n' = 0 /\ value' = {} /\ NoHistory
         /\ UNCHANGED <<tape, tapeVars, pc, size>>

Init == /\ tape \in BOOLEAN
        /\ Tmp!Init /\ Tp!Init
        /\ pc = "idle" /\ size \in Sizes /\ n = 0 /\ value = {}
        /\ before = NoLoop /\ got = <<>> /\ stopped = FALSE

Next == \/ \E s \in Sizes : ReceiveAs(s)
        \/ Collect \/ Exhausted
        \/ \E goesOn \in BOOLEAN : YieldValue(goesOn)
        \/ \E v \in Values : SendAs(v[1], v[2])
        \/ SendNext \/ Reset
        \/ \E bit \in BOOLEAN : SendBit(bit)

Spec == Init /\ [][Next]_vars

-----------------------------------------------------------------------------
(* Properties.                                                             *)

(* A Temporary is a bounded first-in first-out queue whose indexes stay    *)
(* within it, also under the adapters: see module Temp.                    *)
IndexesFit == Tmp!IndexesFit
RefinesBitQueue == Tmp!RefinesBitQueue

BytesSent == Len(sent) \div Width
ByteSent(k) == {b \in 0 .. Width - 1 : sent[(k - 1) * Width + b + 1]}
Written(k) == 1 .. k \ lost

(* The output of a Tape is the bits sent, a byte for each Width of them,   *)
(* the first the lowest, whatever the calls they came in.  A write that    *)
(* fails loses its own byte and shifts no other, and what the file ends    *)
(* without is the bits of one byte at most.                                *)
OutputAligned ==
    /\ Len(Output) = Cardinality(Written(BytesSent))
    /\ \A k \in Written(BytesSent) : Output[Cardinality(Written(k))] = ByteSent(k)
    /\ writeIndex = Len(sent) % Width
    /\ nextOutput = {b \in 0 .. writeIndex - 1 : sent[BytesSent * Width + b + 1]}

(* The values that ReceiveAs yields, the bits it has collected, and what   *)
(* it has left in the channel are the bits that were there, each once and  *)
(* in their order, and a last value that is cut off ends in zeros.  Only a *)
(* caller that stops at a value finds the last bit of it again on a Tape,  *)
(* and on a Tape alone.                                                    *)
BytesInOrder ==
    before # NoLoop =>
        LET given == Tp!BitsOf(Append(got, value), size, 0, Len(got) * size + n)
        IN  /\ value \subseteq 0 .. n - 1
            /\ before = (IF tape /\ stopped THEN Front(given) ELSE given) \o Left
=============================================================================
