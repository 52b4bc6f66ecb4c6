------------------------------- MODULE ListIO -------------------------------
(***************************************************************************)
(* The loops of `io fetch' and `io store': listInput and listOutput of     *)
(* src/cpu/cpu.go, one step per bit and per CAPP operation.  The CAPP is   *)
(* what module CappAbs says of it, and the channel is a Temporary as       *)
(* module BitQueue has it, or a Tape (src/sio/tape.go).                    *)
(*                                                                         *)
(* A tape's input is a sequence of bits here, and so is its output: its    *)
(* bytes are in module Tape.                                               *)
(***************************************************************************)
EXTENDS CappWord, Sequences

CONSTANTS Capacity,      \* of a Temporary, in bits
          Tapes,         \* the bits an input tape may hold
          Masks,         \* the masks of the program's io instructions
          Operands,      \* the operands of its list instructions
          NoError, ErrChannelFull

ASSUME BitsAreOrdered == Bits \subseteq Nat
ASSUME MasksAssumption == Tapes \subseteq Seq(BOOLEAN) /\ Masks \subseteq Words
ASSUME ChannelAssumption == Capacity \in Nat /\ NoError # ErrChannelFull

VARIABLES set, tag, data, SetsSwapped,   \* the CAPP
          tape,     \* whether the channel is a Tape: its input is not its output
          buffer,   \* the bits the channel has not yet given to a fetch
          output,   \* the bits the last store wrote to a Tape
          err,      \* the error of the last operation
          pc,       \* "idle", or where the loop is
          op,       \* "fetch" or "store"
          mask,     \* its mask
          tmp,      \* the bits of the mask not yet dealt with for this cell
          inval,    \* the ones collected for this cell
          last,     \* what the channel's last call gave back
          before    \* history: tag, data, buffer and output when the loop began

cappVars == <<set, tag, data, SetsSwapped>>
loopVars == <<op, mask, tmp, inval>>
vars == <<cappVars, tape, buffer, output, err, pc, loopVars, last, before>>

Cp == INSTANCE CappAbs WITH Images <- {}

Chan == INSTANCE BitQueue WITH queue <- buffer

List == Cp!List

(* The next bit position of the cell: the lowest.                          *)
Low == CHOOSE b \in tmp : \A c \in tmp : b =< c

(* Both return at once when the mask is zero.                              *)
Begin(o, m) == /\ pc = "idle" /\ m # {}
               /\ pc' = o /\ op' = o
               /\ mask' = m /\ tmp' = m /\ inval' = {}
               /\ before' = [tag |-> tag, data |-> data, buffer |-> buffer, output |-> output]
               /\ output' = IF o = "store" /\ tape THEN <<>> ELSE output
               /\ UNCHANGED <<cappVars, buffer, err, last>>

Return(e) == /\ pc' = "idle" /\ err' = e
             /\ before' = NoError
             /\ op' = "fetch" /\ mask' = {} /\ tmp' = {} /\ inval' = {}
             /\ UNCHANGED cappVars

-----------------------------------------------------------------------------
(* listInput.                                                              *)

(* A bit of the iterator, for a cell there is.                             *)
TakeBit == /\ pc = "fetch" /\ List # {}
           /\ Chan!Receive
           /\ inval' = IF last' THEN inval \cup {Low} ELSE inval
           /\ tmp' = tmp \ {Low}
           /\ pc' = IF tmp' = {} THEN "write" ELSE "fetch"
           /\ UNCHANGED <<cappVars, output, err, op, mask, before>>

(* Mutant of ListFull: a Tape steps past the bit before it hands it out.   *)
ListFull_steps == /\ pc = "fetch" /\ List = {} /\ buffer # <<>>
                  /\ Chan!Receive
                  /\ Return(NoError)
                  /\ UNCHANGED output

(* The iterator of a Tape, when the loop stops at a bit.                   *)
TapeBitKept == tape /\ UNCHANGED <<buffer, last>>

(* A bit of the iterator, and no cell left: the loop stops at this bit.    *)
ListFull == /\ pc = "fetch" /\ List = {} /\ buffer # <<>>
            /\ TapeBitKept \/ (~tape /\ Chan!Receive)
            /\ Return(NoError)
            /\ UNCHANGED output

(* Mutant of InputEnds: with cells left, the fetch waits for more input.   *)
InputEnds_waits == /\ pc = "fetch" /\ buffer = <<>> /\ List = {}
                   /\ Return(NoError)
                   /\ UNCHANGED <<buffer, output, last>>

InputEnds == /\ pc = "fetch" /\ buffer = <<>>
             /\ Return(NoError)
             /\ UNCHANGED <<buffer, output, last>>

WriteFirst == /\ pc = "write" /\ pc' = "next"
              /\ Cp!WriteFirst(inval, mask)
              /\ UNCHANGED <<buffer, output, err, loopVars, last, before>>

-----------------------------------------------------------------------------
(* listOutput.                                                             *)

TapeSend(bit) == /\ tape
                 /\ output' = Append(output, bit) /\ last' = NoError
                 /\ UNCHANGED buffer

SendBit == /\ pc = "store" /\ List # {}
           /\ LET bit == Low \in data[Cp!First]
              IN  TapeSend(bit) \/ (~tape /\ Chan!Send(bit) /\ UNCHANGED output)
           /\ IF last' = ErrChannelFull
              THEN Return(last')
              ELSE /\ tmp' = tmp \ {Low}
                   /\ pc' = IF tmp' = {} THEN "next" ELSE "store"
                   /\ UNCHANGED <<cappVars, err, op, mask, inval, before>>

ListEnds == /\ pc = "store" /\ List = {}
            /\ Return(NoError)
            /\ UNCHANGED <<buffer, output, last>>

(* Mutant of ListNext: the next cell starts with the bits of the last one.    *)
ListNext_keepsInval == /\ pc = "next" /\ pc' = op
                       /\ Cp!ListNext
                       /\ tmp' = mask
                       /\ UNCHANGED <<buffer, output, err, op, mask, inval, last, before>>

(* The cell is done with, in either loop.                                  *)
ListNext == /\ pc = "next" /\ pc' = op
            /\ Cp!ListNext
            /\ tmp' = mask /\ inval' = {}
            /\ UNCHANGED <<buffer, output, err, op, mask, last, before>>

-----------------------------------------------------------------------------
(* Other instructions.                                                     *)
Operate == /\ pc = "idle"
           /\ \/ Cp!ListAll \/ Cp!ListNot
              \/ \E o \in Operands : Cp!Select(o[1], o[2]) \/ Cp!WriteFirst(o[1], o[2])
           /\ err' = NoError
           /\ UNCHANGED <<buffer, output, pc, loopVars, last, before>>

Init == /\ Cp!Init
        /\ tape \in BOOLEAN
        /\ buffer \in IF tape THEN Tapes ELSE {<<>>}
        /\ output = <<>> /\ err = NoError
        /\ pc = "idle" /\ op = "fetch" /\ mask = {} /\ tmp = {} /\ inval = {}
        /\ last = NoError /\ before = NoError

Loop == \/ TakeBit \/ ListFull \/ InputEnds \/ WriteFirst
        \/ SendBit \/ ListEnds \/ ListNext

Next == /\ Loop \/ Operate \/ \E m \in Masks : Begin("fetch", m) \/ Begin("store", m)
        /\ UNCHANGED tape

Spec == Init /\ [][Next]_vars

(* The loops are plain sequential code, with no wait in them.              *)
FairSpec == Spec /\ WF_vars(Loop /\ UNCHANGED tape)

-----------------------------------------------------------------------------
(* Properties.                                                             *)

(* Each io instruction, of as many steps as there are bits, does to the    *)
(* cells and the channel what ListIOAbs says: no bit is put in the wrong   *)
(* place or cell, a cell leaves the list exactly when all its bits are     *)
(* through, and a fetch uses up at most one bit too many.                  *)
Atomic == INSTANCE ListIOAbs
              WITH set    <- set[FALSE],
                   tag    <- IF pc = "idle" THEN tag ELSE before.tag,
                   data   <- IF pc = "idle" THEN data ELSE before.data,
                   buffer <- IF pc = "idle" THEN buffer ELSE before.buffer,
                   output <- IF pc = "idle" THEN output ELSE before.output
RefinesListIOAbs == Atomic!Spec

(* src/cpu/ASSEMBLY.md: "If not enough CAPP cells are available to read    *)
(* the entire bitstream, the next `io fetch CHANNEL` operation for this    *)
(* channel will continue from where it left off."  A fetch that the list   *)
(* ends has used the bits of the cells it filled, and no other.            *)
FetchContinues ==
    [][ListFull => Len(before.buffer) - Len(buffer')
                   = Cardinality(set[FALSE] \cap before.tag) * Cardinality(mask)]_vars

(* On a Tape, it has: the bit that finds no cell is still there.           *)
TapeContinues ==
    [][ListFull /\ tape
       => Len(before.buffer) - Len(buffer')
          = Cardinality(set[FALSE] \cap before.tag) * Cardinality(mask)]_vars

(* Every io instruction comes to an end, also on a channel that it fills   *)
(* itself.                                                                 *)
LoopEnds == pc # "idle" ~> pc = "idle"
=============================================================================
