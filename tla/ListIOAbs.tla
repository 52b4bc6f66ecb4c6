----------------------------- MODULE ListIOAbs ------------------------------
(***************************************************************************)
(* `io fetch' and `io store' as one step each (src/cpu/ASSEMBLY.md): what  *)
(* they do to the list of the CAPP and to the bits of a channel.           *)
(*                                                                         *)
(* A Tape steps past a bit when its consumer comes back for the next one, a*)
(* Temporary (or a Ring) before it hands the bit out: a fetch that stops at*)
(* a bit has used it up.                                                   *)
(***************************************************************************)
EXTENDS CappWord, Sequences

CONSTANTS Capacity,      \* of a Temporary, in bits
          Tapes,         \* the bits an input tape may hold
          Masks,         \* the masks of the program's io instructions
          Operands,      \* the operands of its list instructions
          NoError, ErrChannelFull

VARIABLES set, tag, data,
          tape,     \* whether the channel is a Tape: its input is not its output
          buffer,   \* the bits the channel has not yet given to a fetch
          output,   \* the bits the last store wrote to a Tape
          err       \* the error of the last operation

vars == <<set, tag, data, tape, buffer, output, err>>

User == INSTANCE CappAbs WITH set <- [s \in BOOLEAN |-> IF s THEN {} ELSE set],
                              SetsSwapped <- FALSE, Images <- {}

List == set \cap tag

(* The number of members of S below x.                                     *)
Rank(S, x) == Cardinality({y \in S : y < x})

MinOf(a, b) == IF a =< b THEN a ELSE b

(* How many whole words of the bits there are cells for.                   *)
Fitting(bits, mask) == MinOf(Cardinality(List), Len(bits) \div Cardinality(mask))

(* The cells these words go into, and what the cells then hold: the i-th   *)
(* word, from 0, in the i-th cell, its bits at those of the mask, lowest   *)
(* first.                                                                  *)
Filled(bits, mask) == {c \in List : Rank(List, c) < Fitting(bits, mask)}

WordAt(bits, i, mask) ==
    {b \in mask : bits[i * Cardinality(mask) + Rank(mask, b) + 1]}

Refilled(bits, mask) ==
    [c \in Cells |-> IF c \in Filled(bits, mask)
                     THEN Merge(data[c], WordAt(bits, Rank(List, c), mask), mask)
                     ELSE data[c]]

(* The j-th bit a store of the list sends.                                 *)
BitAt(j, mask) ==
    LET width == Cardinality(mask)
    IN  \E c \in List, b \in mask : /\ j - 1 = Rank(List, c) * width + Rank(mask, b)
                                    /\ b \in data[c]

Init == /\ set = Cells /\ tag = Cells /\ data = [c \in Cells |-> Bits]
        /\ tape \in BOOLEAN
        /\ buffer \in IF tape THEN Tapes ELSE {<<>>}
        /\ output = <<>> /\ err = NoError

(* Whole words of bits go into the cells of the list, in order, each cell  *)
(* leaving the list.  When the list is used up first, the bits left stay   *)
(* in the channel, but for the one a Temporary has already handed out; bits*)
(* that are too few for a word are dropped.                                *)
Fetch(mask) ==
    LET whole == Fitting(buffer, mask) * Cardinality(mask)
        used  == IF Fitting(buffer, mask) < Cardinality(List) THEN Len(buffer)
                 ELSE IF tape THEN whole ELSE MinOf(whole + 1, Len(buffer))
    IN  /\ data' = Refilled(buffer, mask)
        /\ tag' = tag \ Filled(buffer, mask)
        /\ buffer' = SubSeq(buffer, used + 1, Len(buffer))
        /\ err' = NoError
        /\ UNCHANGED <<set, output>>

(* The masked bits of the cells of the list, in order, go to the channel,  *)
(* each cell leaving the list once all its bits are sent.  A Temporary that*)
(* fills up keeps the bits it took of a cell that stays in the list.       *)
Store(mask) ==
    LET width == Cardinality(mask)
        bits  == Cardinality(List) * width
        sent  == IF tape THEN bits ELSE MinOf(bits, Capacity - Len(buffer))
        new   == [j \in 1 .. sent |-> BitAt(j, mask)]
    IN  /\ tag' = tag \ {c \in List : (Rank(List, c) + 1) * width =< sent}
        /\ IF tape THEN output' = new /\ UNCHANGED buffer
                   ELSE buffer' = buffer \o new /\ UNCHANGED output
        /\ err' = IF sent < bits THEN ErrChannelFull ELSE NoError
        /\ UNCHANGED <<set, data>>

Operate == /\ \/ User!ListAll \/ User!ListNot
              \/ \E op \in Operands : User!Select(op[1], op[2]) \/ User!WriteFirst(op[1], op[2])
           /\ err' = NoError
           /\ UNCHANGED <<buffer, output>>

Next == /\ Operate \/ \E mask \in Masks \ {{}} : Fetch(mask) \/ Store(mask)
        /\ UNCHANGED tape

Spec == Init /\ [][Next]_vars
=============================================================================
