------------------------------ MODULE FetchAbs ------------------------------
(***************************************************************************)
(* What a program sees of the CAPP and of instruction fetch: one selected  *)
(* set of its own, tags, data, and instructions that are fetched in one    *)
(* step.  The second set of the CAPP is the CPU's and is not seen.         *)
(***************************************************************************)
EXTENDS CappWord, Sequences

CONSTANTS CodeMask,   \* ARENA_MASK|(0x3fff<<16): the bits that say whose word it is
          Keys,       \* ARENA_CODE|(ip<<16), for the ips the program may have
          Operands,   \* the <<match, mask>> operands of the program's instructions
          NoCode      \* what a fetch that finds no instruction returns

VARIABLES set,    \* the cells the program's last SET_OF selected
          tag, data,
          code      \* the instruction fetched and not executed, [word, imms] or NoCode

vars == <<set, tag, data, code>>

User == INSTANCE CappAbs WITH set <- [s \in BOOLEAN |-> IF s THEN {} ELSE set],
                              SetsSwapped <- FALSE, Images <- {}

(* The cells of the instruction at key: its immediates, then its opcode.   *)
CodeCells(key) == {c \in Cells : Matches(data[c], key, CodeMask)}

(* The i-th member of a set of cells in cell order.                        *)
Nth(C, i) == CHOOSE c \in C : Cardinality({d \in C : d < c}) = i - 1

(* uint16 of a word: what is left of it without its address.               *)
Low(word) == word \ CodeMask

(* The instruction at key: the low halves of its cells, opcode last.       *)
CodeAt(key) ==
    LET C == CodeCells(key)
        n == Cardinality(C)
    IN  IF C = {} THEN NoCode
        ELSE [word |-> Low(data[Nth(C, n)]),
              imms |-> [i \in 1 .. n - 1 |-> Low(data[Nth(C, i)])]]

Init == /\ set = Cells /\ tag = Cells
        /\ data = [c \in Cells |-> Bits]
        /\ code = NoCode

(* The fetch returns the instruction and, of the program's state, touches  *)
(* the tags of the instruction's own cells: the opcode's ends up tagged,   *)
(* the immediates' untagged.                                               *)
Fetch(key) ==
    LET C == CodeCells(key)
    IN  /\ code' = CodeAt(key)
        /\ tag' = (tag \ C) \cup {c \in C : \A d \in C : d =< c}
        /\ UNCHANGED <<set, data>>

(* An operation of the instruction stream.                                 *)
Operate == /\ \/ User!ListAll \/ User!ListNot \/ User!ListNext \/ User!Reset
              \/ \E op \in Operands :
                    \/ User!Select(op[1], op[2]) \/ User!ListOnly(op[1], op[2])
                    \/ User!WriteList(op[1], op[2]) \/ User!WriteFirst(op[1], op[2])
           /\ code' = NoCode

Next == Operate \/ \E key \in Keys : Fetch(key)

Spec == Init /\ [][Next]_vars
=============================================================================
