------------------------------- MODULE Fetch --------------------------------
(***************************************************************************)
(* Instruction fetch from the CAPP: FetchCode of src/cpu/cpu.go in its     *)
(* IP_MODE_CAPP case, one step per CAPP operation, between the operations  *)
(* that executed instructions apply to the same cells.  Fetch finds an     *)
(* instruction by content, in the second set, so that the list a program   *)
(* is working on is not disturbed.                                         *)
(*                                                                         *)
(* A program runs list operations (Operate) when no fetch is under way;    *)
(* `io fetch' and `io store' are runs of WRITE_FIRST and LIST_NEXT.        *)
(***************************************************************************)
EXTENDS Capp, Sequences

CONSTANTS CodeMask,   \* ARENA_MASK|(0x3fff<<16): the bits that say whose word it is
          Keys,       \* ARENA_CODE|(ip<<16), for the ips the program may have
          Operands,   \* the <<match, mask>> operands of the program's instructions
          NoCode      \* ErrIpEmpty: no instruction found

ASSUME CodeMaskAssumption == CodeMask \in Words
ASSUME KeysAssumption == Keys \subseteq SUBSET CodeMask /\ Keys # {}
ASSUME OperandsAssumption == Operands \subseteq Words \X Words

VARIABLES pc,      \* where FetchCode is: "idle" outside it
          key,     \* the key being fetched
          imms,    \* the immediates collected so far
          code,    \* the Code returned, until it is executed, or NoCode
          before   \* history: the program's set and tags when the fetch began

fetchVars == <<pc, key, imms, code, before>>
allVars == <<vars, fetchVars>>

UserState == [set |-> set[FALSE], tag |-> tag]
NoState == [set |-> {}, tag |-> {}]

(* uint16(First() & 0xffff)                                                *)
Low(word) == word \ CodeMask

Begin(k) == /\ pc = "idle" /\ pc' = "swapped"
            /\ SET_SWAP
            /\ key' = k /\ imms' = <<>> /\ before' = UserState
            /\ UNCHANGED code

Find == /\ pc = "swapped" /\ pc' = "selected"
        /\ SET_OF(key, CodeMask)
        /\ UNCHANGED <<key, imms, code, before>>

Tag == /\ pc = "selected" /\ pc' = "listed"
       /\ LIST_ALL
       /\ UNCHANGED <<key, imms, code, before>>

(* Mutant of Collect: the opcode's cell is collected with the immediates.  *)
Collect_all == /\ pc = "listed" /\ count > 0
               /\ imms' = Append(imms, Low(First))
               /\ LIST_NEXT
               /\ UNCHANGED <<pc, key, code, before>>

(* Mutant of Collect: the list is not advanced past the immediate.         *)
Collect_noNext == /\ pc = "listed" /\ count > 1
                  /\ imms' = <<Low(First)>>
                  /\ UNCHANGED <<vars, pc, key, code, before>>

Collect == /\ pc = "listed" /\ count > 1
           /\ imms' = Append(imms, Low(First))
           /\ LIST_NEXT
           /\ UNCHANGED <<pc, key, code, before>>

(* Mutant of Return: the error return comes before the sets are swapped    *)
(* back.                                                                   *)
Return_early == /\ pc = "listed" /\ count =< 1
                /\ code' = IF count = 1 THEN [word |-> Low(First), imms |-> imms] ELSE NoCode
                /\ pc' = "idle" /\ imms' = <<>>
                /\ IF count = 1 THEN SET_SWAP ELSE UNCHANGED vars
                /\ before' = NoState
                /\ UNCHANGED key

Return == /\ pc = "listed" /\ count =< 1
          /\ code' = IF count = 1 THEN [word |-> Low(First), imms |-> imms] ELSE NoCode
          /\ pc' = "idle" /\ imms' = <<>>
          /\ SET_SWAP
          /\ before' = NoState
          /\ UNCHANGED key

FetchCode == (\E k \in Keys : Begin(k)) \/ Find \/ Tag \/ Collect \/ Return

(* The CAPP operations an instruction may ask for (Execute refuses         *)
(* SET_SWAP), and the Reset of the CPU.                                    *)
Operate == /\ pc = "idle"
           /\ \/ LIST_ALL \/ LIST_NOT \/ LIST_NEXT \/ Reset
              \/ \E op \in Operands :
                    \/ SET_OF(op[1], op[2]) \/ LIST_ONLY(op[1], op[2])
                    \/ WRITE_LIST(op[1], op[2]) \/ WRITE_FIRST(op[1], op[2])
           /\ code' = NoCode
           /\ UNCHANGED <<pc, key, imms, before>>

FetchInit == /\ Init
             /\ pc = "idle" /\ key = CHOOSE k \in Keys : TRUE
             /\ imms = <<>> /\ code = NoCode /\ before = NoState

FetchNext == FetchCode \/ Operate

FetchSpec == FetchInit /\ [][FetchNext]_allVars

(* FetchCode runs to its end once it has begun: it is plain sequential     *)
(* code, with no wait in it.                                               *)
FairFetchSpec == FetchSpec /\ WF_allVars(Find \/ Tag \/ Collect \/ Return)

-----------------------------------------------------------------------------
(* Properties.                                                             *)

(* The second set is active exactly while FetchCode runs: it is swapped    *)
(* back on every way out, the one that finds no instruction included, and  *)
(* until then the program's set is as the program left it.                 *)
SwapBalanced == /\ SetsSwapped <=> pc # "idle"
                /\ pc # "idle" => set[FALSE] = before.set

(* An instruction fetch, of as many steps as the instruction has cells, is *)
(* one step of FetchAbs: it returns the low halves of the cells that hold  *)
(* the key, in order, opcode last, however these cells were selected and   *)
(* tagged before; and of the program's state it changes only their tags.   *)
Atomic == INSTANCE FetchAbs
              WITH set <- IF pc = "idle" THEN set[FALSE] ELSE before.set,
                   tag <- IF pc = "idle" THEN tag ELSE before.tag
RefinesFetchAbs == Atomic!Spec

CodeCells == {c \in Cells : Matches(data[c], key, CodeMask)}

(* When none of the instruction's cells is selected by the program, the    *)
(* fetch gives back the very list the program had, cell by cell.           *)
DisjointListSurvives ==
    [][Return /\ before.set \cap CodeCells = {}
       => Chain' = before.set \cap before.tag /\ count' = Cardinality(before.set \cap before.tag)]_allVars

(* Every fetch comes to an end: a walk along the immediates cannot circle. *)
FetchEnds == pc # "idle" ~> pc = "idle"
=============================================================================
