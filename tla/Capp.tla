-------------------------------- MODULE Capp --------------------------------
(***************************************************************************)
(* The CAPP of src/capp/capp.go, with its cached list.  Count(), First()   *)
(* and List() do not look at the set and tag bits: they read firstCell,    *)
(* the Next pointers and count.  evaluateAll rebuilds these three from the *)
(* bits, and most operations end with it; LIST_NEXT, WRITE_LIST and        *)
(* WRITE_FIRST do not, and update or trust the list they find.             *)
(*                                                                         *)
(* An action is one call of Action(), Reset() or Import(): the emulator    *)
(* runs them one at a time, in one goroutine.  Cell.Changed (read by the   *)
(* verbose trace alone) is left out.                                       *)
(***************************************************************************)
EXTENDS CappWord

CONSTANT Images   \* the external cell arrays Import may be given

ASSUME ImagesAssumption ==
    Images \subseteq [set  : [BOOLEAN -> SUBSET Cells],
                      tag  : SUBSET Cells,
                      data : [Cells -> Words]]

VARIABLES set, tag, data, SetsSwapped,   \* as in CappAbs
          next,        \* Cell.Next, a cell or Nil
          firstCell,   \* cp.firstCell, a cell or Nil
          count,       \* cp.count
          flipped      \* what the last operation added to cp.BitsFlipped

bitVars == <<set, tag, data, SetsSwapped>>
listVars == <<next, firstCell, count>>
vars == <<bitVars, listVars, flipped>>

Selected == set[SetsSwapped]
Active == Selected \cap tag

-----------------------------------------------------------------------------
(* The list.                                                               *)

(* The cells a walk along Next from firstCell visits: every cell that is   *)
(* in all the sets that hold firstCell and are closed under Next.          *)
Chain ==
    LET Closed(S) == /\ firstCell \in Cells => firstCell \in S
                     /\ \A c \in S : next[c] \in Cells => next[c] \in S
    IN  {c \in Cells : \A S \in SUBSET Cells : Closed(S) => c \in S}

(* First(): the data of firstCell, 0 when the list is empty.               *)
First == IF firstCell = Nil THEN {} ELSE data[firstCell]

SymDiff(S, T) == (S \ T) \cup (T \ S)

(* The data bits of the cells L that the step flips.                       *)
DataFlips(L) == Cardinality({x \in L \X Bits : x[2] \in SymDiff(data[x[1]], data'[x[1]])})

(* Mutant of Relink: the pass does not clear Next, and links a cell only   *)
(* when a later one follows.                                               *)
Relink_keepsNext ==
    /\ firstCell' = Following(Active', Nil)
    /\ next' = [c \in Cells |-> IF c \in Active' /\ Following(Active', c) # Nil
                                THEN Following(Active', c) ELSE next[c]]
    /\ count' = Cardinality(Active')

(* The pass of evaluateAll over the cells, in order: it relinks the cells  *)
(* left both selected and tagged, and counts them.                         *)
Relink ==
    /\ firstCell' = Following(Active', Nil)
    /\ next' = [c \in Cells |-> IF c \in Active' THEN Following(Active', c) ELSE Nil]
    /\ count' = Cardinality(Active')

(* evaluateAll adds to BitsFlipped the changes it sees: in the set that is *)
(* active afterwards, the tags and the data.                               *)
evaluateAll ==
    /\ Relink
    /\ flipped' = Cardinality(SymDiff(set[SetsSwapped'], Selected'))
                  + Cardinality(SymDiff(tag, tag')) + DataFlips(Cells)

-----------------------------------------------------------------------------
(* The operations of Action().                                             *)

(* Mutant of SET_SWAP: the sets are swapped without a rebuild of the list. *)
SET_SWAP_noRebuild == /\ SetsSwapped' = ~SetsSwapped
                      /\ flipped' = 0
                      /\ UNCHANGED <<set, tag, data, listVars>>

SET_SWAP == /\ SetsSwapped' = ~SetsSwapped
            /\ UNCHANGED <<set, tag, data>>
            /\ evaluateAll

SET_OF(match, mask) ==
    /\ set' = [set EXCEPT ![SetsSwapped] = {c \in Cells : Matches(data[c], match, mask)}]
    /\ UNCHANGED <<tag, data, SetsSwapped>>
    /\ evaluateAll

(* Mutant of LIST_ALL: it tags the cells that are not selected, too.       *)
LIST_ALL_unselected == /\ tag' = Cells
                       /\ UNCHANGED <<set, data, SetsSwapped>>
                       /\ evaluateAll

LIST_ALL == /\ tag' = tag \cup Selected
            /\ UNCHANGED <<set, data, SetsSwapped>>
            /\ evaluateAll

LIST_NOT == /\ tag' = SymDiff(tag, Selected)
            /\ UNCHANGED <<set, data, SetsSwapped>>
            /\ evaluateAll

(* Mutant of LIST_ONLY: it does not ask whether the cell is selected.      *)
LIST_ONLY_unselected(match, mask) ==
    /\ tag' = {c \in tag : Matches(data[c], match, mask)}
    /\ UNCHANGED <<set, data, SetsSwapped>>
    /\ evaluateAll

LIST_ONLY(match, mask) ==
    /\ tag' = {c \in tag : c \in Selected => Matches(data[c], match, mask)}
    /\ UNCHANGED <<set, data, SetsSwapped>>
    /\ evaluateAll

(* Mutant of LIST_NEXT: the count goes down when there is no first cell.   *)
LIST_NEXT_countsNil ==
    /\ tag' = tag \ {firstCell}
    /\ firstCell' = IF firstCell = Nil THEN Nil ELSE next[firstCell]
    /\ count' = count - 1
    /\ flipped' = 1
    /\ UNCHANGED <<set, data, SetsSwapped, next>>

(* Unlinks the first cell, in place.                                       *)
LIST_NEXT ==
    IF firstCell # Nil
    THEN /\ tag' = tag \ {firstCell}
         /\ firstCell' = next[firstCell]
         /\ count' = count - 1
         /\ flipped' = 1
         /\ UNCHANGED <<set, data, SetsSwapped, next>>
    ELSE flipped' = 0 /\ UNCHANGED <<bitVars, listVars>>

(* Mutant of WriteCells: every bit written counts as a bit flipped.        *)
WriteCells_countsWrites(L, match, mask) ==
    /\ data' = [c \in Cells |-> IF c \in L THEN Merge(data[c], match, mask) ELSE data[c]]
    /\ flipped' = Cardinality(L \X mask)
    /\ UNCHANGED <<set, tag, SetsSwapped, listVars>>

(* A masked write to the cells of L, which leaves the list alone.          *)
WriteCells(L, match, mask) ==
    /\ data' = [c \in Cells |-> IF c \in L THEN Merge(data[c], match, mask) ELSE data[c]]
    /\ flipped' = DataFlips(L)
    /\ UNCHANGED <<set, tag, SetsSwapped, listVars>>

WRITE_LIST(match, mask) == WriteCells(Chain, match, mask)

WRITE_FIRST(match, mask) == WriteCells({firstCell} \ {Nil}, match, mask)

-----------------------------------------------------------------------------
(* All ones, all selected by the active set, all tagged.  SetsSwapped and  *)
(* the other set stay as they are.                                         *)
Reset == /\ data' = [c \in Cells |-> Bits]
         /\ set' = [set EXCEPT ![SetsSwapped] = Cells]
         /\ tag' = Cells
         /\ flipped' = 0
         /\ UNCHANGED SetsSwapped
         /\ Relink

(* Import(cells), for a cell array of the same length.                     *)
Import(image) ==
    /\ set' = image.set /\ tag' = image.tag /\ data' = image.data
    /\ flipped' = 0
    /\ UNCHANGED SetsSwapped
    /\ Relink

(* NewCapp: cleared cells, then Reset.                                     *)
Init == /\ SetsSwapped = FALSE
        /\ set = [s \in BOOLEAN |-> IF s THEN {} ELSE Cells]
        /\ tag = Cells
        /\ data = [c \in Cells |-> Bits]
        /\ firstCell = Following(Cells, Nil)
        /\ next = [c \in Cells |-> Following(Cells, c)]
        /\ count = Cardinality(Cells)
        /\ flipped = 0

Next == \/ SET_SWAP \/ LIST_ALL \/ LIST_NOT \/ LIST_NEXT \/ Reset
        \/ \E image \in Images : Import(image)
        \/ \E match, mask \in Words :
              \/ SET_OF(match, mask) \/ LIST_ONLY(match, mask)
              \/ WRITE_LIST(match, mask) \/ WRITE_FIRST(match, mask)

Spec == Init /\ [][Next]_vars

-----------------------------------------------------------------------------
(* Properties.                                                             *)

(* Every field has its type; count never wraps below zero (it is a uint).  *)
TypeOK == /\ set \in [BOOLEAN -> SUBSET Cells]
          /\ tag \in SUBSET Cells
          /\ data \in [Cells -> Words]
          /\ SetsSwapped \in BOOLEAN
          /\ next \in [Cells -> Cells \cup {Nil}]
          /\ firstCell \in Cells \cup {Nil}
          /\ count \in Nat
          /\ flipped \in Nat

(* The cached list is the set of cells selected and tagged, in cell order: *)
(* firstCell is the first of them, Next of each is the one after it, and   *)
(* count is how many there are.  LIST_NEXT and the writes keep it without  *)
(* the rebuild the other operations rely on.                               *)
ListCoherent ==
    /\ firstCell = Following(Active, Nil)
    /\ \A c \in Active : next[c] = Following(Active, c)
    /\ count = Cardinality(Active)

(* A walk along the list (List(), WRITE_LIST) visits each active cell and  *)
(* no other: no cell LIST_NEXT dropped is still linked.                    *)
ChainIsActive == Chain = Active

(* BitsFlipped counts each bit an operation changes once, wherever it is:  *)
(* evaluateAll looks at one of the two sets and LIST_NEXT at no bit, yet   *)
(* nothing else has changed.  Reset and Import zero the counter instead.   *)
FlipsCounted ==
    [][flipped' = Cardinality({x \in BOOLEAN \X Cells : x[2] \in SymDiff(set[x[1]], set'[x[1]])})
                  + Cardinality(SymDiff(tag, tag')) + DataFlips(Cells)
       \/ Reset \/ \E image \in Images : Import(image)]_vars

(* The operations do to the cells what CappAbs promises.                   *)
Abs == INSTANCE CappAbs
RefinesCappAbs == Abs!Spec
=============================================================================
