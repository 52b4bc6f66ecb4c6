------------------------------ MODULE CappAbs -------------------------------
(***************************************************************************)
(* What the CAPP promises its users (src/capp/README.md, "Operations"):    *)
(* every operation acts on the cells that are selected by the active set   *)
(* and tagged, taken in cell order.  There is no list here to keep up to   *)
(* date: the list IS that set of cells, whatever was done before.  Module  *)
(* Capp, which keeps the linked list of the code, implements this one.     *)
(***************************************************************************)
EXTENDS CappWord

CONSTANT Images   \* the external cell arrays Import may be given

VARIABLES set,          \* Cell.Set: the cells selected, for each of the two sets
          tag,          \* Cell.Tag: the cells tagged
          data,         \* Cell.Data
          SetsSwapped   \* which of the two sets is active

vars == <<set, tag, data, SetsSwapped>>

Selected == set[SetsSwapped]

(* The active list: List() of the code yields its members in cell order.   *)
List == Selected \cap tag

(* The cell First() reads.                                                 *)
First == Following(List, Nil)

Init == /\ SetsSwapped = FALSE
        /\ set = [s \in BOOLEAN |-> IF s THEN {} ELSE Cells]
        /\ tag = Cells
        /\ data = [c \in Cells |-> Bits]

Select(match, mask) ==
    /\ set' = [set EXCEPT ![SetsSwapped] = {c \in Cells : Matches(data[c], match, mask)}]
    /\ UNCHANGED <<tag, data, SetsSwapped>>

Swap == SetsSwapped' = ~SetsSwapped /\ UNCHANGED <<set, tag, data>>

Retag(T) == tag' = T /\ UNCHANGED <<set, data, SetsSwapped>>

ListAll  == Retag(tag \cup Selected)
ListNot  == Retag((tag \ Selected) \cup (Selected \ tag))
ListNext == Retag(tag \ {First})
ListOnly(match, mask) == Retag(tag \ {c \in List : ~Matches(data[c], match, mask)})

Write(L, match, mask) ==
    /\ data' = [c \in Cells |-> IF c \in L THEN Merge(data[c], match, mask) ELSE data[c]]
    /\ UNCHANGED <<set, tag, SetsSwapped>>

WriteList(match, mask)  == Write(List, match, mask)
WriteFirst(match, mask) == Write({First}, match, mask)

Reset == /\ data' = [c \in Cells |-> Bits]
         /\ set' = [set EXCEPT ![SetsSwapped] = Cells]
         /\ tag' = Cells
         /\ UNCHANGED SetsSwapped

Import(image) == /\ set' = image.set /\ tag' = image.tag /\ data' = image.data
                 /\ UNCHANGED SetsSwapped

Next == \/ Swap \/ ListAll \/ ListNot \/ ListNext \/ Reset
        \/ \E image \in Images : Import(image)
        \/ \E match, mask \in Words :
              \/ Select(match, mask) \/ ListOnly(match, mask)
              \/ WriteList(match, mask) \/ WriteFirst(match, mask)

Spec == Init /\ [][Next]_vars
=============================================================================
