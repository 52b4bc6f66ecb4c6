------------------------------ MODULE CappWord ------------------------------
(***************************************************************************)
(* The cells of a Content Addressable Parallel Processor and the data they *)
(* hold (src/capp/capp.go).  A 32-bit word is abstracted to the set of its *)
(* one bits, drawn from a finite set Bits of bit positions: the match/mask *)
(* test and the masked write of the code are then exact set operations.    *)
(***************************************************************************)
EXTENDS Integers, FiniteSets

CONSTANTS N,      \* the number of cells, len(cp.Cell)
          Bits    \* the bit positions of a data word

ASSUME NAssumption == N \in Nat
ASSUME BitsAssumption == IsFiniteSet(Bits)

Cells == 1 .. N

(* The nil *Cell.  Cells are numbered in the order of cp.Cell, from 1.     *)
Nil == 0

Words == SUBSET Bits

(* (data & mask) == (match & mask)                                         *)
Matches(word, match, mask) == word \cap mask = match \cap mask

(* (data & ^mask) | (match & mask)                                         *)
Merge(word, match, mask) == (word \ mask) \cup (match \cap mask)

(* The first member of L after position c in cell order, Nil if none.      *)
Following(L, c) ==
    IF \E d \in L : d > c
    THEN CHOOSE d \in L : d > c /\ \A e \in L : e > c => d =< e
    ELSE Nil
=============================================================================
