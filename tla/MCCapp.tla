------------------------------- MODULE MCCapp -------------------------------
(* Three cells of one bit; Import brings two arrays in which the sets,     *)
(* the tags and the data of the cells disagree.                            *)
EXTENDS Capp

MCImages ==
    { [set  |-> [s \in BOOLEAN |-> IF s THEN {1, 3} ELSE {2, 3}],
       tag  |-> {1, 3},
       data |-> [c \in Cells |-> IF c = 2 THEN {} ELSE Bits]],
      [set  |-> [s \in BOOLEAN |-> {2}],
       tag  |-> {},
       data |-> [c \in Cells |-> {}]] }
=============================================================================
