------------------------------- MODULE MCDrum -------------------------------
(* Two rings for the files of three names.                                 *)
EXTENDS Drum

MCSymmetry == Permutations(Names) \cup Permutations(Contents)
=============================================================================
