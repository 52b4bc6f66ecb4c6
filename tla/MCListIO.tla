------------------------------ MODULE MCListIO ------------------------------
(* Two cells of two bits, masks of one and of two bits, so that a word may *)
(* be cut short by the end of the input and a cell by a full channel, and  *)
(* tapes that hold less and more than the cells.                           *)
EXTENDS ListIO

MCMasks == {{1}, {0, 1}}
MCOperands == {<<{}, {}>>, <<{0}, {0}>>, <<{1}, {0, 1}>>}

MCTapes == { <<>>, <<TRUE>>, <<FALSE, TRUE, TRUE>>,
             <<TRUE, FALSE, FALSE, TRUE, TRUE>>, <<FALSE, TRUE, FALSE, FALSE, TRUE, TRUE>> }
=============================================================================
