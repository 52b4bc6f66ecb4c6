------------------------------ MODULE MCDepot ------------------------------
(* Two drums of two rings, a third that is missing, and every alert to     *)
(* them, with bits that mean nothing as well.                              *)
EXTENDS Depot

CONSTANTS v, ones

Select == DEPOT_OP_DRUM
ForRing == DEPOT_OP_DRUM + DRUM_OP_RING

MCRequests == {0, 1, 5, Select, Select + 1, 2 * DEPOT_OP_DRUM + Select + 512 + 1,
               ForRing + RING_OP_REWIND_READ, ForRing + RING_OP_REWIND_WRITE,
               ForRing + 128 + RING_OP_REWIND_WRITE, ForRing + 2}

MCContents == {<<v>>}

(* The last is drum 0 for `run', which takes the bits from 24 on, and one  *)
(* that `depot save' refuses.                                              *)
MCRunIds == {0, 1, 5, DEPOT_OP_DRUM, 2 * DEPOT_OP_DRUM}
=============================================================================
