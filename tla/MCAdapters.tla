----------------------------- MODULE MCAdapters -----------------------------
(* Bytes of two bits, values of one byte and of two, tapes of up to three  *)
(* bytes, and a Temporary that holds two bytes and a half.                 *)
EXTENDS Adapters

MCTapes == {<<>>, <<{0, 1}>>, <<{0}, {1}>>, <<{1}, {}>>, <<{0}, {1}, {0, 1}>>, <<{1}, {0}, {}>>}
MCValues == {<<2, {1}>>, <<2, {0, 1}>>, <<4, {0, 3}>>}
=============================================================================
