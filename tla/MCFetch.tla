------------------------------ MODULE MCFetch -------------------------------
(* Three cells of one address bit and one payload bit: an instruction of   *)
(* up to three cells, next to cells of data.  The operands let a program   *)
(* select and rewrite either kind of cell, in the address or the payload.  *)
EXTENDS Fetch

CONSTANTS a, v   \* the bit positions

MCBits == {a, v}
MCCodeMask == {a}
MCKeys == {{a}}
MCOperands == {<<{}, {}>>, <<{a}, {a}>>, <<{}, {a}>>, <<{}, {v}>>, <<{v}, {v}>>}
=============================================================================
