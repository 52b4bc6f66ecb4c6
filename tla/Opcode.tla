------------------------------- MODULE Opcode -------------------------------
(***************************************************************************)
(* The instruction words of src/cpu/opcode.go: how one is put together     *)
(* from its fields, and how Execute and FetchCode take it apart again.     *)
(*                                                                         *)
(*     15 14 | 13 | 12 11 | 10  9  8 | 7 .. 4 | 3 .. 0                     *)
(*     cond  |    | class |    op    |   a    |   b                        *)
(*                                                                         *)
(* A coprocessor call is an io word with bit 10 set and its number in the  *)
(* two bits below.  In an alu word a is the target, in an io word the      *)
(* channel: neither can take an immediate, as b and the operands of the    *)
(* other classes can.                                                      *)
(***************************************************************************)
EXTENDS Integers

OP_ALU == 0
OP_COND == 1
OP_CAPP == 2
OP_IO == 3
OP_COPROC == 4

COND_ALWAYS == 0
COND_TRUE == 1
COND_FALSE == 2

IR_IP == 6
IR_STACK == 7
IR_REG_MATCH == 8
IR_CONST_0 == 12
IR_CONST_FFFFFFFF == 13
IR_IMMEDIATE_16 == 14
IR_IMMEDIATE_32 == 15

Writable(ir) == ir < IR_REG_MATCH

(* The instructions that the encoders are meant for.                       *)
Instructions ==
    [cond : 0 .. 3, class : {OP_COND, OP_CAPP}, op : 0 .. 7, a : 0 .. 15, b : 0 .. 15]
    \cup [cond : 0 .. 3, class : {OP_COPROC}, op : 0 .. 3, a : 0 .. 15, b : 0 .. 15]
    \cup [cond : 0 .. 3, class : {OP_ALU}, op : 0 .. 7, a : 0 .. 7, b : 0 .. 15]
    \cup [cond : 0 .. 3, class : {OP_IO}, op : 0 .. 3, a : 0 .. 15, b : 0 .. 15]

(* Bits 12 to 8: a coprocessor call is told by a bit of the op.            *)
ClassAndOp(i) == IF i.class = OP_COPROC THEN OP_IO * 2048 + 1024 + i.op * 256
                                        ELSE i.class * 2048 + i.op * 256

(* MakeCodeAlu, Cond, Capp, Io and Coproc: they differ in the class only,  *)
(* and in that the target of an alu word has three bits.                   *)
MakeCode(i) == i.cond * 16384 + ClassAndOp(i)
                 + (IF i.class = OP_ALU THEN i.a % 8 ELSE i.a) * 16 + i.b

Cond(word) == (word \div 16384) % 4

Class(word) == LET class == (word \div 2048) % 4
               IN  IF class = OP_IO /\ (word \div 1024) % 2 = 1 THEN OP_COPROC ELSE class

Op(word) == IF Class(word) \in {OP_IO, OP_COPROC} THEN (word \div 256) % 4
                                                   ELSE (word \div 256) % 8

A(word) == (word \div 16) % 16
B(word) == word % 16

(* AluDecode, CondDecode, CappDecode, IoDecode and CoprocDecode.           *)
Decode(word) ==
    [cond |-> Cond(word), class |-> Class(word), op |-> Op(word), a |-> A(word), b |-> B(word)]

Halves(ir) == IF ir = IR_IMMEDIATE_16 THEN 1 ELSE IF ir = IR_IMMEDIATE_32 THEN 2 ELSE 0

(* Mutant of ImmediateNeed: an operand b takes no immediate of 32 bits.    *)
ImmediateNeed_b16(word) ==
    (IF Class(word) \in {OP_ALU, OP_IO} THEN 0 ELSE Halves(A(word)))
      + (IF B(word) = IR_IMMEDIATE_32 THEN 1 ELSE Halves(B(word)))

(* How many immediates an instruction takes.                               *)
ImmediateNeed(word) ==
    (IF Class(word) \in {OP_ALU, OP_IO} THEN 0 ELSE Halves(A(word))) + Halves(B(word))
=============================================================================
