-------------------------- MODULE AssemblerProofs --------------------------
(***************************************************************************)
(* Proofs about module Assembler, for any sources, any meaning of their    *)
(* numbers and expressions, and any number of calls.                       *)
(***************************************************************************)
EXTENDS Assembler, SequenceTheorems, WellFoundedInduction, TLAPS

IsSequence(s) == s \in Seq(Range(s))

CodeShape(c) == c = [word |-> c.word, imms |-> c.imms, instr |-> c.instr]

OpcodeShape(op) ==
    /\ op = [ip |-> op.ip, codes |-> op.codes, label |-> op.label]
    /\ op.ip \in Nat
    /\ IsSequence(op.codes) /\ op.codes # <<>>
    /\ \A n \in 1 .. Len(op.codes) : CodeShape(op.codes[n])

(* The statements are records in a sequence, each of one code at least.    *)
Shape == IsSequence(Opcodes) /\ \A i \in 1 .. Len(Opcodes) : OpcodeShape(Opcodes[i])

(* What makes jumps land: a label has the address of the statement behind  *)
(* it, or of the end while there is none.                                  *)
LabelsAddress ==
    /\ DOMAIN Label = DOMAIN target
    /\ \A l \in DOMAIN Label : /\ target[l] \in 1 .. Len(Opcodes) + 1
                               /\ Label[l] = AddressOf(Opcodes, target[l])

(* A failed Parse is not forgotten until the next Clear.                   *)
FailureKnown == failed => ready = FALSE

Inv == Shape /\ AddressesContinue /\ LabelsAddress /\ JumpsLand /\ FailureKnown

-----------------------------------------------------------------------------
(* Sequences.                                                              *)

LEMMA SequenceOf == ASSUME NEW S, NEW s \in Seq(S) PROVE IsSequence(s)
<1>1. \A i \in 1 .. Len(s) : s[i] \in Range(s)
    BY DEF Range
<1> QED
    BY <1>1, SeqDef, LenProperties DEF IsSequence

LEMMA AppendSequence ==
    ASSUME NEW s, IsSequence(s), NEW e
    PROVE  /\ IsSequence(Append(s, e))
           /\ Len(s) \in Nat /\ Len(Append(s, e)) = Len(s) + 1
           /\ \A i \in 1 .. Len(s) : Append(s, e)[i] = s[i]
           /\ Append(s, e)[Len(s) + 1] = e
<1> DEFINE S == Range(s) \cup {e}
<1>1. s \in Seq(S)
    BY SeqDef, LenProperties DEF IsSequence
<1>2. e \in S
    OBVIOUS
<1> HIDE DEF S
<1>3. Append(s, e) \in Seq(S)
    BY <1>1, <1>2, AppendProperties
<1>4. IsSequence(Append(s, e))
    BY <1>3, SequenceOf
<1>5. /\ Len(Append(s, e)) = Len(s) + 1
      /\ \A i \in 1 .. Len(s) : Append(s, e)[i] = s[i]
      /\ Append(s, e)[Len(s) + 1] = e
    BY <1>1, <1>2, AppendProperties
<1> QED
    BY <1>1, <1>4, <1>5, LenProperties

Changed(s, n, e) == [s EXCEPT ![n] = e]

LEMMA ChangedSequence ==
    ASSUME NEW s, IsSequence(s), NEW n \in 1 .. Len(s), NEW e
    PROVE  /\ IsSequence(Changed(s, n, e)) /\ Len(Changed(s, n, e)) = Len(s)
           /\ Changed(s, n, e)[n] = e
           /\ \A i \in 1 .. Len(s) : i # n => Changed(s, n, e)[i] = s[i]
<1> DEFINE S == Range(s) \cup {e}
<1>1. s \in Seq(S)
    BY SeqDef, LenProperties DEF IsSequence
<1>2. /\ Changed(s, n, e) \in Seq(S)
      /\ Len(Changed(s, n, e)) = Len(s)
      /\ Changed(s, n, e)[n] = e
      /\ \A i \in 1 .. Len(s) : i # n => Changed(s, n, e)[i] = s[i]
    BY <1>1, ExceptSeq, LenProperties DEF Changed
<1> QED
    BY <1>2, SequenceOf

-----------------------------------------------------------------------------
(* What the operators of the assembler give.                               *)

LEMMA CodesAreRecords ==
    \A instr, imms : CodeShape(Code(instr, imms))
BY DEF Code, CodeShape

(* No code, one, or the three of a call.                                   *)
FewCodes(codes) ==
    \/ codes = <<>>
    \/ \E c : CodeShape(c) /\ codes = <<c>>
    \/ \E c, d, e : CodeShape(c) /\ CodeShape(d) /\ CodeShape(e) /\ codes = <<c, d, e>>

LEMMA FewCodesShape ==
    ASSUME NEW codes, FewCodes(codes)
    PROVE  IsSequence(codes) /\ \A n \in 1 .. Len(codes) : CodeShape(codes[n])
<1>1. CASE codes = <<>>
    BY <1>1 DEF IsSequence
<1>2. CASE \E c : CodeShape(c) /\ codes = <<c>>
    <2>1. PICK c : CodeShape(c) /\ codes = <<c>>
        BY <1>2
    <2>2. codes \in Seq({c}) /\ Len(codes) = 1 /\ codes[1] = c
        BY <2>1
    <2>3. IsSequence(codes)
        BY <2>2, SequenceOf
    <2> QED
        BY <2>1, <2>2, <2>3
<1>3. CASE \E c, d, e : CodeShape(c) /\ CodeShape(d) /\ CodeShape(e) /\ codes = <<c, d, e>>
    <2>1. PICK c, d, e : CodeShape(c) /\ CodeShape(d) /\ CodeShape(e) /\ codes = <<c, d, e>>
        BY <1>3
    <2>2. /\ codes \in Seq({c, d, e}) /\ Len(codes) = 3
          /\ codes[1] = c /\ codes[2] = d /\ codes[3] = e
        BY <2>1
    <2>3. IsSequence(codes)
        BY <2>2, SequenceOf
    <2> QED
        BY <2>1, <2>2, <2>3
<1> QED
    BY <1>1, <1>2, <1>3 DEF FewCodes

(* Every statement comes to few codes, each a record.                      *)
LEMMA StatementCodes ==
    ASSUME NEW words
    PROVE  FewCodes(parseWords(words).codes)
<1>1. \A ok, d, l : FewCodes(Result(ok, <<>>, d, l).codes)
    BY DEF Result, FewCodes
<1>2. \A ok, d, l, c : CodeShape(c) => FewCodes(Result(ok, <<c>>, d, l).codes)
    BY DEF Result, FewCodes
<1>3. \A ok, d, l, cond, c : CodeShape(c) => FewCodes(Result(ok, Call(cond, c), d, l).codes)
    BY CodesAreRecords DEF Result, FewCodes, Call, Alu
<1>4. \A cond, class, op, m : CodeShape(Plain(cond, class, op, m))
    BY CodesAreRecords DEF Plain
<1>5. \A cond, op, dst, src, imms : CodeShape(Alu(cond, op, dst, src, imms))
    BY CodesAreRecords DEF Alu
<1>6. \A cond : CodeShape(Jump(cond))
    BY <1>5 DEF Jump
<1>7. \A w : FewCodes(DataOf(w).codes)
    BY <1>1 DEF DataOf, Refused
<1>8. \A cond, w : FewCodes(If(cond, w).codes)
    BY <1>1, <1>2, <1>4 DEF If, Refused
<1>9. \A cond, w : FewCodes(List(cond, w).codes)
    BY <1>1, <1>2, <1>4 DEF List, Refused, Codes
<1>10. \A cond, w : FewCodes(Coproc(cond, w).codes)
    BY <1>1, <1>2, <1>4 DEF Coproc, Refused, Codes
<1>11. \A cond, w : FewCodes(Io(cond, w).codes)
    BY <1>1, <1>2, <1>4 DEF Io, Refused, Codes
<1>12. \A cond, w : FewCodes(AluOf(cond, w).codes)
    BY <1>1, <1>2, <1>5 DEF AluOf, Refused, Codes
<1>13. \A cond, w : FewCodes(Flow(cond, w).codes)
    BY <1>1, <1>2, <1>3, <1>5, <1>6 DEF Flow, Refused, Codes
<1> QED
    BY <1>7, <1>8, <1>9, <1>10, <1>11, <1>12, <1>13 DEF parseWords

(* Link changes the immediates of a statement's last code, and nothing     *)
(* else of it.                                                             *)
LEMMA LinkedShape ==
    ASSUME NEW op, OpcodeShape(op)
    PROVE  /\ OpcodeShape(Linked(op))
           /\ Linked(op).ip = op.ip /\ Linked(op).label = op.label
           /\ Len(Linked(op).codes) = Len(op.codes)
           /\ op.label # NoLabel => Last(Linked(op).codes).imms = Halved(Label[op.label])
<1>1. CASE op.label = NoLabel
    BY <1>1 DEF Linked
<1>2. CASE op.label # NoLabel
    <2> DEFINE n == Len(op.codes)
               c == [op.codes[n] EXCEPT !.imms = Halved(Label[op.label])]
               codes == Changed(op.codes, n, c)
    <2>1. IsSequence(op.codes) /\ n = Len(op.codes) /\ n \in 1 .. Len(op.codes)
        BY EmptySeq, LenProperties DEF OpcodeShape, IsSequence
    <2>2. CodeShape(op.codes[n])
        BY <2>1 DEF OpcodeShape
    <2>3. CodeShape(c) /\ c.imms = Halved(Label[op.label])
        BY <2>2 DEF CodeShape
    <2>4. Linked(op) = [op EXCEPT !.codes = codes]
        BY <1>2 DEF Linked, Changed
    <2> HIDE DEF c, n
    <2>5. /\ IsSequence(codes) /\ Len(codes) = Len(op.codes) /\ codes[n] = c
          /\ \A i \in 1 .. Len(op.codes) : i # n => codes[i] = op.codes[i]
        BY <2>1, ChangedSequence
    <2> HIDE DEF codes
    <2>6. op = [ip |-> op.ip, codes |-> op.codes, label |-> op.label]
        BY DEF OpcodeShape
    <2>7. Linked(op) = [ip |-> op.ip, codes |-> codes, label |-> op.label]
        BY <2>4, <2>6
    <2>8. \A i \in 1 .. Len(op.codes) : CodeShape(codes[i])
        BY <2>3, <2>5 DEF OpcodeShape
    <2>9. codes # <<>>
        BY <2>1, <2>5, EmptySeq
    <2>10. OpcodeShape(Linked(op))
        BY <2>5, <2>7, <2>8, <2>9 DEF OpcodeShape
    <2>11. Last(Linked(op).codes).imms = Halved(Label[op.label])
        BY <2>1, <2>3, <2>5, <2>7 DEF Last
    <2> QED
        BY <2>5, <2>7, <2>10, <2>11
<1> QED
    BY <1>1, <1>2
-----------------------------------------------------------------------------
(* Addresses.                                                              *)

LEMMA EndAddress == currentIp = AddressOf(Opcodes, Len(Opcodes) + 1)
<1>1. CASE Opcodes = <<>>
    BY <1>1 DEF currentIp, AddressOf
<1>2. CASE Opcodes # <<>>
    BY <1>2 DEF currentIp, AddressOf
<1> QED
    BY <1>1, <1>2

(* What a step does to the codes, the labels and the linked program: no    *)
(* step that parses a line touches the program.                            *)
Quiet == UNCHANGED <<Opcodes, Label, target, prog>>
Labels == DefineLabels /\ UNCHANGED <<Opcodes, prog>>

LEMMA QuietKeeps ==
    ASSUME Inv, Quiet, FailureKnown'
    PROVE  Inv'
<1>1. Shape' /\ AddressesContinue' /\ JumpsLand'
    BY DEF Inv, Quiet, Shape, AddressesContinue, JumpsLand
<1>2. LabelsAddress'
    BY DEF Inv, Quiet, LabelsAddress
<1> QED
    BY <1>1, <1>2 DEF Inv

LEMMA NewLabels ==
    ASSUME Shape, LabelsAddress, DefineLabels
    PROVE  /\ DOMAIN Label' = DOMAIN target'
           /\ \A l \in DOMAIN Label' : /\ target'[l] \in 1 .. Len(Opcodes) + 1
                                       /\ Label'[l] = AddressOf(Opcodes, target'[l])
<1>1. Len(Opcodes) \in Nat
    BY LenProperties DEF Shape, IsSequence
<1>2. DOMAIN Label' = DOMAIN Label \cup Fresh /\ DOMAIN target' = DOMAIN target \cup Fresh
    BY DEF DefineLabels, Extended
<1>3. ASSUME NEW l \in DOMAIN Label'
      PROVE  target'[l] \in 1 .. Len(Opcodes) + 1 /\ Label'[l] = AddressOf(Opcodes, target'[l])
    <2>1. CASE l \in DOMAIN Label
        BY <1>2, <2>1 DEF DefineLabels, Extended, LabelsAddress
    <2>2. CASE l \notin DOMAIN Label
        <3>1. Label'[l] = currentIp /\ target'[l] = Len(Opcodes) + 1
            BY <1>2, <2>2 DEF DefineLabels, Extended, LabelsAddress
        <3> QED
            BY <1>1, <3>1, EndAddress
    <2> QED
        BY <2>1, <2>2
<1> QED
    BY <1>2, <1>3 DEF LabelsAddress

LEMMA LabelsKeep ==
    ASSUME Inv, Labels, FailureKnown'
    PROVE  Inv'
<1>1. Shape' /\ AddressesContinue' /\ JumpsLand'
    BY DEF Inv, Labels, Shape, AddressesContinue, JumpsLand
<1>2. LabelsAddress'
    BY NewLabels DEF Inv, Labels, LabelsAddress
<1> QED
    BY <1>1, <1>2 DEF Inv

(* A statement that is appended begins where the last one ends, and leaves *)
(* the addresses there are as they are.                                    *)
LEMMA AppendKeeps ==
    ASSUME Inv, DefineLabels, UNCHANGED prog, FailureKnown',
           NEW op, OpcodeShape(op), op.ip = currentIp, Opcodes' = Append(Opcodes, op)
    PROVE  Inv'
<1> DEFINE n == Len(Opcodes)
<1>1. /\ IsSequence(Opcodes') /\ n \in Nat /\ Len(Opcodes') = n + 1
      /\ \A i \in 1 .. n : Opcodes'[i] = Opcodes[i]
      /\ Opcodes'[n + 1] = op
    BY AppendSequence DEF Inv, Shape
<1>2. DOMAIN Opcodes = 1 .. n /\ DOMAIN Opcodes' = 1 .. n + 1
    BY <1>1, LenProperties DEF Inv, Shape, IsSequence
<1>3. Opcodes = <<>> <=> n = 0
    BY EmptySeq DEF Inv, Shape, IsSequence
<1>4. Shape'
    <2>1. ASSUME NEW i \in 1 .. n + 1
          PROVE  OpcodeShape(Opcodes'[i])
        BY <1>1 DEF Inv, Shape
    <2> QED
        BY <1>1, <2>1 DEF Shape
<1>5. op.ip = IF n = 0 THEN 0 ELSE Opcodes[n].ip + Len(Opcodes[n].codes)
    BY <1>3 DEF currentIp, Last
<1>6. AddressesContinue'
    <2>1. ASSUME NEW i \in 1 .. n + 1
          PROVE  Opcodes'[i].ip =
                     IF i = 1 THEN 0 ELSE Opcodes'[i - 1].ip + Len(Opcodes'[i - 1].codes)
        <3>1. CASE i \in 1 .. n
            <4>1. Opcodes'[i] = Opcodes[i] /\ (i # 1 => Opcodes'[i - 1] = Opcodes[i - 1])
                BY <1>1, <3>1
            <4>2. Opcodes[i].ip = IF i = 1 THEN 0 ELSE Opcodes[i - 1].ip + Len(Opcodes[i - 1].codes)
                BY <1>2, <3>1 DEF Inv, AddressesContinue
            <4> QED
                BY <4>1, <4>2
        <3>2. CASE i = n + 1
            BY <1>1, <1>5, <3>2
        <3> QED
            BY <3>1, <3>2
    <2> QED
        BY <1>2, <2>1 DEF AddressesContinue
<1>7. \A m \in 1 .. n + 1 : AddressOf(Opcodes', m) = AddressOf(Opcodes, m)
    <2>1. ASSUME NEW m \in 1 .. n
          PROVE  AddressOf(Opcodes', m) = AddressOf(Opcodes, m)
        BY <1>1, <2>1 DEF AddressOf
    <2>2. AddressOf(Opcodes', n + 1) = op.ip
        BY <1>1 DEF AddressOf
    <2> QED
        BY <1>1, <2>1, <2>2, EndAddress
<1>8. LabelsAddress'
    BY <1>1, <1>7, NewLabels DEF Inv, LabelsAddress
<1>9. JumpsLand'
    BY DEF Inv, JumpsLand
<1> QED
    BY <1>4, <1>6, <1>8, <1>9 DEF Inv

-----------------------------------------------------------------------------
(* The steps.                                                              *)

LEMMA Progress ==
    ASSUME Inv, Proceed \/ \E e, equates : Fail(e, equates)
    PROVE  UNCHANGED prog /\ FailureKnown'
BY DEF Inv, FailureKnown, Proceed, Fail

(* The steps of a Parse that add no code: most touch no label either.      *)
LEMMA LineKeeps ==
    ASSUME Inv, \/ Include \/ MacroBegin \/ MacroEnd \/ Collect \/ EndFile \/ EndMacro
                \/ NotEvaluable \/ Equ
    PROVE  Inv'
<1>1. UNCHANGED code /\ (Proceed \/ \E e, equates : Fail(e, equates))
    BY DEF Include, MacroBegin, MacroEnd, Collect, EndFile, EndMacro, NotEvaluable, Equ
<1>2. Quiet /\ FailureKnown'
    BY <1>1, Progress DEF Quiet, code
<1> QED
    BY <1>2, QuietKeeps

LEMMA LabelledLineKeeps ==
    ASSUME Inv, LabelTwice \/ LabelOnly \/ CallMacro
    PROVE  Inv'
<1>1. DefineLabels /\ UNCHANGED Opcodes /\ (Proceed \/ \E e, equates : Fail(e, equates))
    BY DEF LabelTwice, LabelOnly, CallMacro
<1>2. Labels /\ FailureKnown'
    BY <1>1, Progress DEF Labels
<1> QED
    BY <1>2, LabelsKeep

LEMMA EmitKeeps ==
    ASSUME Inv, Emit
    PROVE  Inv'
<1> DEFINE s == parseWords(Words)
           op == [ip |-> currentIp, codes |-> s.codes, label |-> s.label]
<1>1. DefineLabels /\ (Proceed \/ \E e, equates : Fail(e, equates))
    BY DEF Emit
<1>2. UNCHANGED prog /\ FailureKnown'
    BY <1>1, Progress
<1>3. CASE s.codes = <<>>
    <2>1. Labels
        BY <1>1, <1>2, <1>3 DEF Emit, Labels
    <2> QED
        BY <1>2, <2>1, LabelsKeep
<1>4. CASE s.codes # <<>>
    <2>1. Opcodes' = Append(Opcodes, op)
        BY <1>4 DEF Emit
    <2>2. IsSequence(s.codes) /\ \A n \in 1 .. Len(s.codes) : CodeShape(s.codes[n])
        BY StatementCodes, FewCodesShape
    <2>3. currentIp \in Nat
        <3>1. CASE Opcodes = <<>>
            BY <3>1 DEF currentIp
        <3>2. CASE Opcodes # <<>>
            <4>1. Len(Opcodes) \in 1 .. Len(Opcodes)
                BY <3>2, EmptySeq, LenProperties DEF Inv, Shape, IsSequence
            <4>2. OpcodeShape(Opcodes[Len(Opcodes)])
                BY <4>1 DEF Inv, Shape
            <4>3. Len(Opcodes[Len(Opcodes)].codes) \in Nat /\ Opcodes[Len(Opcodes)].ip \in Nat
                BY <4>2, LenProperties DEF OpcodeShape, IsSequence
            <4> QED
                BY <3>2, <4>3 DEF currentIp, Last
        <3> QED
            BY <3>1, <3>2
    <2> HIDE DEF s
    <2>4. OpcodeShape(op) /\ op.ip = currentIp
        BY <1>4, <2>2, <2>3 DEF OpcodeShape
    <2> HIDE DEF op
    <2> QED
        BY <1>1, <1>2, <2>1, <2>4, AppendKeeps
<1> QED
    BY <1>3, <1>4

LEMMA ClearKeeps ==
    ASSUME Inv, Clear
    PROVE  Inv'
<1>1. Opcodes' = <<>> /\ Label' = <<>> /\ target' = <<>> /\ failed' = FALSE /\ UNCHANGED prog
    BY DEF Clear
<1>2. Shape' /\ AddressesContinue' /\ LabelsAddress'
    BY <1>1 DEF Shape, IsSequence, AddressesContinue, LabelsAddress
<1>3. JumpsLand'
    BY <1>1 DEF Inv, JumpsLand
<1>4. FailureKnown'
    BY <1>1 DEF FailureKnown
<1> QED
    BY <1>2, <1>3, <1>4 DEF Inv

(* Link moves no statement; those it fills in jump to where the labels are.*)
LEMMA LinkKeeps ==
    ASSUME Inv, Link
    PROVE  Inv'
<1> DEFINE n == Len(Opcodes)
<1>1. n \in Nat /\ DOMAIN Opcodes = 1 .. n
    BY LenProperties DEF Inv, Shape, IsSequence
<1>2. Opcodes' = [i \in 1 .. n |-> Opcodes'[i]]
    BY <1>1 DEF Link
<1>3. ASSUME NEW i \in 1 .. n
      PROVE  /\ OpcodeShape(Opcodes'[i])
             /\ Opcodes'[i].ip = Opcodes[i].ip
             /\ Len(Opcodes'[i].codes) = Len(Opcodes[i].codes)
    <2>1. Opcodes'[i] \in {Opcodes[i], Linked(Opcodes[i])}
        BY <1>1 DEF Link
    <2>2. OpcodeShape(Opcodes[i])
        BY DEF Inv, Shape
    <2> QED
        BY <2>1, <2>2, LinkedShape
<1>4. IsSequence(Opcodes') /\ Len(Opcodes') = n
    <2>1. Opcodes' \in [1 .. n -> Range(Opcodes')]
        BY <1>2 DEF Range
    <2> QED
        BY <1>1, <2>1, SeqDef, LenProperties DEF IsSequence
<1>5. Shape'
    BY <1>3, <1>4 DEF Shape
<1>6. AddressesContinue'
    <2>1. ASSUME NEW i \in 1 .. n
          PROVE  Opcodes'[i].ip =
                     IF i = 1 THEN 0 ELSE Opcodes'[i - 1].ip + Len(Opcodes'[i - 1].codes)
        <3>1. Opcodes[i].ip = IF i = 1 THEN 0 ELSE Opcodes[i - 1].ip + Len(Opcodes[i - 1].codes)
            BY <1>1 DEF Inv, AddressesContinue
        <3>2. CASE i = 1
            BY <1>3, <3>1, <3>2
        <3>3. CASE i # 1
            <4>1. i - 1 \in 1 .. n
                BY <1>1, <3>3
            <4> QED
                BY <1>3, <3>1, <3>3, <4>1
        <3> QED
            BY <3>2, <3>3
    <2>2. DOMAIN Opcodes' = 1 .. n
        BY <1>2
    <2> QED
        BY <2>1, <2>2 DEF AddressesContinue
<1>7. \A m \in 1 .. n + 1 : AddressOf(Opcodes', m) = AddressOf(Opcodes, m)
    <2>1. ASSUME NEW m \in 1 .. n
          PROVE  AddressOf(Opcodes', m) = AddressOf(Opcodes, m)
        BY <1>1, <1>3, <1>4 DEF AddressOf
    <2>2. CASE n = 0
        <3>1. Opcodes = <<>> /\ Opcodes' = <<>>
            BY <1>4, <2>2, EmptySeq DEF Inv, Shape, IsSequence
        <3> QED
            BY <3>1
    <2>3. CASE n # 0
        <3>1. Opcodes # <<>> /\ Opcodes' # <<>> /\ n \in 1 .. n
            BY <1>1, <1>4, <2>3
        <3>2. AddressOf(Opcodes', n + 1) = AddressOf(Opcodes, n + 1)
            BY <1>1, <1>3, <1>4, <3>1 DEF AddressOf, Last
        <3> QED
            BY <1>1, <2>1, <3>2
    <2> QED
        BY <2>2, <2>3
<1>8. LabelsAddress'
    BY <1>4, <1>7 DEF Inv, LabelsAddress, Link
<1>9. FailureKnown'
    BY DEF FailureKnown, Link
<1>10. JumpsLand'
    <2>1. CASE ~(ready /\ Missing = {})
        BY <2>1 DEF Inv, JumpsLand, Link
    <2>2. CASE ready /\ Missing = {}
        <3>1. prog'.opcodes = Opcodes' /\ prog'.target = target
            BY <2>2 DEF Link
        <3>2. \A i \in 1 .. n : Opcodes'[i] = Linked(Opcodes[i])
            BY <1>1, <2>2 DEF Link
        <3>3. ASSUME NEW i \in 1 .. n, Opcodes'[i].label # NoLabel
              PROVE  /\ Opcodes'[i].label \in DOMAIN target
                     /\ Last(Opcodes'[i].codes).imms =
                            Halved(AddressOf(Opcodes', target[Opcodes'[i].label]))
            <4>1. OpcodeShape(Opcodes[i])
                BY DEF Inv, Shape
            <4>2. Opcodes'[i].label = Opcodes[i].label
                BY <3>2, <4>1, LinkedShape
            <4>3. Opcodes[i].label \in DOMAIN Label
                BY <1>1, <2>2, <3>3, <4>2 DEF Missing
            <4>4. Last(Opcodes'[i].codes).imms = Halved(Label[Opcodes[i].label])
                BY <3>2, <3>3, <4>1, <4>2, LinkedShape
            <4>5. /\ DOMAIN Label = DOMAIN target
                  /\ target[Opcodes[i].label] \in 1 .. n + 1
                  /\ Label[Opcodes[i].label] = AddressOf(Opcodes, target[Opcodes[i].label])
                BY <4>3 DEF Inv, LabelsAddress
            <4> QED
                BY <1>7, <4>2, <4>3, <4>4, <4>5
        <3>4. DOMAIN Opcodes' = 1 .. n
            BY <1>2
        <3> QED
            BY <3>1, <3>3, <3>4 DEF JumpsLand
    <2> QED
        BY <2>1, <2>2
<1> QED
    BY <1>5, <1>6, <1>8, <1>9, <1>10 DEF Inv

-----------------------------------------------------------------------------
(* The data words.                                                         *)

(* The words that the slice is of, and the array they are in.              *)
Holds(slice, words) ==
    /\ slice.len = Len(words)
    /\ \A i \in 1 .. slice.len : heap[slice.array][i] = words[i]

DataInv ==
    /\ IsSequence(heap) /\ IsSequence(written)
    /\ \A k \in 1 .. Len(heap) : IsSequence(heap[k])
    /\ Data = [array |-> Data.array, len |-> Data.len]
    /\ Data.array \in 0 .. Len(heap)
    /\ Data.len =< IF Data.array = 0 THEN 0 ELSE Len(heap[Data.array])
    /\ Holds(Data, written)
    /\ DataAsWritten

LEMMA DataQuiet == ASSUME DataInv, UNCHANGED <<data, prog>> PROVE DataInv'
BY DEF DataInv, Holds, DataAsWritten, data

(* A word that is appended follows those that are there, whether the array *)
(* has room for it or another one is made.                                 *)
LEMMA AppendDataKeeps ==
    ASSUME DataInv, NEW value, AppendData(value), prog' = prog
    PROVE  DataInv'
<1> DEFINE n == Data.len
           full == Data.array = 0 \/ (Data.array # 0 /\ n = Len(heap[Data.array]))
           size == IF n = 0 THEN 2 ELSE 2 * n
           grown == [i \in 1 .. size |-> IF i =< n THEN heap[Data.array][i]
                                         ELSE IF i = n + 1 THEN value ELSE <<0, 0>>]
           inPlace == Changed(heap[Data.array], n + 1, value)
           a == Data'.array
<1>1. /\ heap' = IF full THEN Append(heap, grown) ELSE Changed(heap, Data.array, inPlace)
      /\ Data' = [array |-> IF full THEN Len(heap) + 1 ELSE Data.array, len |-> n + 1]
      /\ written' = Append(written, value) /\ reused' = TRUE
    BY DEF AppendData, Changed
<1>2. /\ IsSequence(heap) /\ IsSequence(written) /\ n = Len(written)
      /\ Data.array \in 0 .. Len(heap) /\ n =< IF Data.array = 0 THEN 0 ELSE Len(heap[Data.array])
      /\ \A k \in 1 .. Len(heap) : IsSequence(heap[k])
      /\ \A i \in 1 .. n : heap[Data.array][i] = written[i]
    BY DEF DataInv, Holds
<1>3. Len(heap) \in Nat /\ Len(written) \in Nat /\ n \in Nat
    BY <1>2, AppendSequence
<1>4. /\ IsSequence(written') /\ Len(written') = n + 1
      /\ \A i \in 1 .. n : written'[i] = written[i]
      /\ written'[n + 1] = value
    BY <1>1, <1>2, AppendSequence
<1>5. /\ IsSequence(heap') /\ \A k \in 1 .. Len(heap') : IsSequence(heap'[k])
      /\ a \in 1 .. Len(heap') /\ n + 1 =< Len(heap'[a])
      /\ \A i \in 1 .. n : heap'[a][i] = heap[Data.array][i]
      /\ heap'[a][n + 1] = value
    <2>1. CASE full
        <3>1. size \in Nat /\ n + 1 =< size
            BY <1>3
        <3>2. /\ IsSequence(grown) /\ Len(grown) = size
              /\ \A i \in 1 .. n : grown[i] = heap[Data.array][i]
              /\ grown[n + 1] = value
            <4> HIDE DEF size
            <4>1. grown \in [1 .. size -> Range(grown)]
                BY DEF Range
            <4>2. grown \in Seq(Range(grown)) /\ Len(grown) = size
                BY <3>1, <4>1, SeqDef, LenProperties
            <4>3. /\ \A i \in 1 .. n : grown[i] = heap[Data.array][i]
                  /\ grown[n + 1] = value
                BY <1>3, <3>1
            <4> QED
                BY <4>2, <4>3 DEF IsSequence
        <3> HIDE DEF grown, size
        <3>3. heap' = Append(heap, grown) /\ a = Len(heap) + 1
            BY <1>1, <2>1
        <3> HIDE DEF full, a
        <3>4. /\ IsSequence(heap') /\ Len(heap') = Len(heap) + 1
              /\ \A k \in 1 .. Len(heap) : heap'[k] = heap[k]
              /\ heap'[a] = grown
            BY <1>2, <3>3, AppendSequence
        <3>5. \A k \in 1 .. Len(heap') : IsSequence(heap'[k])
            BY <1>2, <1>3, <3>2, <3>3, <3>4
        <3> QED
            BY <1>3, <3>1, <3>2, <3>3, <3>4, <3>5
    <2>2. CASE ~full
        <3>1. /\ Data.array \in 1 .. Len(heap) /\ a = Data.array
              /\ heap' = Changed(heap, Data.array, inPlace)
            BY <1>1, <1>2, <1>3, <2>2
        <3>2. IsSequence(heap[Data.array]) /\ Len(heap[Data.array]) \in Nat
            BY <1>2, <3>1, AppendSequence
        <3>3. n + 1 \in 1 .. Len(heap[Data.array])
            BY <1>2, <1>3, <2>2, <3>1, <3>2
        <3>4. /\ IsSequence(inPlace) /\ Len(inPlace) = Len(heap[Data.array])
              /\ inPlace[n + 1] = value
              /\ \A i \in 1 .. Len(heap[Data.array]) : i # n + 1 => inPlace[i] = heap[Data.array][i]
            BY <3>2, <3>3, ChangedSequence
        <3> HIDE DEF inPlace, full, a
        <3>5. /\ IsSequence(heap') /\ Len(heap') = Len(heap) /\ heap'[Data.array] = inPlace
              /\ \A k \in 1 .. Len(heap) : k # Data.array => heap'[k] = heap[k]
            BY <1>2, <3>1, ChangedSequence
        <3>6. \A k \in 1 .. Len(heap') : IsSequence(heap'[k])
            BY <1>2, <3>4, <3>5
        <3>7. \A i \in 1 .. n : i \in 1 .. Len(heap[Data.array]) /\ i # n + 1
            BY <1>3, <3>2, <3>3
        <3>8. heap'[a] = inPlace /\ a \in 1 .. Len(heap') /\ n + 1 =< Len(inPlace)
            BY <3>1, <3>3, <3>4, <3>5
        <3> HIDE DEF n
        <3> QED
            BY <3>4, <3>5, <3>6, <3>7, <3>8
    <2> QED
        BY <2>1, <2>2
<1>6. Data' = [array |-> a, len |-> n + 1]
    BY <1>1
<1> HIDE DEF a
<1>7. Holds(Data, written)'
    <2>1. \A i \in 1 .. n + 1 : i \in 1 .. n \/ i = n + 1
        BY <1>3
    <2>2. \A i \in 1 .. n + 1 : heap'[a][i] = written'[i]
        BY <1>2, <1>4, <1>5, <2>1
    <2>3. Data'.array = a /\ Data'.len = n + 1
        BY <1>6
    <2> HIDE DEF n
    <2> QED
        BY <1>4, <2>2, <2>3 DEF Holds
<1>8. a # 0 /\ a \in 0 .. Len(heap') /\ Len(heap') \in Nat
    BY <1>5, AppendSequence
<1>9. DataAsWritten'
    BY <1>1 DEF DataAsWritten
<1> QED
    <2>1. Data'.array = a /\ Data'.len = n + 1
        BY <1>6
    <2> HIDE DEF n
    <2> QED
        BY <1>4, <1>5, <1>6, <1>7, <1>8, <1>9, <2>1 DEF DataInv

LEMMA ClearData == ASSUME DataInv, Clear PROVE DataInv'
<1>1. /\ Data' = [array |-> Data.array, len |-> 0] /\ written' = <<>>
      /\ UNCHANGED <<heap, reused, prog>>
    BY DEF Clear, DataInv
<1>2. Data'.array = Data.array /\ Data'.len = 0 /\ Len(written') = 0
    BY <1>1
<1>3. IsSequence(written')
    BY <1>1 DEF IsSequence
<1>4. Holds(Data, written)'
    BY <1>2 DEF Holds
<1>5. DataAsWritten'
    BY <1>1 DEF DataInv, DataAsWritten
<1>6. 0 =< IF Data.array = 0 THEN 0 ELSE Len(heap[Data.array])
    BY AppendSequence DEF DataInv
<1> QED
    BY <1>1, <1>2, <1>3, <1>4, <1>5, <1>6 DEF DataInv

LEMMA LinkData == ASSUME DataInv, Link PROVE DataInv'
<1>1. UNCHANGED <<heap, Data, written>>
    BY DEF Link
<1>2. \/ prog'.data = Data /\ prog'.written = written
      \/ UNCHANGED <<prog, reused>>
    BY DEF Link
<1>3. DataAsWritten'
    BY <1>1, <1>2 DEF DataInv, DataAsWritten, Holds
<1> QED
    BY <1>1, <1>3 DEF DataInv, Holds

LEMMA DataNext == DataInv /\ [Next]_vars => DataInv'
<1> SUFFICES ASSUME DataInv, [Next]_vars PROVE DataInv'
    OBVIOUS
<1>1. CASE Step
    <2>1. prog' = prog
        <3>1. Proceed \/ \E e, equates : Fail(e, equates)
            BY <1>1 DEF Step, Include, MacroBegin, MacroEnd, Collect, EndFile, EndMacro, NotEvaluable,
                   Equ, LabelTwice, LabelOnly, CallMacro, Emit
        <3> QED
            BY <3>1 DEF Proceed, Fail
    <2>2. UNCHANGED data \/ \E value : AppendData(value)
        BY <1>1 DEF Step, Include, MacroBegin, MacroEnd, Collect, EndFile, EndMacro, NotEvaluable,
               Equ, LabelTwice, LabelOnly, CallMacro, Emit
    <2> QED
        BY <2>1, <2>2, DataQuiet, AppendDataKeeps
<1>2. CASE Clear
    BY <1>2, ClearData
<1>3. CASE Link
    BY <1>3, LinkData
<1>4. CASE \/ \E path \in DOMAIN source : Parse(path)
           \/ \E d \in Predefines : Predefine(d[1], d[2])
           \/ UNCHANGED vars
    <2>1. UNCHANGED <<data, prog>>
        BY <1>4 DEF Parse, Predefine, vars
    <2> QED
        BY <2>1, DataQuiet
<1> QED
    BY <1>1, <1>2, <1>3, <1>4 DEF Next

LEMMA DataInit == Init => DataInv
BY DEF Init, DataInv, Holds, DataAsWritten, IsSequence

-----------------------------------------------------------------------------
(* The equates of macros.                                                  *)

(* Two sets of equates that agree, but for the number of the line.         *)
Same(f, g) == \A n \in (DOMAIN f \cup DOMAIN g) \ {"LINENO"} :
                  n \in DOMAIN f /\ n \in DOMAIN g /\ f[n] = g[n]

FrameOK(f, macros) ==
    /\ \/ f = [in |-> "file", name |-> f.name, next |-> f.next, macro |-> f.macro]
       \/ f = [in |-> "macro", name |-> f.name, next |-> f.next, macro |-> f.macro,
               saved |-> f.saved]
    /\ f.next \in Nat \ {0}
    /\ f.macro # NoMacro => f.macro \in macros
    /\ f.in = "macro" => f.name \in macros

(* No macro is in progress.                                                *)
NoMacros(fs) == \A i \in 1 .. Len(fs) : fs[i].in # "macro"

(* Macros are called in files and in macros, and files included in files;  *)
(* the first macro has saved what the files have equated.                  *)
StackOK(fs, macros, equates) ==
    /\ IsSequence(fs)
    /\ \A i \in 1 .. Len(fs) : FrameOK(fs[i], macros)
    /\ \A i, j \in 1 .. Len(fs) : i < j /\ fs[i].in = "macro" => fs[j].in = "macro"
    /\ \A i \in 1 .. Len(fs) :
           fs[i].in = "macro" /\ (\A j \in 1 .. Len(fs) : j < i => fs[j].in # "macro") =>
               Same(fs[i].saved, equates)

(* Macros have lines of text only, and so include and define nothing.      *)
MacroOK(m) == /\ m = [line |-> m.line, args |-> m.args, lines |-> m.lines]
              /\ IsSequence(m.lines)
              /\ \A i \in 1 .. Len(m.lines) : m.lines[i].is = "text"

HygieneInv == /\ StackOK(frames, DOMAIN Macro, fileEquate)
              /\ \A m \in DOMAIN Macro : MacroOK(Macro[m])
              /\ NoMacros(frames) => Same(Equate, fileEquate)

LEMMA LeastNat ==
    ASSUME NEW S \in SUBSET Nat, S # {}
    PROVE  Min(S) \in S /\ \A n \in S : Min(S) =< n
<1>1. PICK m \in S : \A n \in S : ~(<<n, m>> \in OpToRel(<, Nat))
    BY WFMin, NatLessThanWellFounded, Zenon
<1>2. ASSUME NEW n \in S, n < m
      PROVE  <<n, m>> \in OpToRel(<, Nat)
    BY <1>2 DEF OpToRel
<1>3. \A n \in S : ~(n < m)
    BY <1>1, <1>2
<1>4. m \in S /\ \A n \in S : m =< n
    BY <1>3
<1> QED
    BY <1>4 DEF Min

LEMMA FrontSequence ==
    ASSUME NEW s, IsSequence(s), s # <<>>
    PROVE  /\ IsSequence(Front(s)) /\ Len(s) \in Nat \ {0} /\ Len(Front(s)) = Len(s) - 1
           /\ \A i \in 1 .. Len(s) - 1 : Front(s)[i] = s[i]
           /\ Last(s) = s[Len(s)]
<1>1. Len(s) \in Nat \ {0}
    BY LenProperties, EmptySeq DEF IsSequence
<1>2. /\ SubSeq(s, 1, Len(s) - 1) \in Seq(Range(s))
      /\ Len(SubSeq(s, 1, Len(s) - 1)) = Len(s) - 1
      /\ \A i \in 1 .. Len(s) - 1 : SubSeq(s, 1, Len(s) - 1)[i] = s[i]
    <2> DEFINE S == Range(s)
               n == Len(s) - 1
    <2>1. s \in Seq(S) /\ n \in Nat /\ 1 \in 1 .. Len(s) + 1 /\ n \in 0 .. Len(s)
        BY <1>1 DEF IsSequence
    <2>2. \A i \in 1 .. n : i \in 1 .. Len(s)
        BY <1>1
    <2> HIDE DEF S
    <2>3. SubSeq(s, 1, n) = [i \in 1 .. n |-> s[1 + i - 1]]
        BY <1>1, <2>1, SubSeqProperties
    <2>4. \A i \in 1 .. n : s[1 + i - 1] = s[i] /\ s[i] \in S
        BY <2>1, <2>2, LenProperties
    <2> HIDE DEF n
    <2>5. SubSeq(s, 1, n) \in Seq(S) /\ Len(SubSeq(s, 1, n)) = n
        BY <2>1, <2>3, <2>4, SeqDef, LenProperties
    <2>6. \A i \in 1 .. n : SubSeq(s, 1, n)[i] = s[i]
        BY <2>3, <2>4
    <2> QED
        BY <2>5, <2>6 DEF S, n
<1>3. IsSequence(SubSeq(s, 1, Len(s) - 1))
    <2> DEFINE S == Range(s)
    <2> HIDE DEF S
    <2> QED
        BY <1>2, SequenceOf DEF S
<1> QED
    BY <1>1, <1>2, <1>3 DEF Front, Last

LEMMA PopOK ==
    ASSUME NEW fs, NEW macros, NEW equates, StackOK(fs, macros, equates), fs # <<>>
    PROVE  StackOK(Front(fs), macros, equates)
<1> DEFINE n == Len(fs)
<1>1. /\ IsSequence(Front(fs)) /\ n \in Nat \ {0} /\ Len(Front(fs)) = n - 1
      /\ \A i \in 1 .. n - 1 : Front(fs)[i] = fs[i]
    BY FrontSequence DEF StackOK
<1>2. \A i \in 1 .. n - 1 : i \in 1 .. n
    BY <1>1
<1>3. ASSUME NEW i \in 1 .. n - 1, fs[i].in = "macro",
             \A j \in 1 .. n - 1 : j < i => fs[j].in # "macro"
      PROVE  Same(fs[i].saved, equates)
    <2>1. \A j \in 1 .. n : j < i => j \in 1 .. n - 1
        BY <1>1
    <2> QED
        BY <1>2, <1>3, <2>1 DEF StackOK
<1> HIDE DEF n
<1> QED
    BY <1>1, <1>2, <1>3 DEF StackOK, n

LEMMA PushOK ==
    ASSUME NEW fs, NEW macros, NEW equates, StackOK(fs, macros, equates),
           NEW f, FrameOK(f, macros),
           f.in # "macro" => NoMacros(fs),
           f.in = "macro" /\ NoMacros(fs) => Same(f.saved, equates)
    PROVE  /\ StackOK(Append(fs, f), macros, equates)
           /\ NoMacros(Append(fs, f)) <=> f.in # "macro"
           /\ Append(fs, f) # <<>> /\ Last(Append(fs, f)) = f
<1> DEFINE n == Len(fs)
           gs == Append(fs, f)
<1>1. /\ IsSequence(gs) /\ n \in Nat /\ Len(gs) = n + 1
      /\ \A i \in 1 .. n : gs[i] = fs[i]
      /\ gs[n + 1] = f
    BY AppendSequence DEF StackOK
<1>2. \A i \in 1 .. n + 1 : i \in 1 .. n \/ i = n + 1
    BY <1>1
<1>3. \A i \in 1 .. n : i \in 1 .. n + 1 /\ i < n + 1
    BY <1>1
<1>4. gs # <<>> /\ Last(gs) = f
    BY <1>1 DEF Last
<1>5. NoMacros(gs) <=> f.in # "macro"
    <2> HIDE DEF gs
    <2>1. n + 1 \in 1 .. n + 1
        BY <1>1
    <2> QED
        BY <1>1, <1>2, <2>1 DEF NoMacros
<1> HIDE DEF gs, n
<1>6. \A i \in 1 .. n + 1 : FrameOK(gs[i], macros)
    BY <1>1, <1>2 DEF StackOK, n
<1>7. ASSUME NEW i \in 1 .. n + 1, NEW j \in 1 .. n + 1, i < j, gs[i].in = "macro"
      PROVE  gs[j].in = "macro"
    <2>1. i \in 1 .. n
        BY <1>1, <1>7
    <2>2. CASE j \in 1 .. n
        BY <1>1, <1>7, <2>1, <2>2 DEF StackOK, n
    <2>3. CASE j = n + 1
        BY <1>1, <1>7, <2>1, <2>3 DEF NoMacros, n
    <2> QED
        BY <1>2, <2>2, <2>3
<1>8. ASSUME NEW i \in 1 .. n + 1, gs[i].in = "macro",
             \A j \in 1 .. n + 1 : j < i => gs[j].in # "macro"
      PROVE  Same(gs[i].saved, equates)
    <2>1. CASE i \in 1 .. n
        BY <1>1, <1>3, <1>8, <2>1 DEF StackOK, n
    <2>2. CASE i = n + 1
        <3>1. NoMacros(fs)
            BY <1>1, <1>3, <1>8, <2>2 DEF NoMacros, n
        <3> QED
            BY <1>1, <1>8, <2>2, <3>1
    <2> QED
        BY <1>2, <2>1, <2>2
<1>9. StackOK(gs, macros, equates)
    BY <1>1, <1>6, <1>7, <1>8 DEF StackOK
<1> QED
    BY <1>4, <1>5, <1>9 DEF gs

(* The innermost frame tells whether a macro is in progress.               *)
LEMMA TopMacro ==
    ASSUME NEW fs, NEW macros, NEW equates, StackOK(fs, macros, equates), fs # <<>>
    PROVE  /\ NoMacros(fs) <=> Last(fs).in # "macro"
           /\ FrameOK(Last(fs), macros)
           /\ Last(fs).in # "macro" => NoMacros(Front(fs))
           /\ Last(fs).in = "macro" /\ NoMacros(Front(fs)) => Same(Last(fs).saved, equates)
<1> DEFINE n == Len(fs)
<1>1. /\ n \in Nat \ {0} /\ Last(fs) = fs[n] /\ Len(Front(fs)) = n - 1
      /\ \A i \in 1 .. n - 1 : Front(fs)[i] = fs[i]
    BY FrontSequence DEF StackOK
<1>2. /\ n \in 1 .. n /\ \A i \in 1 .. n : i = n \/ i < n
      /\ \A i \in 1 .. n - 1 : i \in 1 .. n
      /\ \A i \in 1 .. n : i < n => i \in 1 .. n - 1
    BY <1>1
<1> HIDE DEF n
<1>3. NoMacros(fs) <=> fs[n].in # "macro"
    BY <1>2 DEF NoMacros, StackOK, n
<1>4. fs[n].in # "macro" => NoMacros(Front(fs))
    BY <1>1, <1>2, <1>3 DEF NoMacros, n
<1>5. fs[n].in = "macro" /\ NoMacros(Front(fs)) => Same(fs[n].saved, equates)
    BY <1>1, <1>2 DEF NoMacros, StackOK, n
<1> QED
    BY <1>1, <1>2, <1>3, <1>4, <1>5 DEF StackOK, n

(* The innermost frame at another line.                                    *)
LEMMA ReplaceOK ==
    ASSUME NEW fs, NEW macros, NEW equates, StackOK(fs, macros, equates), fs # <<>>,
           NEW f, FrameOK(f, macros), f.in = Last(fs).in,
           f.in = "macro" => f.saved = Last(fs).saved
    PROVE  /\ StackOK(Append(Front(fs), f), macros, equates)
           /\ NoMacros(Append(Front(fs), f)) <=> NoMacros(fs)
           /\ Append(Front(fs), f) # <<>> /\ Last(Append(Front(fs), f)) = f
<1>1. StackOK(Front(fs), macros, equates)
    BY PopOK
<1>2. /\ NoMacros(fs) <=> Last(fs).in # "macro"
      /\ f.in # "macro" => NoMacros(Front(fs))
      /\ f.in = "macro" /\ NoMacros(Front(fs)) => Same(f.saved, equates)
    BY TopMacro
<1> QED
    BY <1>1, <1>2, PushOK

(* Another macro, or another equate when none is in progress.              *)
LEMMA StackGrows ==
    ASSUME NEW fs, NEW macros, NEW equates, StackOK(fs, macros, equates),
           NEW more, macros \subseteq more, NEW others, NoMacros(fs) \/ others = equates
    PROVE  StackOK(fs, more, others)
<1>1. \A i \in 1 .. Len(fs) : FrameOK(fs[i], more)
    BY DEF StackOK, FrameOK
<1> QED
    BY <1>1 DEF StackOK, NoMacros

(* A refused line ends all: what the first macro has saved is put back.    *)
LEMMA FailHygiene ==
    ASSUME HygieneInv, Parsing, NEW e, NEW equates, Fail(e, equates), Macro' = Macro,
           ~InMacro => Same(equates, fileEquate)
    PROVE  HygieneInv'
<1>1. frames' = <<>> /\ fileEquate' = fileEquate
      /\ Equate' = IF InMacro THEN BeforeMacros ELSE equates
    BY DEF Fail
<1>2. CASE ~InMacro
    BY <1>1, <1>2 DEF HygieneInv, StackOK, IsSequence
<1>3. CASE InMacro
    <2> DEFINE n == Len(frames)
               macros == {i \in DOMAIN frames : frames[i].in = "macro"}
    <2>1. n \in Nat \ {0} /\ DOMAIN frames = 1 .. n /\ Top = frames[n]
        BY FrontSequence, LenProperties DEF HygieneInv, StackOK, Parsing, Top, IsSequence
    <2>2. macros \in SUBSET Nat /\ n \in macros
        BY <1>3, <2>1 DEF InMacro
    <2>3. Min(macros) \in macros /\ \A i \in macros : Min(macros) =< i
        BY <2>2, LeastNat
    <2>4. ASSUME NEW j \in 1 .. n, j < Min(macros)
          PROVE  frames[j].in # "macro"
        <3> DEFINE least == Min(macros)
        <3>1. least \in Nat /\ (j \in macros => least =< j)
            BY <2>2, <2>3
        <3>2. j \in macros <=> frames[j].in = "macro"
            BY <2>1
        <3> HIDE DEF macros, least
        <3>3. j \in Nat /\ j < least
            BY <2>1, <2>4 DEF least
        <3> QED
            BY <3>1, <3>2, <3>3
    <2>5. Same(frames[Min(macros)].saved, fileEquate)
        BY <2>1, <2>3, <2>4 DEF HygieneInv, StackOK
    <2>6. Same(Equate', fileEquate)
        BY <1>1, <1>3, <2>5 DEF BeforeMacros
    <2> QED
        BY <1>1, <2>6 DEF HygieneInv, StackOK, IsSequence
<1> QED
    BY <1>2, <1>3

(* What every line of a Parse begins with.                                 *)
LEMMA AtLine ==
    ASSUME HygieneInv, Parsing
    PROVE  /\ StackOK(frames, DOMAIN Macro, fileEquate) /\ frames # <<>>
           /\ FrameOK(Top, DOMAIN Macro)
           /\ NoMacros(frames) <=> ~InMacro
           /\ ~InMacro => Same(Equate, fileEquate) /\ Same(Numbered, fileEquate)
           /\ DOMAIN Numbered = DOMAIN Equate
           /\ \A kind : At(kind) /\ InMacro => kind = "text"
<1>1. StackOK(frames, DOMAIN Macro, fileEquate) /\ frames # <<>>
    BY DEF HygieneInv, Parsing
<1>2. FrameOK(Top, DOMAIN Macro) /\ (NoMacros(frames) <=> ~InMacro)
    BY <1>1, TopMacro DEF Top, InMacro
<1>3. Same(Equate, fileEquate) => Same(Numbered, fileEquate)
    BY DEF Same, Numbered
<1>4. ASSUME NEW kind, At(kind), InMacro
      PROVE  kind = "text"
    <2>1. MacroOK(Macro[Top.name]) /\ Top.next \in Nat \ {0} /\ Top.next =< Len(Lines)
        BY <1>2, <1>4 DEF HygieneInv, FrameOK, InMacro, At
    <2>2. Lines = Macro[Top.name].lines /\ Line.is = kind
        BY <1>4 DEF At, Lines, Line
    <2>3. Len(Lines) \in Nat
        BY <2>1, <2>2, AppendSequence DEF MacroOK
    <2> QED
        BY <2>1, <2>2, <2>3 DEF MacroOK, Line
<1>5. DOMAIN Numbered = DOMAIN Equate
    BY DEF Numbered
<1> QED
    BY <1>1, <1>2, <1>3, <1>4, <1>5 DEF HygieneInv

(* The frame at the next line, and it defining another macro or none.      *)
LEMMA TopAt ==
    ASSUME HygieneInv, Parsing
    PROVE  /\ StackOK(Advanced, DOMAIN Macro, fileEquate)
           /\ NoMacros(Advanced) <=> ~InMacro
           /\ \A m, macros : DOMAIN Macro \subseteq macros /\ (m # NoMacro => m \in macros) =>
                  LET fs == Append(Outer, [Top EXCEPT !.next = @ + 1, !.macro = m])
                  IN  StackOK(fs, macros, fileEquate) /\ (NoMacros(fs) <=> ~InMacro)
<1>1. /\ StackOK(frames, DOMAIN Macro, fileEquate) /\ frames # <<>>
      /\ FrameOK(Top, DOMAIN Macro) /\ (NoMacros(frames) <=> ~InMacro)
    BY AtLine
<1>2. /\ FrameOK([Top EXCEPT !.next = @ + 1], DOMAIN Macro)
      /\ [Top EXCEPT !.next = @ + 1].in = Top.in
      /\ Top.in = "macro" => [Top EXCEPT !.next = @ + 1].saved = Top.saved
    BY <1>1 DEF FrameOK
<1>3. ASSUME NEW m, NEW macros, DOMAIN Macro \subseteq macros, m # NoMacro => m \in macros
      PROVE  /\ StackOK(Append(Outer, [Top EXCEPT !.next = @ + 1, !.macro = m]), macros, fileEquate)
             /\ NoMacros(Append(Outer, [Top EXCEPT !.next = @ + 1, !.macro = m])) <=> ~InMacro
    <2> DEFINE f == [Top EXCEPT !.next = @ + 1, !.macro = m]
    <2>1. FrameOK(f, macros) /\ f.in = Top.in /\ (Top.in = "macro" => f.saved = Top.saved)
        <3> DEFINE g == [Top EXCEPT !.next = @ + 1]
        <3>1. f = [g EXCEPT !.macro = m]
            OBVIOUS
        <3> HIDE DEF f, g
        <3>2. FrameOK(g, DOMAIN Macro) /\ g.in = Top.in /\ (Top.in = "macro" => g.saved = Top.saved)
            BY <1>2 DEF g
        <3> QED
            BY <1>3, <3>1, <3>2 DEF FrameOK
    <2>2. StackOK(frames, macros, fileEquate)
        BY <1>1, <1>3, StackGrows
    <2> HIDE DEF f
    <2>3. StackOK(Append(Outer, f), macros, fileEquate) /\ (NoMacros(Append(Outer, f)) <=> NoMacros(frames))
        BY <1>1, <2>1, <2>2, ReplaceOK DEF Top, Outer
    <2> QED
        BY <1>1, <2>3 DEF f
<1>4. StackOK(Advanced, DOMAIN Macro, fileEquate) /\ (NoMacros(Advanced) <=> NoMacros(frames))
    BY <1>1, <1>2, ReplaceOK DEF Top, Outer, Advanced
<1> QED
    BY <1>1, <1>3, <1>4

(* To the next line, with equates that the files have.                     *)
LEMMA AdvanceHygiene ==
    ASSUME HygieneInv, Parsing, frames' = Advanced, UNCHANGED <<Macro, fileEquate>>,
           Equate' \in {Equate, Numbered}
    PROVE  HygieneInv'
BY TopAt, AtLine DEF HygieneInv

LEMMA IncludeHygiene == ASSUME HygieneInv, Include PROVE HygieneInv'
<1>1. Parsing /\ Macro' = Macro /\ ~InMacro
    BY AtLine DEF Include, At
<1>2. CASE Fail("ErrNotExist", Equate)
    BY <1>1, <1>2, FailHygiene, AtLine
<1>3. CASE frames' = Append(Advanced, FileFrame(Line.path)) /\ UNCHANGED names
    <2>1. StackOK(Advanced, DOMAIN Macro, fileEquate) /\ NoMacros(Advanced)
        BY <1>1, TopAt
    <2>2. FrameOK(FileFrame(Line.path), DOMAIN Macro) /\ FileFrame(Line.path).in # "macro"
        BY DEF FrameOK, FileFrame
    <2>3. StackOK(frames', DOMAIN Macro, fileEquate) /\ NoMacros(frames')
        BY <1>3, <2>1, <2>2, PushOK
    <2> QED
        BY <1>1, <1>3, <2>3, AtLine DEF HygieneInv, names
<1> QED
    BY <1>2, <1>3 DEF Include

LEMMA MacroBeginHygiene == ASSUME HygieneInv, MacroBegin PROVE HygieneInv'
<1> DEFINE macro == [line |-> Top.next + 1, args |-> Line.args, lines |-> <<>>]
           f == [Top EXCEPT !.next = @ + 1, !.macro = Line.name]
<1>1. Parsing /\ ~InMacro
    BY AtLine DEF MacroBegin, At
<1>2. CASE Fail("ErrMacroDuplicate", Equate) /\ UNCHANGED Macro
    BY <1>1, <1>2, FailHygiene, AtLine
<1>3. CASE Macro' = Extended(Macro, {Line.name}, macro) /\ frames' = Append(Outer, f) /\ UNCHANGED names
    <2>1. MacroOK(macro)
        BY DEF MacroOK, IsSequence
    <2>2. /\ DOMAIN Macro' = DOMAIN Macro \cup {Line.name}
          /\ \A m \in DOMAIN Macro' : Macro'[m] = IF m \in DOMAIN Macro THEN Macro[m] ELSE macro
        <3> HIDE DEF macro
        <3> QED
            BY <1>3 DEF Extended
    <2>3. \A m \in DOMAIN Macro' : MacroOK(Macro'[m])
        BY <2>1, <2>2 DEF HygieneInv
    <2>4. StackOK(frames', DOMAIN Macro', fileEquate) /\ NoMacros(frames')
        BY <1>1, <1>3, <2>2, TopAt
    <2> QED
        BY <1>1, <1>3, <2>3, <2>4, AtLine DEF HygieneInv, names
<1> QED
    BY <1>2, <1>3 DEF MacroBegin

LEMMA MacroEndHygiene == ASSUME HygieneInv, MacroEnd PROVE HygieneInv'
<1>1. Parsing /\ ~InMacro /\ Macro' = Macro
    BY AtLine DEF MacroEnd, At
<1>2. CASE Fail("ErrMacroLonelyEndm", Equate)
    BY <1>1, <1>2, FailHygiene, AtLine
<1>3. CASE /\ frames' = Append(Outer, [Top EXCEPT !.next = @ + 1, !.macro = NoMacro])
           /\ UNCHANGED names
    BY <1>1, <1>3, TopAt, AtLine DEF HygieneInv, names
<1> QED
    BY <1>2, <1>3 DEF MacroEnd

LEMMA CollectHygiene == ASSUME HygieneInv, Collect PROVE HygieneInv'
<1>1. /\ Parsing /\ Top.macro # NoMacro /\ Line.is = "text"
      /\ Macro' = [Macro EXCEPT ![Top.macro].lines = Append(@, Line)]
      /\ frames' = Advanced /\ UNCHANGED names
    BY DEF Collect, At, AtText
<1>2. Top.macro \in DOMAIN Macro
    BY <1>1, AtLine DEF FrameOK
<1>3. DOMAIN Macro' = DOMAIN Macro
    BY <1>1
<1>4. ASSUME NEW m \in DOMAIN Macro
      PROVE  MacroOK(Macro'[m])
    <2>1. MacroOK(Macro[m])
        BY DEF HygieneInv
    <2>2. CASE m # Top.macro
        BY <1>1, <1>4, <2>1, <2>2
    <2>3. CASE m = Top.macro
        <3> DEFINE lines == Append(Macro[m].lines, Line)
        <3>1. /\ IsSequence(lines) /\ \A i \in 1 .. Len(lines) : lines[i].is = "text"
            <4> DEFINE n == Len(Macro[m].lines)
            <4>1. /\ IsSequence(lines) /\ n \in Nat /\ Len(lines) = n + 1
                  /\ \A i \in 1 .. n : lines[i] = Macro[m].lines[i]
                  /\ lines[n + 1] = Line
                BY <2>1, AppendSequence DEF MacroOK
            <4>2. \A i \in 1 .. n + 1 : i \in 1 .. n \/ i = n + 1
                BY <4>1
            <4> HIDE DEF lines
            <4> QED
                BY <1>1, <2>1, <4>1, <4>2 DEF MacroOK
        <3>2. Macro'[m] = [Macro[m] EXCEPT !.lines = lines]
            BY <1>1, <1>2, <2>3
        <3> HIDE DEF lines
        <3> QED
            BY <2>1, <3>1, <3>2 DEF MacroOK
    <2> QED
        BY <2>2, <2>3
<1>5. StackOK(frames', DOMAIN Macro', fileEquate) /\ (NoMacros(frames') <=> ~InMacro)
    BY <1>1, <1>3, TopAt
<1> QED
    BY <1>1, <1>3, <1>4, <1>5, AtLine DEF HygieneInv, names

(* The end of a file, or of a macro.                                       *)
LEMMA EndHygiene == ASSUME HygieneInv, EndFile \/ EndMacro PROVE HygieneInv'
<1>1. Parsing /\ Macro' = Macro
    BY DEF EndFile, EndMacro
<1>2. /\ StackOK(Outer, DOMAIN Macro, fileEquate)
      /\ ~InMacro => NoMacros(Outer)
      /\ InMacro /\ NoMacros(Outer) => Same(Top.saved, fileEquate)
    BY <1>1, AtLine, PopOK, TopMacro DEF Outer, Top, InMacro
<1>3. CASE Fail("ErrMacroLonely", Equate)
    BY <1>1, <1>3, FailHygiene, AtLine
<1>4. CASE ~InMacro /\ frames' = Outer /\ UNCHANGED names
    BY <1>1, <1>2, <1>4, AtLine DEF HygieneInv, names
<1>5. CASE InMacro /\ frames' = Outer /\ Equate' = Top.saved /\ fileEquate' = fileEquate
    BY <1>1, <1>2, <1>5 DEF HygieneInv
<1> QED
    BY <1>3, <1>4, <1>5 DEF EndFile, EndMacro

LEMMA EquHygiene == ASSUME HygieneInv, Equ PROVE HygieneInv'
<1> DEFINE name == Evaluated[2]
           value == Evaluated[3]
<1>1. Parsing /\ Macro' = Macro
    BY DEF Equ, AtText, At
<1>2. CASE Fail("ErrEquate", Numbered)
    BY <1>1, <1>2, FailHygiene, AtLine
<1>3. CASE /\ name \notin DOMAIN Numbered /\ frames' = Advanced
           /\ Equate' = Extended(Numbered, {name}, value)
           /\ fileEquate' = IF InMacro THEN fileEquate ELSE Extended(fileEquate, {name}, value)
    <2>1. /\ StackOK(Advanced, DOMAIN Macro, fileEquate) /\ (NoMacros(Advanced) <=> ~InMacro)
        BY <1>1, TopAt
    <2>2. CASE InMacro
        BY <1>1, <1>3, <2>1, <2>2 DEF HygieneInv
    <2>3. CASE ~InMacro
        <3>1. Same(Numbered, fileEquate) /\ fileEquate' = Extended(fileEquate, {name}, value)
            BY <1>1, <1>3, <2>3, AtLine
        <3> HIDE DEF name, value
        <3>2. Same(Equate', fileEquate')
            BY <1>3, <3>1 DEF Same, Extended
        <3>3. StackOK(Advanced, DOMAIN Macro, fileEquate')
            BY <2>1, <2>3, StackGrows
        <3> QED
            BY <1>1, <1>3, <3>2, <3>3 DEF HygieneInv
    <2> QED
        BY <2>2, <2>3
<1> QED
    BY <1>2, <1>3 DEF Equ

LEMMA CallMacroHygiene == ASSUME HygieneInv, CallMacro PROVE HygieneInv'
<1> DEFINE f == MacroFrame(Words[1], Numbered)
<1>1. Parsing /\ Macro' = Macro /\ Words[1] \in DOMAIN Macro
    BY DEF CallMacro, Statement, AtText, At
<1>2. CASE Fail("ErrMacroSyntax", Numbered)
    BY <1>1, <1>2, FailHygiene, AtLine
<1>3. CASE frames' = Append(Advanced, f) /\ UNCHANGED fileEquate
    <2>1. StackOK(Advanced, DOMAIN Macro, fileEquate) /\ (NoMacros(Advanced) <=> ~InMacro)
        BY <1>1, TopAt
    <2>2. FrameOK(f, DOMAIN Macro) /\ f.in = "macro" /\ f.saved = Numbered
        BY <1>1 DEF FrameOK, MacroFrame
    <2>3. ~InMacro => Same(Numbered, fileEquate)
        BY <1>1, AtLine
    <2> HIDE DEF f
    <2>4. StackOK(frames', DOMAIN Macro, fileEquate) /\ ~NoMacros(frames')
        BY <1>3, <2>1, <2>2, <2>3, PushOK
    <2> QED
        BY <1>1, <1>3, <2>4 DEF HygieneInv
<1> QED
    BY <1>2, <1>3 DEF CallMacro

(* The other lines of text.                                                *)
LEMMA TextHygiene ==
    ASSUME HygieneInv, NotEvaluable \/ LabelTwice \/ LabelOnly \/ Emit
    PROVE  HygieneInv'
<1>1. Parsing /\ Macro' = Macro
    BY DEF NotEvaluable, LabelTwice, LabelOnly, Emit, Statement, AtText, At
<1>2. \/ \E e : Fail(e, Numbered)
      \/ Equate' = Numbered /\ frames' = Advanced /\ UNCHANGED fileEquate
    BY DEF NotEvaluable, LabelTwice, LabelOnly, Emit
<1> QED
    BY <1>1, <1>2, FailHygiene, AdvanceHygiene, AtLine

LEMMA HygieneNext == HygieneInv /\ [Next]_vars => HygieneInv'
<1> SUFFICES ASSUME HygieneInv, [Next]_vars PROVE HygieneInv'
    OBVIOUS
<1>1. CASE Step
    BY <1>1, IncludeHygiene, MacroBeginHygiene, MacroEndHygiene, CollectHygiene, EndHygiene,
       EquHygiene, CallMacroHygiene, TextHygiene DEF Step
<1>2. CASE Clear
    <2>1. fileEquate' = Equate' /\ Macro' = <<>> /\ frames' = <<>>
        BY <1>2 DEF Clear, Idle
    <2> QED
        BY <2>1 DEF HygieneInv, StackOK, IsSequence, Same
<1>3. ASSUME NEW path \in DOMAIN source, Parse(path)
      PROVE  HygieneInv'
    <2> DEFINE f == FileFrame(path)
    <2>1. frames = <<>> /\ frames' \in {<<>>, <<f>>} /\ UNCHANGED <<names, Macro>>
        BY <1>3 DEF Parse, Idle
    <2>2. CASE frames' = <<>>
        BY <2>1, <2>2 DEF HygieneInv, names
    <2>3. CASE frames' = <<f>>
        <3>1. FrameOK(f, DOMAIN Macro) /\ f.in # "macro"
            BY DEF FrameOK, FileFrame
        <3>2. NoMacros(frames)
            BY <2>1 DEF NoMacros
        <3> HIDE DEF f
        <3>3. frames' = Append(frames, f)
            BY <2>1, <2>3
        <3>4. StackOK(frames', DOMAIN Macro, fileEquate)
            BY <3>1, <3>2, <3>3, PushOK DEF HygieneInv
        <3> QED
            BY <2>1, <3>2, <3>4 DEF HygieneInv, names
    <2> QED
        BY <2>1, <2>2, <2>3
<1>4. CASE Link \/ (\E d \in Predefines : Predefine(d[1], d[2])) \/ UNCHANGED vars
    <2>1. UNCHANGED <<frames, Macro, names>>
        BY <1>4 DEF Link, Predefine, vars
    <2> QED
        BY <2>1 DEF HygieneInv, names
<1> QED
    BY <1>1, <1>2, <1>3, <1>4 DEF Next

-----------------------------------------------------------------------------
(* The theorems.                                                           *)

LEMMA InitInv == Init => Inv
<1> SUFFICES ASSUME Init PROVE Inv
    OBVIOUS
<1>1. Shape /\ AddressesContinue /\ LabelsAddress
    BY DEF Init, Shape, IsSequence, AddressesContinue, LabelsAddress
<1>2. JumpsLand /\ FailureKnown
    BY DEF Init, JumpsLand, FailureKnown
<1> QED
    BY <1>1, <1>2 DEF Inv

LEMMA NextInv == Inv /\ [Next]_vars => Inv'
<1> SUFFICES ASSUME Inv, [Next]_vars PROVE Inv'
    OBVIOUS
<1>1. CASE Include \/ MacroBegin \/ MacroEnd \/ Collect \/ EndFile \/ EndMacro
           \/ NotEvaluable \/ Equ
    BY <1>1, LineKeeps
<1>2. CASE LabelTwice \/ LabelOnly \/ CallMacro
    BY <1>2, LabelledLineKeeps
<1>3. CASE Emit
    BY <1>3, EmitKeeps
<1>4. CASE Clear
    BY <1>4, ClearKeeps
<1>5. CASE Link
    BY <1>5, LinkKeeps
<1>6. CASE \E path \in DOMAIN source : Parse(path)
    <2>1. Quiet /\ FailureKnown'
        BY <1>6 DEF Parse, Quiet, code, Inv, FailureKnown
    <2> QED
        BY <2>1, QuietKeeps
<1>7. CASE \E d \in Predefines : Predefine(d[1], d[2])
    <2>1. Quiet /\ FailureKnown'
        BY <1>7 DEF Predefine, Quiet, code, Inv, FailureKnown
    <2> QED
        BY <2>1, QuietKeeps
<1>8. CASE UNCHANGED vars
    <2>1. Quiet /\ FailureKnown'
        BY <1>8 DEF vars, Quiet, code, Inv, FailureKnown
    <2> QED
        BY <2>1, QuietKeeps
<1> QED
    BY <1>1, <1>2, <1>3, <1>4, <1>5, <1>6, <1>7, <1>8 DEF Next, Step

LEMMA Invariance == Spec => []Inv
BY InitInv, NextInv, PTL DEF Spec

(* The addresses count the codes, for any text of any length: a statement  *)
(* begins where the one before it ends.                                    *)
THEOREM AddressesAlwaysContinue == Spec => []AddressesContinue
<1>1. Inv => AddressesContinue
    BY DEF Inv
<1> QED
    BY <1>1, Invariance, PTL

(* In every linked program, every jump and call goes to the first code of  *)
(* the statement behind its label, or to the end of the program.           *)
THEOREM JumpsAlwaysLand == Spec => []JumpsLand
<1>1. Inv => JumpsLand
    BY DEF Inv
<1> QED
    BY <1>1, Invariance, PTL

(* Nothing is linked after a Parse has failed, until the next Clear.       *)
THEOREM NeverHalfProgram == Spec => NoHalfProgram
<1>1. Inv /\ [Next]_vars => [prog' # prog => ready /\ ~failed]_vars
    <2> SUFFICES ASSUME Inv, Next, prog' # prog
                 PROVE  ready /\ ~failed
        BY DEF vars
    <2>1. CASE Link
        BY <2>1 DEF Link, Inv, FailureKnown
    <2>2. CASE Step
        <3>1. Proceed \/ \E e, equates : Fail(e, equates)
            BY <2>2 DEF Step, Include, MacroBegin, MacroEnd, Collect, EndFile, EndMacro, NotEvaluable,
                   Equ, LabelTwice, LabelOnly, CallMacro, Emit
        <3> QED
            BY <3>1, Progress
    <2>3. CASE Clear
        BY <2>3 DEF Clear
    <2>4. CASE \E path \in DOMAIN source : Parse(path)
        BY <2>4 DEF Parse
    <2>5. CASE \E d \in Predefines : Predefine(d[1], d[2])
        BY <2>5 DEF Predefine
    <2> QED
        BY <2>1, <2>2, <2>3, <2>4, <2>5 DEF Next
<1> QED
    BY <1>1, Invariance, PTL DEF Spec, NoHalfProgram

(* A program keeps its data words, however often the array they are in is  *)
(* moved, cleared and taken up again, until the assembler parses others    *)
(* (src/cpu/assembler.go:364-372, the array that Clear keeps).             *)
THEOREM DataStaysAsWritten == Spec => []DataAsWritten
<1>1. DataInv => DataAsWritten
    BY DEF DataInv
<1> QED
    BY DataInit, DataNext, <1>1, PTL DEF Spec

(* Whatever macros call and define, however a text ends, and whoever calls *)
(* the assembler next: no argument and no equate of a macro is left behind *)
(* (src/cpu/assembler.go, the equates that a macro's lines put back).      *)
THEOREM MacrosAreHygienic == Spec => []MacroHygiene
<1>1. Init => HygieneInv
    BY DEF Init, HygieneInv, StackOK, IsSequence, Same
<1>2. HygieneInv => MacroHygiene
    <2> SUFFICES ASSUME HygieneInv, ~(Parsing /\ InMacro) PROVE Same(Equate, fileEquate)
        BY DEF Same, MacroHygiene
    <2>1. CASE frames = <<>>
        BY <2>1 DEF HygieneInv, NoMacros
    <2>2. CASE frames # <<>>
        BY <2>2, AtLine DEF Parsing
    <2> QED
        BY <2>1, <2>2
<1> QED
    BY <1>1, <1>2, HygieneNext, PTL DEF Spec

-----------------------------------------------------------------------------
(* Instruction words.                                                      *)

(* The five bits of class and operation, for each form of instruction.     *)
High(class, op) == IF class = OP_COPROC THEN 28 + op ELSE class * 8 + op

(* What the CPU decodes is what the assembler encoded: for every           *)
(* instruction of every class, the condition, the class, the operation     *)
(* (the number of a coprocessor) and the two operands come back, and the   *)
(* word has sixteen bits.                                                  *)
THEOREM DecodeEncoded ==
    ASSUME NEW i \in Instructions
    PROVE  MakeCode(i) \in Nat /\ MakeCode(i) < 65536 /\ Decode(MakeCode(i)) = i
<1> USE DEF OP_ALU, OP_COND, OP_CAPP, OP_IO, OP_COPROC
<1>1. /\ i.cond \in Int /\ 0 =< i.cond /\ i.cond =< 3
      /\ i.class \in Int /\ 0 =< i.class /\ i.class =< 4
      /\ i.op \in Int /\ 0 =< i.op /\ i.op =< 7 /\ (i.class >= 3 => i.op =< 3)
      /\ i.a \in Int /\ 0 =< i.a /\ i.a =< 15 /\ (i.class = 0 => i.a =< 7)
      /\ i.b \in Int /\ 0 =< i.b /\ i.b =< 15
      /\ i = [cond |-> i.cond, class |-> i.class, op |-> i.op, a |-> i.a, b |-> i.b]
    BY DEF Instructions
<1>2. PICK cond \in Int : cond = i.cond
    BY <1>1
<1>3. PICK class \in Int : class = i.class
    BY <1>1
<1>4. PICK op \in Int : op = i.op
    BY <1>1
<1>5. PICK a \in Int : a = i.a
    BY <1>1
<1>6. PICK b \in Int : b = i.b
    BY <1>1
<1>7. i = [cond |-> cond, class |-> class, op |-> op, a |-> a, b |-> b]
    BY <1>1, <1>2, <1>3, <1>4, <1>5, <1>6
<1>8. /\ 0 =< cond /\ cond =< 3 /\ 0 =< class /\ class =< 4 /\ 0 =< op /\ op =< 7
      /\ 0 =< a /\ a =< 15 /\ 0 =< b /\ b =< 15
      /\ class >= 3 => op =< 3
      /\ class = 0 => a =< 7
    BY <1>1, <1>2, <1>3, <1>4, <1>5, <1>6
<1>9. PICK high \in Int :
          /\ high = High(class, op)
          /\ 0 =< high /\ high =< 31
    BY <1>8 DEF High
<1>10. 0 =< high /\ high =< 31
    BY <1>9
<1>11. /\ class =< 2 => high \div 8 = class /\ high % 8 = op
       /\ class >= 3 => high \div 8 = 3 /\ high % 4 = op
       /\ class = 3 => (high \div 4) % 2 = 0
       /\ class = 4 => (high \div 4) % 2 = 1
    BY <1>8, <1>9 DEF High
<1>12. PICK word \in Int : word = cond * 16384 + high * 256 + a * 16 + b
    BY <1>8, <1>9
<1>13. MakeCode(i) = word
    <2>1. class = 0 => a % 8 = a
        BY <1>8
    <2>2. MakeCode(i) = cond * 16384 + ClassAndOp(i) + a * 16 + b
        BY <1>2, <1>3, <1>5, <1>6, <2>1 DEF MakeCode
    <2>3. ClassAndOp(i) = high * 256
        BY <1>8, <1>9, <1>3, <1>4 DEF ClassAndOp, High
    <2> QED
        BY <1>12, <2>2, <2>3
<1>14. 0 =< word /\ word < 65536 /\ Cond(word) = cond /\ A(word) = a /\ B(word) = b
    <2>1. 0 =< word /\ word < 65536
        BY <1>8, <1>10, <1>12
    <2>2. (word \div 16384) % 4 = cond
        BY <1>8, <1>10, <1>12
    <2>3. (word \div 16) % 16 = a /\ word % 16 = b
        BY <1>8, <1>10, <1>12
    <2> QED
        BY <2>1, <2>2, <2>3 DEF Cond, A, B
<1>15. Class(word) = class /\ Op(word) = op
    <2>1. word \div 256 = cond * 64 + high
        BY <1>8, <1>10, <1>12
    <2>2. (word \div 256) % 4 = high % 4 /\ (word \div 256) % 8 = high % 8
        BY <1>8, <1>10, <2>1
    <2>3. (word \div 2048) % 4 = high \div 8
        BY <1>8, <1>10, <1>12
    <2>4. (word \div 1024) % 2 = (high \div 4) % 2
        BY <1>8, <1>10, <1>12
    <2>5. Class(word) = class
        BY <1>8, <1>11, <2>3, <2>4 DEF Class
    <2> QED
        BY <1>8, <1>11, <2>2, <2>5 DEF Op
<1>16. Decode(word) = i
    BY <1>7, <1>14, <1>15 DEF Decode
<1> QED
    BY <1>13, <1>14, <1>16

-----------------------------------------------------------------------------
(* The codes are instructions.                                             *)

LEMMA HalfIsNumber == \A n : n \in Halves16 <=> n \in Int /\ 0 =< n /\ n =< 65535
<1>1. PICK top : top = 65535
    BY SMT
<1>2. Halves16 = 0 .. top
    BY <1>1, SMT DEF Halves16
<1>3. top \in Int
    BY <1>1, SMT
<1>4. \A n : n \in Halves16 <=> n \in Int /\ 0 =< n /\ n =< top
    BY <1>2, <1>3, SMT
<1> QED
    BY <1>1, <1>4, SMT

(* A code is what its instruction is encoded to, with the immediates that  *)
(* the operands of it call for.                                            *)
CodeSound(c) == /\ c.instr \in Instructions /\ c.word = MakeCode(c.instr)
                /\ c.imms \in Seq(Halves16) /\ Len(c.imms) = ImmediateNeed(c.word)

LEMMA NeedOfCode ==
    ASSUME NEW i \in Instructions
    PROVE  ImmediateNeed(MakeCode(i)) =
               (IF i.class \in {OP_ALU, OP_IO} THEN 0 ELSE Halves(i.a)) + Halves(i.b)
<1>1. Decode(MakeCode(i)) = i
    BY DecodeEncoded
<1>2. Class(MakeCode(i)) = i.class /\ A(MakeCode(i)) = i.a /\ B(MakeCode(i)) = i.b
    BY <1>1 DEF Decode
<1> QED
    BY <1>2 DEF ImmediateNeed

(* An operand, or two, and the immediates they stand for.                  *)
OperandSound(ir, imms) == ir \in 0 .. 15 /\ imms \in Seq(Halves16) /\ Len(imms) = Halves(ir)
MatchMaskSound(m) == /\ m.a \in 0 .. 15 /\ m.b \in 0 .. 15
                     /\ m.imms \in Seq(Halves16) /\ Len(m.imms) = Halves(m.a) + Halves(m.b)

LEMMA Names ==
    /\ \A w \in DOMAIN dstMap : dstMap[w] \in 0 .. 7
    /\ \A w \in DOMAIN irMap : irMap[w] \in 0 .. 11
    /\ \A w \in DOMAIN aluMap : aluMap[w] \in 0 .. 7
    /\ \A w \in DOMAIN ifMap : ifMap[w] \in 0 .. 7
    /\ \A w \in {"all", "not", "next", "only", "of", "first", "write"} : listMap[w] \in 0 .. 7
    /\ \A w \in DOMAIN ioMap : ioMap[w] \in 0 .. 3
    /\ \A w : getCoproc(w) \in 0 .. 3
    /\ \A w \in DOMAIN condMap : condMap[w] \in 0 .. 3
    /\ \A w \in DOMAIN channelMap : channelMap[w] \in 0 .. 7
<1>1. \A w \in DOMAIN dstMap : dstMap[w] \in 0 .. 7
    BY DEF dstMap
<1>2. \A w \in DOMAIN irMap : irMap[w] \in 0 .. 11
    BY DEF irMap
<1>3. \A w \in DOMAIN aluMap : aluMap[w] \in 0 .. 7
    BY DEF aluMap
<1>4. \A w \in DOMAIN ifMap : ifMap[w] \in 0 .. 7
    BY DEF ifMap
<1>5. \A w \in {"all", "not", "next", "only", "of", "first", "write"} : listMap[w] \in 0 .. 7
    BY DEF listMap
<1>6. \A w \in DOMAIN ioMap : ioMap[w] \in 0 .. 3
    BY DEF ioMap
<1>7. \A w : getCoproc(w) \in 0 .. 3
    BY DEF getCoproc, coprocMap
<1>8. \A w \in DOMAIN condMap : condMap[w] \in 0 .. 3
    BY DEF condMap, COND_TRUE, COND_FALSE
<1>9. \A w \in DOMAIN channelMap : channelMap[w] \in 0 .. 7
    BY DEF channelMap
<1> QED
    BY <1>1, <1>2, <1>3, <1>4, <1>5, <1>6, <1>7, <1>8, <1>9

LEMMA ImmediateSound ==
    ASSUME NEW halves \in Halves16 \X Halves16
    PROVE  OperandSound(Immediate(halves).ir, Immediate(halves).imms)
<1>1. PICK h \in Halves16, l \in Halves16 : halves = <<h, l>>
    OBVIOUS
<1>2. /\ <<>> \in Seq(Halves16) /\ Len(<<>>) = 0
      /\ <<l>> \in Seq(Halves16) /\ Len(<<l>>) = 1
      /\ <<h, l>> \in Seq(Halves16) /\ Len(<<h, l>>) = 2
    OBVIOUS
<1>3. \/ Immediate(halves).ir = IR_CONST_0 /\ Immediate(halves).imms = <<>>
      \/ Immediate(halves).ir = IR_CONST_FFFFFFFF /\ Immediate(halves).imms = <<>>
      \/ Immediate(halves).ir = IR_IMMEDIATE_16 /\ Immediate(halves).imms = <<l>>
      \/ Immediate(halves).ir = IR_IMMEDIATE_32 /\ Immediate(halves).imms = <<h, l>>
    BY <1>1 DEF Immediate
<1>4. /\ OperandSound(IR_CONST_0, <<>>) /\ OperandSound(IR_CONST_FFFFFFFF, <<>>)
      /\ OperandSound(IR_IMMEDIATE_16, <<l>>) /\ OperandSound(IR_IMMEDIATE_32, <<h, l>>)
    BY <1>2 DEF OperandSound, Halves, IR_CONST_0, IR_CONST_FFFFFFFF, IR_IMMEDIATE_16, IR_IMMEDIATE_32
<1> QED
    BY <1>3, <1>4

LEMMA OperandsSound ==
    ASSUME NEW words
    PROVE  OperandSound(irOrImm(words).ir, irOrImm(words).imms)
<1>1. \A ir \in 0 .. 13 : OperandSound(ir, <<>>)
    BY DEF OperandSound, Halves, IR_IMMEDIATE_16, IR_IMMEDIATE_32
<1>2. OperandSound(Bad.ir, Bad.imms)
    BY <1>1 DEF Bad
<1>3. ASSUME words[1] \in DOMAIN irMap
      PROVE  OperandSound(irMap[words[1]], <<>>)
    BY <1>1, <1>3, Names
<1>4. ASSUME words[1] \in DOMAIN Number
      PROVE  OperandSound(Immediate(Number[words[1]]).ir, Immediate(Number[words[1]]).imms)
    BY <1>4, ImmediateSound, NumberAssumption
<1>5. OperandSound(IR_CONST_FFFFFFFF, <<>>)
    BY <1>1 DEF IR_CONST_FFFFFFFF
<1> QED
    BY <1>2, <1>3, <1>4, <1>5 DEF irOrImm

LEMMA MatchMasksSound ==
    ASSUME NEW words
    PROVE  MatchMaskSound(getMatchMask(words))
<1> DEFINE match == irOrImm(SubSeq(words, 1, 1))
           mask == IF match.ok THEN irOrImm(Tail(words)) ELSE Bad
<1>1. OperandSound(match.ir, match.imms)
    BY OperandsSound
<1>2. OperandSound(Bad.ir, Bad.imms)
    BY DEF OperandSound, Halves, IR_IMMEDIATE_16, IR_IMMEDIATE_32, Bad
<1>3. OperandSound(mask.ir, mask.imms)
    BY <1>2, OperandsSound
<1>4. /\ getMatchMask(words).a = match.ir /\ getMatchMask(words).b = mask.ir
      /\ getMatchMask(words).imms = match.imms \o mask.imms
    BY DEF getMatchMask
<1> HIDE DEF match, mask
<1>5. /\ match.imms \o mask.imms \in Seq(Halves16)
      /\ Len(match.imms \o mask.imms) = Len(match.imms) + Len(mask.imms)
    BY <1>1, <1>3, ConcatProperties DEF OperandSound
<1> QED
    BY <1>1, <1>3, <1>4, <1>5 DEF OperandSound, MatchMaskSound

LEMMA CodeIsSound ==
    ASSUME NEW instr \in Instructions, NEW imms \in Seq(Halves16),
           Len(imms) = (IF instr.class \in {OP_ALU, OP_IO} THEN 0 ELSE Halves(instr.a)) + Halves(instr.b)
    PROVE  CodeSound(Code(instr, imms))
BY NeedOfCode DEF CodeSound, Code

LEMMA AluSound ==
    ASSUME NEW cond \in 0 .. 3, NEW op \in DOMAIN aluMap, NEW dst \in 0 .. 7, NEW src, NEW imms,
           OperandSound(src, imms)
    PROVE  CodeSound(Alu(cond, op, dst, src, imms))
<1> DEFINE i == [cond |-> cond, class |-> OP_ALU, op |-> aluMap[op], a |-> dst, b |-> src]
<1>1. aluMap[op] \in 0 .. 7
    BY Names
<1>2. i \in Instructions
    BY <1>1 DEF Instructions, OperandSound
<1>3. i.class \in {OP_ALU, OP_IO} /\ i.b = src
    OBVIOUS
<1>4. Halves(src) \in Nat
    BY DEF Halves
<1> HIDE DEF i
<1> QED
    BY <1>2, <1>3, <1>4, CodeIsSound DEF Alu, OperandSound, i

LEMMA PlainSound ==
    ASSUME NEW cond \in 0 .. 3, NEW class \in {OP_COND, OP_CAPP, OP_COPROC},
           NEW op \in 0 .. 7, class = OP_COPROC => op \in 0 .. 3,
           NEW m, MatchMaskSound(m)
    PROVE  CodeSound(Plain(cond, class, op, m))
<1> DEFINE i == [cond |-> cond, class |-> class, op |-> op, a |-> m.a, b |-> m.b]
<1>1. i \in Instructions
    BY DEF Instructions, MatchMaskSound
<1>2. i.class \notin {OP_ALU, OP_IO} /\ i.a = m.a /\ i.b = m.b
    BY DEF OP_ALU, OP_IO, OP_COND, OP_CAPP, OP_COPROC
<1> HIDE DEF i
<1> QED
    BY <1>1, <1>2, CodeIsSound DEF Plain, MatchMaskSound, i

(* All codes there are, and that a statement waiting for a label ends in   *)
(* one with two immediates.                                                *)
Sound(codes, label) ==
    /\ \A n \in 1 .. Len(codes) : CodeSound(codes[n])
    /\ label # NoLabel => codes # <<>> /\ Len(codes[Len(codes)].imms) = 2
SoundResult(r) == Sound(r.codes, r.label)

LEMMA FewSound ==
    /\ \A ok, d : SoundResult(Result(ok, <<>>, d, NoLabel))
    /\ \A ok, d, c : CodeSound(c) => SoundResult(Result(ok, <<c>>, d, NoLabel))
    /\ \A ok, d, l, c : CodeSound(c) /\ Len(c.imms) = 2 => SoundResult(Result(ok, <<c>>, d, l))
    /\ \A ok, d, cond, c : cond \in 0 .. 3 /\ CodeSound(c) =>
           SoundResult(Result(ok, Call(cond, c), d, NoLabel))
    /\ \A ok, d, l, cond, c : cond \in 0 .. 3 /\ CodeSound(c) /\ Len(c.imms) = 2 =>
           SoundResult(Result(ok, Call(cond, c), d, l))
<1>1. \A ok, cs, d, l : Result(ok, cs, d, l).codes = cs /\ Result(ok, cs, d, l).label = l
    BY DEF Result
<1>2. \A c : CodeSound(c) => Sound(<<c>>, NoLabel)
    BY DEF Sound
<1>3. \A c, l : CodeSound(c) /\ Len(c.imms) = 2 => Sound(<<c>>, l)
    BY DEF Sound
<1>4. Sound(<<>>, NoLabel)
    BY DEF Sound
<1>5. ASSUME NEW cond \in 0 .. 3, NEW c, CodeSound(c)
      PROVE  /\ Sound(Call(cond, c), NoLabel)
             /\ Len(c.imms) = 2 => \A l : Sound(Call(cond, c), l)
    <2>1. PICK d : d = Alu(cond, "set", IR_STACK, IR_IMMEDIATE_16, <<1>>)
        OBVIOUS
    <2>2. PICK e : e = Alu(cond, "add", IR_STACK, IR_IP, <<>>)
        OBVIOUS
    <2>3. /\ OperandSound(IR_IMMEDIATE_16, <<1>>) /\ OperandSound(IR_IP, <<>>)
          /\ "set" \in DOMAIN aluMap /\ "add" \in DOMAIN aluMap /\ IR_STACK \in 0 .. 7
        BY DEF OperandSound, Halves, IR_IMMEDIATE_16, IR_IMMEDIATE_32, IR_IP, IR_STACK, aluMap, Halves16
    <2>4. CodeSound(d) /\ CodeSound(e)
        BY <2>1, <2>2, <2>3, AluSound
    <2>5. Call(cond, c) = <<d, e, c>>
        BY <2>1, <2>2 DEF Call
    <2>6. /\ Len(<<d, e, c>>) = 3 /\ <<d, e, c>> # <<>>
          /\ <<d, e, c>>[1] = d /\ <<d, e, c>>[2] = e /\ <<d, e, c>>[3] = c
        OBVIOUS
    <2>7. \A n \in 1 .. 3 : n = 1 \/ n = 2 \/ n = 3
        OBVIOUS
    <2>8. PICK three : three = <<d, e, c>>
        OBVIOUS
    <2> QED
        BY <1>5, <2>4, <2>5, <2>6, <2>7, <2>8 DEF Sound
<1> QED
    BY <1>1, <1>2, <1>3, <1>4, <1>5 DEF SoundResult

LEMMA StatementSound ==
    ASSUME NEW words
    PROVE  SoundResult(parseWords(words))
<1>1. \A w : SoundResult(DataOf(w))
    BY FewSound DEF DataOf, Refused
<1>2. \A cond \in 0 .. 3 : \A w : SoundResult(If(cond, w))
    <2>1. OP_COND # OP_COPROC
        BY DEF OP_COND, OP_COPROC
    <2> QED
        BY <2>1, Names, FewSound, PlainSound, MatchMasksSound DEF If, Refused
<1>3. \A cond \in 0 .. 3 : \A w : SoundResult(List(cond, w))
    <2>1. OP_CAPP # OP_COPROC
        BY DEF OP_CAPP, OP_COPROC
    <2>2. MatchMaskSound([a |-> IR_CONST_0, b |-> IR_CONST_0, imms |-> <<>>])
        BY DEF MatchMaskSound, Halves, IR_CONST_0, IR_IMMEDIATE_16, IR_IMMEDIATE_32
    <2> QED
        BY <2>1, <2>2, Names, FewSound, PlainSound, MatchMasksSound DEF List, Refused, Codes
<1>4. \A cond \in 0 .. 3 : \A w : SoundResult(Coproc(cond, w))
    <2>1. \A cond \in 0 .. 3 : \A w, m : MatchMaskSound(m) =>
              CodeSound(Plain(cond, OP_COPROC, getCoproc(w[2]), m))
        <3>1. \A w : getCoproc(w[2]) \in 0 .. 7 /\ getCoproc(w[2]) \in 0 .. 3
            BY Names
        <3> QED
            BY <3>1, PlainSound
    <2> QED
        BY <2>1, FewSound, MatchMasksSound DEF Coproc, Refused, Codes
<1>5. \A cond \in 0 .. 3 : \A w : SoundResult(Io(cond, w))
    <2> SUFFICES ASSUME NEW cond \in 0 .. 3, NEW w PROVE SoundResult(Io(cond, w))
        OBVIOUS
    <2> DEFINE arg == irOrImm(SubSeq(w, 4, Len(w)))
               m == [a |-> getChannel(w[3]), b |-> arg.ir, imms |-> arg.imms]
    <2>1. CASE w[2] \in DOMAIN ioMap /\ IsChannel(w[3])
        <3>1. OperandSound(arg.ir, arg.imms)
            BY OperandsSound
        <3> HIDE DEF arg
        <3>2. getChannel(w[3]) \in 0 .. 15
            <4>1. CASE w[3] \in DOMAIN channelMap
                BY <4>1, Names DEF getChannel
            <4>2. CASE w[3] \notin DOMAIN channelMap
                <5>1. Number[w[3]] \in Halves16 \X Halves16 /\ Number[w[3]][2] < 8
                    BY <2>1, <4>2, NumberAssumption DEF IsChannel
                <5>2. \A n \in Halves16 : n < 8 => n \in 0 .. 7
                    BY HalfIsNumber, SMT
                <5>3. Number[w[3]][2] \in Halves16
                    BY <5>1
                <5> QED
                    BY <4>2, <5>1, <5>2, <5>3 DEF getChannel
            <4> QED
                BY <4>1, <4>2
        <3>3. [cond |-> cond, class |-> OP_IO, op |-> ioMap[w[2]], a |-> m.a, b |-> m.b] \in Instructions
            BY <2>1, <3>1, <3>2, Names DEF Instructions, OperandSound
        <3>4. Halves(arg.ir) \in Nat
            BY DEF Halves
        <3>5. CodeSound(Plain(cond, OP_IO, ioMap[w[2]], m))
            BY <3>1, <3>3, <3>4, CodeIsSound DEF Plain, OperandSound
        <3> QED
            BY <3>5, FewSound DEF Io, Refused, Codes, arg
    <2>2. CASE ~(w[2] \in DOMAIN ioMap /\ IsChannel(w[3]))
        BY <2>2, FewSound DEF Io, Refused
    <2> QED
        BY <2>1, <2>2
<1>6. \A cond \in 0 .. 3 : \A w : SoundResult(AluOf(cond, w))
    BY Names, FewSound, AluSound, OperandsSound DEF AluOf, Refused, Codes
<1>7. \A cond \in 0 .. 3 : \A w : SoundResult(Flow(cond, w))
    <2> SUFFICES ASSUME NEW cond \in 0 .. 3, NEW w PROVE SoundResult(Flow(cond, w))
        OBVIOUS
    <2>1. "set" \in DOMAIN aluMap /\ IR_IP \in 0 .. 7
        BY DEF aluMap, IR_IP
    <2>2. CodeSound(Jump(cond)) /\ Len(Jump(cond).imms) = 2
        <3>1. OperandSound(IR_IMMEDIATE_32, <<0, 0>>)
            BY DEF OperandSound, Halves, IR_IMMEDIATE_16, IR_IMMEDIATE_32, Halves16
        <3>2. Len(Jump(cond).imms) = 2
            BY DEF Jump, Alu, Code
        <3> QED
            BY <2>1, <3>1, <3>2, AluSound DEF Jump
    <2>3. CodeSound(Alu(cond, "set", IR_IP, IR_CONST_FFFFFFFF, <<>>))
        <3>1. OperandSound(IR_CONST_FFFFFFFF, <<>>)
            BY DEF OperandSound, Halves, IR_IMMEDIATE_16, IR_IMMEDIATE_32, IR_CONST_FFFFFFFF
        <3> QED
            BY <2>1, <3>1, AluSound
    <2>4. \A ws : CodeSound(Alu(cond, "set", IR_IP, irOrImm(ws).ir, irOrImm(ws).imms))
        BY <2>1, AluSound, OperandsSound
    <2> QED
        BY <2>2, <2>3, <2>4, FewSound DEF Flow, Refused, Codes
<1>8. 0 \in 0 .. 3 /\ \A w \in DOMAIN condMap : condMap[w] \in 0 .. 3
    BY Names
<1> QED
    BY <1>1, <1>2, <1>3, <1>4, <1>5, <1>6, <1>7, <1>8 DEF parseWords, COND_ALWAYS

-----------------------------------------------------------------------------
(* The codes of the text, and of the program that Link makes of it.        *)

Sounds(opcodes) == \A i \in 1 .. Len(opcodes) : Sound(opcodes[i].codes, opcodes[i].label)

(* The addresses of the statements of a program (AddressesContinue).       *)
Continue(opcodes) ==
    \A i \in DOMAIN opcodes :
        opcodes[i].ip = IF i = 1 THEN 0 ELSE opcodes[i - 1].ip + Len(opcodes[i - 1].codes)

ProgramShape(opcodes) ==
    /\ IsSequence(opcodes) /\ \A i \in 1 .. Len(opcodes) : OpcodeShape(opcodes[i])
    /\ Sounds(opcodes) /\ Continue(opcodes)

(* What is parsed, and what has been linked of it, is sound code.          *)
CodesInv == Sounds(Opcodes) /\ (prog # NoProgram => ProgramShape(prog.opcodes))

LEMMA CodesQuiet == ASSUME CodesInv, UNCHANGED <<Opcodes, prog>> PROVE CodesInv'
BY DEF CodesInv

LEMMA LinkedSound ==
    ASSUME NEW op, OpcodeShape(op), Sound(op.codes, op.label),
           op.label # NoLabel => Label[op.label] \in Nat
    PROVE  Sound(Linked(op).codes, op.label)
<1>1. CASE op.label = NoLabel
    BY <1>1 DEF Linked
<1>2. CASE op.label # NoLabel
    <2> DEFINE n == Len(op.codes)
               two == Halved(Label[op.label])
               c == [op.codes[n] EXCEPT !.imms = two]
               codes == Changed(op.codes, n, c)
    <2>1. IsSequence(op.codes) /\ n \in 1 .. n
        BY EmptySeq, LenProperties DEF OpcodeShape, IsSequence
    <2>2. CodeShape(op.codes[n]) /\ CodeSound(op.codes[n]) /\ Len(op.codes[n].imms) = 2
        BY <1>2, <2>1 DEF OpcodeShape, Sound
    <2>3. two \in Seq(Halves16) /\ Len(two) = 2
        <3>1. PICK a \in Nat : a = Label[op.label]
            BY <1>2
        <3>2. (a \div 65536) % 65536 \in Halves16 /\ a % 65536 \in Halves16
            BY <3>1, HalfIsNumber, SMT
        <3>3. \A h, l \in Halves16 : <<h, l>> \in Seq(Halves16) /\ Len(<<h, l>>) = 2
            OBVIOUS
        <3> QED
            BY <3>1, <3>2, <3>3 DEF Halved
    <2>4. Linked(op) = [op EXCEPT !.codes = codes]
        BY <1>2 DEF Linked, Changed
    <2> HIDE DEF two
    <2>5. CodeSound(c) /\ Len(c.imms) = 2
        BY <2>2, <2>3 DEF CodeShape, CodeSound
    <2> HIDE DEF c, n
    <2>6. /\ Len(codes) = n /\ codes[n] = c
          /\ \A i \in 1 .. n : i # n => codes[i] = op.codes[i]
        BY <2>1, ChangedSequence DEF n
    <2>7. n \in 1 .. n /\ codes # <<>>
        BY <2>1, <2>6, ChangedSequence, EmptySeq DEF n
    <2> HIDE DEF codes
    <2>8. op = [ip |-> op.ip, codes |-> op.codes, label |-> op.label]
        BY DEF OpcodeShape
    <2>9. Linked(op).codes = codes
        BY <2>4, <2>8
    <2>10. \A i \in 1 .. n : CodeSound(op.codes[i])
        BY DEF Sound, n
    <2>11. \A i \in 1 .. n : CodeSound(codes[i])
        BY <2>5, <2>6, <2>10
    <2> QED
        BY <2>5, <2>6, <2>7, <2>9, <2>11 DEF Sound
<1> QED
    BY <1>1, <1>2

LEMMA CodesEmit ==
    ASSUME Inv, CodesInv, Emit
    PROVE  CodesInv'
<1> DEFINE s == parseWords(Words)
           op == [ip |-> currentIp, codes |-> s.codes, label |-> s.label]
<1>1. UNCHANGED prog
    BY Progress DEF Emit
<1>2. CASE s.codes = <<>>
    BY <1>1, <1>2, CodesQuiet DEF Emit
<1>3. CASE s.codes # <<>>
    <2>1. Opcodes' = Append(Opcodes, op)
        BY <1>3 DEF Emit
    <2>2. SoundResult(s)
        BY StatementSound
    <2> HIDE DEF s
    <2>3. Sound(op.codes, op.label)
        BY <2>2 DEF SoundResult
    <2> HIDE DEF op
    <2>4. /\ Len(Opcodes) \in Nat /\ Len(Opcodes') = Len(Opcodes) + 1
          /\ \A i \in 1 .. Len(Opcodes) : Opcodes'[i] = Opcodes[i]
          /\ Opcodes'[Len(Opcodes) + 1] = op
        BY <2>1, AppendSequence DEF Inv, Shape
    <2>5. \A i \in 1 .. Len(Opcodes) + 1 : i \in 1 .. Len(Opcodes) \/ i = Len(Opcodes) + 1
        BY <2>4
    <2>6. Sounds(Opcodes')
        BY <2>3, <2>4, <2>5 DEF Sounds, CodesInv
    <2> QED
        BY <1>1, <2>6 DEF CodesInv
<1> QED
    BY <1>2, <1>3

LEMMA AddressesAreNat ==
    ASSUME Inv
    PROVE  \A l \in DOMAIN Label : Label[l] \in Nat
<1>1. Len(Opcodes) \in Nat /\ IsSequence(Opcodes)
    BY AppendSequence DEF Inv, Shape
<1>2. \A i \in 1 .. Len(Opcodes) : Opcodes[i].ip \in Nat /\ Len(Opcodes[i].codes) \in Nat
    BY AppendSequence DEF Inv, Shape, OpcodeShape
<1>3. Opcodes # <<>> => Len(Opcodes) \in 1 .. Len(Opcodes)
    BY <1>1, EmptySeq DEF IsSequence
<1>4. \A n \in 1 .. Len(Opcodes) + 1 : AddressOf(Opcodes, n) \in Nat
    BY <1>1, <1>2, <1>3 DEF AddressOf, Last
<1> QED
    BY <1>4 DEF Inv, LabelsAddress

LEMMA CodesLink ==
    ASSUME Inv, Inv', CodesInv, Link
    PROVE  CodesInv'
<1>1. Len(Opcodes) \in Nat /\ DOMAIN Opcodes = 1 .. Len(Opcodes)
    BY LenProperties DEF Inv, Shape, IsSequence
<1>2. DOMAIN Opcodes' = DOMAIN Opcodes
    BY DEF Link
<1>3. Len(Opcodes') = Len(Opcodes)
    <2>1. Len(Opcodes') \in Nat /\ DOMAIN Opcodes' = 1 .. Len(Opcodes')
        BY LenProperties DEF Inv, Shape, IsSequence
    <2> QED
        BY <1>1, <1>2, <2>1
<1>4. ASSUME NEW i \in 1 .. Len(Opcodes)
      PROVE  Sound(Opcodes'[i].codes, Opcodes'[i].label)
    <2>1. OpcodeShape(Opcodes[i]) /\ Sound(Opcodes[i].codes, Opcodes[i].label)
        BY DEF Inv, Shape, CodesInv, Sounds
    <2>2. \/ Opcodes'[i] = Opcodes[i]
          \/ Opcodes'[i] = Linked(Opcodes[i]) /\ \A j \in Missing : i < j
        BY <1>1 DEF Link
    <2>3. CASE Opcodes'[i] = Opcodes[i]
        BY <2>1, <2>3
    <2>4. CASE Opcodes'[i] = Linked(Opcodes[i]) /\ \A j \in Missing : i < j
        <3>1. i \notin Missing
            BY <2>4
        <3>2. Opcodes[i].label # NoLabel => Label[Opcodes[i].label] \in Nat
            BY <1>1, <3>1, AddressesAreNat DEF Missing
        <3>3. Linked(Opcodes[i]).label = Opcodes[i].label
            BY <2>1, LinkedShape
        <3> QED
            BY <2>1, <2>4, <3>2, <3>3, LinkedSound
    <2> QED
        BY <2>2, <2>3, <2>4
<1>5. Sounds(Opcodes')
    BY <1>3, <1>4 DEF Sounds
<1>6. ProgramShape(Opcodes')
    BY <1>5 DEF ProgramShape, Inv, Shape, AddressesContinue, Continue
<1>7. UNCHANGED prog \/ prog'.opcodes = Opcodes'
    BY DEF Link
<1> QED
    BY <1>5, <1>6, <1>7 DEF CodesInv

LEMMA CodesNext == Inv /\ Inv' /\ CodesInv /\ [Next]_vars => CodesInv'
<1> SUFFICES ASSUME Inv, Inv', CodesInv, [Next]_vars PROVE CodesInv'
    OBVIOUS
<1>1. CASE Emit
    BY <1>1, CodesEmit
<1>2. CASE Step /\ ~Emit
    <2>1. UNCHANGED Opcodes
        BY <1>2 DEF Step, Include, MacroBegin, MacroEnd, Collect, EndFile, EndMacro, NotEvaluable,
               Equ, LabelTwice, LabelOnly, CallMacro, code
    <2>2. Proceed \/ \E e, equates : Fail(e, equates)
        BY <1>2 DEF Step, Include, MacroBegin, MacroEnd, Collect, EndFile, EndMacro, NotEvaluable,
               Equ, LabelTwice, LabelOnly, CallMacro
    <2> QED
        BY <2>1, <2>2, Progress, CodesQuiet
<1>3. CASE Clear
    <2>1. Opcodes' = <<>> /\ UNCHANGED prog
        BY <1>3 DEF Clear
    <2> QED
        BY <2>1 DEF CodesInv, Sounds
<1>4. CASE Link
    BY <1>4, CodesLink
<1>5. CASE \/ \E path \in DOMAIN source : Parse(path)
           \/ \E d \in Predefines : Predefine(d[1], d[2])
           \/ UNCHANGED vars
    <2>1. UNCHANGED <<Opcodes, prog>>
        BY <1>5 DEF Parse, Predefine, vars, code
    <2> QED
        BY <2>1, CodesQuiet
<1> QED
    BY <1>1, <1>2, <1>3, <1>4, <1>5 DEF Next

LEMMA CodesInvariance == Spec => []CodesInv
<1>1. Init => CodesInv
    BY DEF Init, CodesInv, Sounds
<1> QED
    BY <1>1, CodesNext, Invariance, PTL DEF Spec

-----------------------------------------------------------------------------
(* Sequences joined to one.  What is said of every number of parts is      *)
(* shown by the least number of which it does not hold (LeastNat).         *)

Joins(f, seqs, n) ==
    f = [i \in 1 .. n |-> IF i = 1 THEN seqs[i] ELSE f[i - 1] \o seqs[i]]

LEMMA JoinsExist ==
    ASSUME NEW seqs, NEW n \in Nat
    PROVE  \E f : Joins(f, seqs, n)
<1> DEFINE T == {m \in Nat : ~\E f : Joins(f, seqs, m)}
<1>1. ASSUME T # {}
      PROVE  FALSE
    <2>1. PICK m \in T : \A k \in T : m =< k
        BY <1>1, LeastNat
    <2>2. m \in Nat /\ ~\E f : Joins(f, seqs, m)
        BY <2>1
    <2>3. CASE m = 0
        <3> DEFINE g == [i \in 1 .. m |-> seqs[i]]
        <3>1. Joins(g, seqs, m)
            BY <2>3 DEF Joins
        <3> QED
            BY <2>2, <3>1
    <2>4. CASE m # 0
        <3>1. m - 1 \in Nat /\ m - 1 \notin T
            BY <2>1, <2>2, <2>4
        <3>2. PICK g : Joins(g, seqs, m - 1)
            BY <3>1
        <3> DEFINE f == [i \in 1 .. m |-> IF i =< m - 1 THEN g[i]
                                          ELSE IF i = 1 THEN seqs[i] ELSE g[i - 1] \o seqs[i]]
        <3>3. ASSUME NEW i \in 1 .. m
              PROVE  f[i] = IF i = 1 THEN seqs[i] ELSE f[i - 1] \o seqs[i]
            <4>1. CASE i =< m - 1
                <5>1. i \in 1 .. m - 1 /\ f[i] = g[i]
                    BY <2>2, <4>1
                <5>2. g[i] = IF i = 1 THEN seqs[i] ELSE g[i - 1] \o seqs[i]
                    BY <3>2, <5>1 DEF Joins
                <5>3. i # 1 => f[i - 1] = g[i - 1]
                    BY <2>2, <5>1
                <5> HIDE DEF f
                <5> QED
                    BY <5>1, <5>2, <5>3
            <4>2. CASE ~(i =< m - 1)
                <5>1. f[i] = IF i = 1 THEN seqs[i] ELSE g[i - 1] \o seqs[i]
                    BY <4>2
                <5>2. i # 1 => f[i - 1] = g[i - 1]
                    BY <2>2, <4>2
                <5> HIDE DEF f
                <5> QED
                    BY <5>1, <5>2
            <4> QED
                BY <4>1, <4>2
        <3>4. f = [i \in 1 .. m |-> f[i]]
            OBVIOUS
        <3> HIDE DEF f
        <3>5. Joins(f, seqs, m)
            BY <3>3, <3>4 DEF Joins
        <3> QED
            BY <2>2, <3>5
    <2> QED
        BY <2>3, <2>4
<1> QED
    BY <1>1

(* Each part lies somewhere in the whole, and whatever else there is in    *)
(* the whole comes from another part.                                      *)
Lies(whole, parts, i, from, n) ==
    /\ from \in Nat /\ from + Len(parts[i]) =< Len(whole)
    /\ \A k \in 1 .. Len(parts[i]) : whole[from + k] = parts[i][k]
    /\ \A k \in 1 .. Len(whole) :
           \/ k \in from + 1 .. from + Len(parts[i])
           \/ \E j \in 1 .. n : j # i /\ \E l \in 1 .. Len(parts[j]) : whole[k] = parts[j][l]

JoinOf(whole, parts, S, n) ==
    /\ whole \in Seq(S)
    /\ \A i \in 1 .. n : \E from : Lies(whole, parts, i, from, n)
    /\ \A k \in 1 .. Len(whole) : \E j \in 1 .. n : \E l \in 1 .. Len(parts[j]) : whole[k] = parts[j][l]

LEMMA FirstPart ==
    ASSUME NEW S, NEW parts, parts[1] \in Seq(S)
    PROVE  JoinOf(parts[1], parts, S, 1)
<1>1. Len(parts[1]) \in Nat
    BY LenProperties
<1>2. Lies(parts[1], parts, 1, 0, 1)
    BY <1>1 DEF Lies
<1>3. \A i \in 1 .. 1 : i = 1
    OBVIOUS
<1> QED
    BY <1>2, <1>3 DEF JoinOf

LEMMA NextPart ==
    ASSUME NEW S, NEW parts, NEW n \in Nat, NEW whole, JoinOf(whole, parts, S, n),
           parts[n + 1] \in Seq(S), \A i \in 1 .. n : parts[i] \in Seq(S)
    PROVE  JoinOf(whole \o parts[n + 1], parts, S, n + 1)
<1> DEFINE next == whole \o parts[n + 1]
           a == Len(whole)
           b == Len(parts[n + 1])
<1>1. a \in Nat /\ b \in Nat /\ whole \in Seq(S)
    BY LenProperties DEF JoinOf
<1>2. /\ next \in Seq(S) /\ Len(next) = a + b
      /\ \A k \in 1 .. a : next[k] = whole[k]
      /\ \A k \in a + 1 .. a + b : next[k] = parts[n + 1][k - a]
    BY <1>1, ConcatProperties
<1> HIDE DEF next
<1>3. \A k \in 1 .. b : next[a + k] = parts[n + 1][k]
    <2>1. ASSUME NEW k \in 1 .. b
          PROVE  next[a + k] = parts[n + 1][k]
        <3>1. a + k \in a + 1 .. a + b /\ (a + k) - a = k
            BY <1>1
        <3>2. next[a + k] = parts[n + 1][(a + k) - a]
            BY <1>2, <3>1
        <3> QED
            BY <3>1, <3>2
    <2> QED
        BY <2>1
<1>4. \A k \in 1 .. a + b : k \in 1 .. a \/ (k \in a + 1 .. a + b /\ k - a \in 1 .. b)
    BY <1>1
<1>5. ASSUME NEW k \in 1 .. a
      PROVE  \E j \in 1 .. n : \E l \in 1 .. Len(parts[j]) : next[k] = parts[j][l]
    BY <1>2 DEF JoinOf
<1>6. Lies(next, parts, n + 1, a, n + 1)
    <2>1. \A j \in 1 .. n : j \in 1 .. n + 1 /\ j # n + 1
        OBVIOUS
    <2>2. ASSUME NEW k \in 1 .. a + b
          PROVE  \/ k \in a + 1 .. a + b
                 \/ \E j \in 1 .. n + 1 : j # n + 1 /\ \E l \in 1 .. Len(parts[j]) : next[k] = parts[j][l]
        BY <1>4, <1>5, <2>1
    <2>3. \A k \in 1 .. b : a + k \in a + 1 .. a + b
        BY <1>1
    <2> HIDE DEF a
    <2> QED
        BY <1>1, <1>2, <1>3, <2>2 DEF Lies
<1>7. ASSUME NEW i \in 1 .. n
      PROVE  \E from : Lies(next, parts, i, from, n + 1)
    <2>1. PICK from : Lies(whole, parts, i, from, n)
        BY DEF JoinOf
    <2> DEFINE c == Len(parts[i])
    <2>2. c \in Nat /\ from \in Nat /\ from + c =< a
        BY <2>1, LenProperties DEF Lies
    <2>3. \A k \in 1 .. c : next[from + k] = parts[i][k]
        <3>1. \A k \in 1 .. c : from + k \in 1 .. a
            BY <1>1, <2>2
        <3> QED
            BY <1>2, <2>1, <3>1 DEF Lies
    <2>4. ASSUME NEW k \in 1 .. a + b
          PROVE  \/ k \in from + 1 .. from + c
                 \/ \E j \in 1 .. n + 1 : j # i /\ \E l \in 1 .. Len(parts[j]) : next[k] = parts[j][l]
        <3>1. CASE k \in 1 .. a
            <4>1. \A j \in 1 .. n : j \in 1 .. n + 1
                OBVIOUS
            <4> QED
                <5>1. next[k] = whole[k] /\ k \in 1 .. Len(whole)
                    BY <1>2, <3>1
                <5>2. \/ k \in from + 1 .. from + Len(parts[i])
                      \/ \E j \in 1 .. n : j # i /\ \E l \in 1 .. Len(parts[j]) : whole[k] = parts[j][l]
                    BY <2>1, <5>1 DEF Lies
                <5> QED
                    BY <4>1, <5>1, <5>2
        <3>2. CASE k \in a + 1 .. a + b /\ k - a \in 1 .. b
            <4>1. n + 1 \in 1 .. n + 1 /\ n + 1 # i
                OBVIOUS
            <4> QED
                BY <1>2, <3>2, <4>1
        <3> QED
            BY <1>4, <3>1, <3>2
    <2>5. from + c =< a + b
        BY <1>1, <2>2
    <2>6. Lies(next, parts, i, from, n + 1)
        BY <1>2, <2>2, <2>3, <2>4, <2>5 DEF Lies
    <2> QED
        BY <2>6
<1>8. ASSUME NEW k \in 1 .. a + b
      PROVE  \E j \in 1 .. n + 1 : \E l \in 1 .. Len(parts[j]) : next[k] = parts[j][l]
    <2>1. \A j \in 1 .. n : j \in 1 .. n + 1
        OBVIOUS
    <2>2. n + 1 \in 1 .. n + 1
        OBVIOUS
    <2> QED
        BY <1>2, <1>4, <1>5, <2>1, <2>2
<1>9. \A i \in 1 .. n + 1 : i \in 1 .. n \/ i = n + 1
    OBVIOUS
<1> HIDE DEF a, b
<1>10. JoinOf(next, parts, S, n + 1)
    BY <1>2, <1>6, <1>7, <1>8, <1>9 DEF JoinOf
<1> QED
    BY <1>10 DEF next

LEMMA JoinedParts ==
    ASSUME NEW S, NEW parts, IsSequence(parts), \A i \in 1 .. Len(parts) : parts[i] \in Seq(S)
    PROVE  JoinOf(FlattenSeq(parts), parts, S, Len(parts))
<1> DEFINE n == Len(parts)
<1>1. n \in Nat /\ DOMAIN parts = 1 .. n /\ (n = 0 => parts = <<>>)
    BY LenProperties, EmptySeq DEF IsSequence
<1>2. CASE n = 0
    <2>1. FlattenSeq(parts) = <<>>
        BY <1>1, <1>2 DEF FlattenSeq
    <2>2. <<>> \in Seq(S) /\ Len(<<>>) = 0
        OBVIOUS
    <2> QED
        BY <1>2, <2>1, <2>2 DEF JoinOf
<1>3. CASE n # 0
    <2> DEFINE f == CHOOSE g : Joins(g, parts, n)
    <2>1. FlattenSeq(parts) = f[n]
        BY <1>3 DEF FlattenSeq, Joins
    <2>2. Joins(f, parts, n)
        BY <1>1, JoinsExist
    <2> HIDE DEF f
    <2> DEFINE T == {m \in Nat : m \in 1 .. n /\ ~JoinOf(f[m], parts, S, m)}
    <2>3. ASSUME T # {}
          PROVE  FALSE
        <3>1. PICK m \in T : \A k \in T : m =< k
            BY <2>3, LeastNat
        <3>2. m \in 1 .. n /\ ~JoinOf(f[m], parts, S, m)
            BY <3>1
        <3>3. f[m] = IF m = 1 THEN parts[m] ELSE f[m - 1] \o parts[m]
            BY <2>2, <3>2 DEF Joins
        <3>4. CASE m = 1
            BY <3>2, <3>3, <3>4, FirstPart
        <3>5. CASE m # 1
            <4>1. PICK l \in Nat : l = m - 1 /\ l \in 1 .. n /\ m = l + 1
                BY <1>1, <3>2, <3>5
            <4>2. l \notin T
                BY <3>1, <4>1
            <4>3. JoinOf(f[l], parts, S, l)
                BY <4>1, <4>2
            <4>4. parts[l + 1] \in Seq(S) /\ \A i \in 1 .. l : parts[i] \in Seq(S)
                BY <1>1, <3>2, <4>1
            <4>5. JoinOf(f[l] \o parts[l + 1], parts, S, l + 1)
                BY <4>3, <4>4, NextPart
            <4> QED
                BY <3>2, <3>3, <3>5, <4>1, <4>5
        <3> QED
            BY <3>4, <3>5
    <2>4. JoinOf(f[n], parts, S, n)
        BY <1>1, <1>3, <2>3
    <2> QED
        BY <2>1, <2>4
<1> QED
    BY <1>2, <1>3

-----------------------------------------------------------------------------
(* The binary of a program.                                                *)

LEMMA AddressesNumber == Addresses \in Nat
BY DEF Addresses

Cells == [ip : Int, low : Int]

LEMMA CodeCells ==
    ASSUME NEW c, CodeSound(c), NEW ip \in Nat, ip < Addresses
    PROVE  /\ CellsOf(ip, c) \in Seq(Cells) /\ ImmediateNeed(c.word) \in Nat
           /\ Len(CellsOf(ip, c)) = ImmediateNeed(c.word) + 1
           /\ \A n \in 1 .. ImmediateNeed(c.word) + 1 : CellsOf(ip, c)[n].ip = ip
           /\ \A n \in 1 .. ImmediateNeed(c.word) : CellsOf(ip, c)[n].low = c.imms[n]
           /\ CellsOf(ip, c)[ImmediateNeed(c.word) + 1].low = c.word
<1> DEFINE need == ImmediateNeed(c.word)
<1>1. need = Len(c.imms) /\ need \in Nat /\ c.imms \in Seq(Halves16)
    BY LenProperties DEF CodeSound
<1>2. CellsOf(ip, c) = [n \in 1 .. need + 1 |->
                            [ip |-> ip % 65536, low |-> IF n =< need THEN c.imms[n] ELSE c.word]]
    BY <1>1 DEF CellsOf
<1>3. ip % 65536 = ip
    BY DEF Addresses
<1>4. c.word \in Int
    BY DecodeEncoded DEF CodeSound
<1>5. \A n \in 1 .. need : c.imms[n] \in Int
    <2>1. \A n \in 1 .. need : c.imms[n] \in Halves16
        BY <1>1, LenProperties
    <2> QED
        BY <2>1, HalfIsNumber
<1> HIDE DEF need
<1>6. ASSUME NEW n \in 1 .. need + 1
      PROVE  [ip |-> ip % 65536, low |-> IF n =< need THEN c.imms[n] ELSE c.word] \in Cells
    <2>1. n =< need => n \in 1 .. need
        BY <1>1
    <2>2. (IF n =< need THEN c.imms[n] ELSE c.word) \in Int
        BY <1>4, <1>5, <2>1
    <2> QED
        BY <1>3, <2>2 DEF Cells
<1>7. CellsOf(ip, c) \in Seq(Cells) /\ Len(CellsOf(ip, c)) = need + 1
    <2>1. CellsOf(ip, c) \in [1 .. need + 1 -> Cells]
        BY <1>2, <1>6
    <2> QED
        BY <1>1, <2>1, SeqDef, LenProperties
<1>8. \A n \in 1 .. need + 1 : CellsOf(ip, c)[n].ip = ip
    BY <1>2, <1>3
<1>9. \A n \in 1 .. need : CellsOf(ip, c)[n].low = c.imms[n]
    BY <1>1, <1>2
<1>10. CellsOf(ip, c)[need + 1].low = c.word
    BY <1>1, <1>2
<1> QED
    BY <1>1, <1>7, <1>8, <1>9, <1>10 DEF need

(* The cells of a code are next to each other, and no other cell has their *)
(* address.                                                                *)
Block(cells, ip, c, from) ==
    /\ from \in Nat /\ from + Len(CellsOf(ip, c)) =< Len(cells)
    /\ \A n \in 1 .. Len(CellsOf(ip, c)) : cells[from + n] = CellsOf(ip, c)[n]
    /\ \A k \in 1 .. Len(cells) : k \in from + 1 .. from + Len(CellsOf(ip, c)) \/ cells[k].ip # ip

Between(cells, first, after) ==
    \A k \in 1 .. Len(cells) : cells[k].ip \in Int /\ first =< cells[k].ip /\ cells[k].ip < after

LEMMA AllJoined ==
    ASSUME NEW whole, NEW parts, NEW S, NEW n, JoinOf(whole, parts, S, n), NEW k \in 1 .. Len(whole)
    PROVE  \E j \in 1 .. n : \E l \in 1 .. Len(parts[j]) : whole[k] = parts[j][l]
BY DEF JoinOf

LEMMA ElseWhere ==
    ASSUME NEW whole, NEW parts, NEW i, NEW from, NEW n, Lies(whole, parts, i, from, n),
           NEW k \in 1 .. Len(whole), k \notin from + 1 .. from + Len(parts[i])
    PROVE  \E j \in 1 .. n : j # i /\ \E l \in 1 .. Len(parts[j]) : whole[k] = parts[j][l]
BY DEF Lies

LEMMA OpcodeCells ==
    ASSUME NEW op, OpcodeShape(op), Sound(op.codes, op.label), op.ip + Len(op.codes) =< Addresses
    PROVE  /\ CellsOfOpcode(op) \in Seq(Cells)
           /\ Between(CellsOfOpcode(op), op.ip, op.ip + Len(op.codes))
           /\ \A c \in 1 .. Len(op.codes) :
                  \E from : Block(CellsOfOpcode(op), op.ip + c - 1, op.codes[c], from)
<1>1. PICK n : n = Len(op.codes)
    OBVIOUS
<1>2. n \in Nat /\ DOMAIN op.codes = 1 .. n /\ op.ip \in Nat
    BY <1>1, LenProperties DEF OpcodeShape, IsSequence
<1>3. PICK parts : parts = [c \in 1 .. n |-> CellsOf(op.ip + c - 1, op.codes[c])]
    OBVIOUS
<1>4. PICK whole : whole = CellsOfOpcode(op) /\ whole = FlattenSeq(parts)
    BY <1>2, <1>3 DEF CellsOfOpcode
<1>5. \A c \in 1 .. n : op.ip + c - 1 \in Nat /\ op.ip + c - 1 < Addresses
    BY <1>1, <1>2, AddressesNumber
<1>6. \A c \in 1 .. n : CodeSound(op.codes[c])
    BY <1>1 DEF Sound
<1>7. \A c \in 1 .. n : parts[c] = CellsOf(op.ip + c - 1, op.codes[c])
    BY <1>3
<1>8. \A c \in 1 .. n : /\ parts[c] \in Seq(Cells)
                        /\ \A l \in 1 .. Len(parts[c]) : parts[c][l].ip = op.ip + c - 1
    BY <1>5, <1>6, <1>7, CodeCells
<1>9. IsSequence(parts) /\ Len(parts) = n
    <2>1. parts \in [1 .. n -> Range(parts)]
        BY <1>3 DEF Range
    <2> QED
        BY <1>2, <2>1, SeqDef, LenProperties DEF IsSequence
<1>10. JoinOf(whole, parts, Cells, n)
    BY <1>4, <1>8, <1>9, JoinedParts
<1>11. whole \in Seq(Cells)
    BY <1>10 DEF JoinOf
<1>12. Between(whole, op.ip, op.ip + n)
    <2>1. ASSUME NEW k \in 1 .. Len(whole)
          PROVE  whole[k].ip \in Int /\ op.ip =< whole[k].ip /\ whole[k].ip < op.ip + n
        <3>1. PICK c \in 1 .. n : \E l \in 1 .. Len(parts[c]) : whole[k] = parts[c][l]
            BY <1>10, AllJoined
        <3>2. whole[k].ip = op.ip + c - 1
            BY <1>8, <3>1
        <3> QED
            BY <1>2, <3>2
    <2> QED
        BY <2>1 DEF Between
<1>13. ASSUME NEW c \in 1 .. n
       PROVE  \E from : Block(whole, op.ip + c - 1, op.codes[c], from)
    <2>1. PICK from : Lies(whole, parts, c, from, n)
        BY <1>10 DEF JoinOf
    <2>2. ASSUME NEW k \in 1 .. Len(whole), k \notin from + 1 .. from + Len(parts[c])
          PROVE  whole[k].ip # op.ip + c - 1
        <3>1. PICK d \in 1 .. n : d # c /\ \E l \in 1 .. Len(parts[d]) : whole[k] = parts[d][l]
            BY <2>1, <2>2, ElseWhere
        <3>2. whole[k].ip = op.ip + d - 1
            BY <1>8, <3>1
        <3> QED
            BY <1>2, <3>1, <3>2
    <2>3. Block(whole, op.ip + c - 1, op.codes[c], from)
        BY <1>7, <2>1, <2>2 DEF Lies, Block
    <2> QED
        BY <2>3
<1> QED
    BY <1>1, <1>4, <1>11, <1>12, <1>13

(* Statements do not overlap.                                              *)
LEMMA AddressesGrow ==
    ASSUME NEW opcodes, ProgramShape(opcodes)
    PROVE  /\ \A i \in 1 .. Len(opcodes) : opcodes[i].ip \in Nat /\ Len(opcodes[i].codes) \in Nat
           /\ \A j \in 1 .. Len(opcodes) : \A i \in 1 .. j - 1 :
                  opcodes[i].ip + Len(opcodes[i].codes) =< opcodes[j].ip
<1> DEFINE n == Len(opcodes)
           End(i) == opcodes[i].ip + Len(opcodes[i].codes)
<1>1. n \in Nat /\ DOMAIN opcodes = 1 .. n
    BY LenProperties DEF ProgramShape, IsSequence
<1>2. \A i \in 1 .. n : opcodes[i].ip \in Nat /\ Len(opcodes[i].codes) \in Nat
    BY AppendSequence DEF ProgramShape, OpcodeShape
<1>3. \A j \in 1 .. n : j # 1 => opcodes[j].ip = End(j - 1)
    BY <1>1 DEF ProgramShape, Continue
<1>4. \A i \in 1 .. n : End(i) \in Nat /\ opcodes[i].ip =< End(i)
    BY <1>2
<1> HIDE DEF End
<1> DEFINE T == {j \in Nat : j \in 1 .. n /\ \E i \in 1 .. j - 1 : ~(End(i) =< opcodes[j].ip)}
<1>5. ASSUME T # {}
      PROVE  FALSE
    <2>1. PICK j \in T : \A k \in T : j =< k
        BY <1>5, LeastNat
    <2>2. PICK i \in 1 .. j - 1 : ~(End(i) =< opcodes[j].ip)
        BY <2>1
    <2>3. j \in 1 .. n /\ j # 1
        BY <2>1, <2>2
    <2>4. opcodes[j].ip = End(j - 1)
        BY <1>3, <2>3
    <2>5. PICK l \in Nat : l = j - 1 /\ l \in 1 .. n /\ l < j
        BY <1>1, <2>2, <2>3
    <2>6. i # l
        BY <1>4, <2>2, <2>4, <2>5
    <2>7. i \in 1 .. l - 1
        BY <2>2, <2>3, <2>5, <2>6
    <2>8. l \in T
        <3>1. End(i) \in Nat /\ opcodes[l].ip \in Nat /\ opcodes[l].ip =< End(l) /\ End(l) \in Nat
            BY <1>1, <1>2, <1>4, <2>5, <2>7
        <3>2. ~(End(i) =< opcodes[l].ip)
            BY <2>2, <2>4, <2>5, <3>1
        <3> QED
            BY <2>5, <2>7, <3>2
    <2> QED
        BY <2>1, <2>5, <2>8
<1> QED
    BY <1>2, <1>5 DEF End

LEMMA ProgramEnds ==
    ASSUME NEW ops, ProgramShape(ops), AddressOf(ops, Len(ops) + 1) =< Addresses
    PROVE  \A j \in 1 .. Len(ops) : /\ ops[j].ip \in Nat /\ Len(ops[j].codes) \in Nat
                                   /\ ops[j].ip + Len(ops[j].codes) =< Addresses
<1> DEFINE End(j) == ops[j].ip + Len(ops[j].codes)
<1>1. PICK n : n = Len(ops)
    OBVIOUS
<1>2. CASE n = 0
    BY <1>1, <1>2
<1>3. CASE n # 0
    <2>1. n \in Nat /\ n \in 1 .. n /\ ops # <<>>
        BY <1>1, <1>3, LenProperties, EmptySeq DEF ProgramShape, IsSequence
    <2>2. /\ \A j \in 1 .. n : ops[j].ip \in Nat /\ Len(ops[j].codes) \in Nat
          /\ \A j \in 1 .. n : \A k \in 1 .. j - 1 : End(k) =< ops[j].ip
        BY <1>1, AddressesGrow
    <2>3. End(n) =< Addresses
        BY <1>1, <2>1 DEF AddressOf, Last
    <2>4. ASSUME NEW j \in 1 .. n, j # n
          PROVE  End(j) =< Addresses
        <3>1. j \in 1 .. n - 1
            BY <2>1, <2>4
        <3>2. End(j) =< ops[n].ip
            BY <2>1, <2>2, <3>1
        <3>3. ops[n].ip =< End(n) /\ ops[n].ip \in Nat /\ End(n) \in Nat /\ End(j) \in Nat
            BY <2>1, <2>2
        <3> HIDE DEF End
        <3> QED
            BY <2>3, <3>2, <3>3, AddressesNumber
    <2> QED
        BY <1>1, <2>2, <2>3, <2>4
<1> QED
    BY <1>1, <1>2, <1>3

LEMMA ProgramCells ==
    ASSUME NEW p, NEW ops, p.opcodes = ops,
           ProgramShape(ops), AddressOf(ops, Len(ops) + 1) =< Addresses,
           NEW i \in 1 .. Len(ops), NEW c \in 1 .. Len(ops[i].codes)
    PROVE  /\ \E from : Block(Binary(p), ops[i].ip + c - 1, ops[i].codes[c], from)
           /\ Binary(p) \in Seq(Cells)
<1> DEFINE End(at) == ops[at].ip + Len(ops[at].codes)
<1>1. PICK n, ip, code1 : n = Len(ops) /\ ip = ops[i].ip + c - 1 /\ code1 = ops[i].codes[c]
    OBVIOUS
<1>2. n \in Nat /\ DOMAIN ops = 1 .. n /\ i \in 1 .. n
    BY <1>1, LenProperties DEF ProgramShape, IsSequence
<1>3. PICK parts : parts = [j \in 1 .. n |-> CellsOfOpcode(ops[j])]
    OBVIOUS
<1>4. /\ \A j \in 1 .. n : ops[j].ip \in Nat /\ Len(ops[j].codes) \in Nat
      /\ \A j \in 1 .. n : \A k \in 1 .. j - 1 : End(k) =< ops[j].ip
    BY <1>1, AddressesGrow
<1>5. \A j \in 1 .. n : End(j) =< Addresses
    BY <1>1, ProgramEnds
<1>6. \A j \in 1 .. n : OpcodeShape(ops[j]) /\ Sound(ops[j].codes, ops[j].label)
    BY <1>1 DEF ProgramShape, Sounds
<1>7. \A j \in 1 .. n : parts[j] = CellsOfOpcode(ops[j])
    BY <1>3
<1>8. \A j \in 1 .. n : parts[j] \in Seq(Cells) /\ Between(parts[j], ops[j].ip, End(j))
    <2>1. ASSUME NEW j \in 1 .. n
          PROVE  parts[j] \in Seq(Cells) /\ Between(parts[j], ops[j].ip, End(j))
        <3>1. PICK op : op = ops[j]
            OBVIOUS
        <3>2. OpcodeShape(op) /\ Sound(op.codes, op.label) /\ op.ip + Len(op.codes) =< Addresses
            BY <1>5, <1>6, <3>1
        <3>3. /\ CellsOfOpcode(op) \in Seq(Cells)
              /\ Between(CellsOfOpcode(op), op.ip, op.ip + Len(op.codes))
            BY <3>2, OpcodeCells
        <3> QED
            BY <1>7, <3>1, <3>3
    <2> QED
        BY <2>1
<1>9. PICK whole : whole = Binary(p) /\ whole = FlattenSeq(parts)
    BY <1>2, <1>3 DEF Binary
<1>10. IsSequence(parts) /\ Len(parts) = n
    <2>1. parts \in [1 .. n -> Range(parts)]
        BY <1>3 DEF Range
    <2> QED
        BY <1>2, <2>1, SeqDef, LenProperties DEF IsSequence
<1>11. PICK inner : Block(parts[i], ip, code1, inner)
    <2>1. PICK op : op = ops[i]
        OBVIOUS
    <2>2. OpcodeShape(op) /\ Sound(op.codes, op.label) /\ op.ip + Len(op.codes) =< Addresses
        BY <1>2, <1>5, <1>6, <2>1
    <2>3. c \in 1 .. Len(op.codes)
        BY <2>1
    <2>4. \A d \in 1 .. Len(op.codes) : \E inner : Block(CellsOfOpcode(op), op.ip + d - 1, op.codes[d], inner)
        BY <2>2, OpcodeCells
    <2>5. CellsOfOpcode(op) = parts[i] /\ op.ip + c - 1 = ip /\ op.codes[c] = code1
        BY <1>1, <1>2, <1>7, <2>1
    <2> QED
        BY <2>3, <2>4, <2>5
<1>12. ip \in Int /\ ops[i].ip =< ip /\ ip < End(i)
    BY <1>1, <1>2, <1>4
<1>13. JoinOf(whole, parts, Cells, n)
    BY <1>8, <1>9, <1>10, JoinedParts
<1>14. PICK outer : Lies(whole, parts, i, outer, n)
    BY <1>2, <1>13 DEF JoinOf
<1>15. \A k \in 1 .. Len(whole) : k \notin outer + 1 .. outer + Len(parts[i]) =>
           \E j \in 1 .. n : j # i /\ \E l \in 1 .. Len(parts[j]) : whole[k] = parts[j][l]
    BY <1>14, Zenon DEF Lies
<1>16. PICK size : size = Len(CellsOf(ip, code1))
    OBVIOUS
<1>17. outer \in Nat /\ inner \in Nat
    BY <1>11, <1>14 DEF Block, Lies
<1>18. PICK from \in Nat : from = outer + inner
    BY <1>17
<1>19. /\ size \in Nat /\ inner + size =< Len(parts[i]) /\ outer + Len(parts[i]) =< Len(whole)
       /\ Len(parts[i]) \in Nat /\ Len(whole) \in Nat
    <2>1. size \in Nat
        <3>1. code1 = ops[i].codes[c] /\ CodeSound(code1) /\ ip \in Nat /\ ip < Addresses
            <4>1. CodeSound(code1)
                BY <1>1, <1>2, <1>6 DEF Sound
            <4>2. ops[i].ip \in Nat /\ Len(ops[i].codes) \in Nat /\ End(i) =< Addresses
                BY <1>2, <1>4, <1>5
            <4> QED
                BY <1>1, <1>12, <4>1, <4>2, AddressesNumber
        <3> QED
            BY <1>16, <3>1, CodeCells, LenProperties
    <2>2. Len(parts[i]) \in Nat /\ Len(whole) \in Nat
        BY <1>2, <1>8, <1>13, LenProperties DEF JoinOf
    <2> QED
        BY <1>11, <1>14, <1>16, <2>1, <2>2 DEF Block, Lies
<1>20. \A m \in 1 .. size : whole[from + m] = CellsOf(ip, code1)[m]
    <2>1. ASSUME NEW m \in 1 .. size
          PROVE  whole[from + m] = CellsOf(ip, code1)[m]
        <3>1. inner + m \in 1 .. Len(parts[i]) /\ from + m = outer + (inner + m)
            BY <1>18, <1>17, <1>19
        <3>2. whole[outer + (inner + m)] = parts[i][inner + m]
            BY <1>14, <3>1 DEF Lies
        <3>3. parts[i][inner + m] = CellsOf(ip, code1)[m]
            BY <1>11, <1>16 DEF Block
        <3> QED
            BY <3>1, <3>2, <3>3
    <2> QED
        BY <2>1
<1>21. ASSUME NEW k \in 1 .. Len(whole), k \notin from + 1 .. from + size
       PROVE  whole[k].ip # ip
    <2>1. CASE k \in outer + 1 .. outer + Len(parts[i])
        <3>1. PICK l \in 1 .. Len(parts[i]) : k = outer + l
            <4>1. k - outer \in 1 .. Len(parts[i]) /\ k = outer + (k - outer)
                BY <1>18, <1>17, <1>19, <2>1
            <4> QED
                BY <4>1
        <3>2. whole[k] = parts[i][l]
            BY <1>14, <3>1 DEF Lies
        <3>3. l \notin inner + 1 .. inner + size
            BY <1>18, <1>17, <1>19, <1>21, <3>1
        <3> QED
            BY <1>11, <1>16, <3>2, <3>3 DEF Block
    <2>2. CASE k \notin outer + 1 .. outer + Len(parts[i])
        <3>1. PICK j \in 1 .. n : j # i /\ \E l \in 1 .. Len(parts[j]) : whole[k] = parts[j][l]
            BY <1>15, <2>2
        <3>2. whole[k].ip \in Int /\ ops[j].ip =< whole[k].ip /\ whole[k].ip < End(j)
            BY <1>8, <3>1 DEF Between
        <3>3. i \in 1 .. n
            BY <1>2
        <3>4. i \in 1 .. j - 1 \/ j \in 1 .. i - 1
            BY <1>2, <3>1, <3>3
        <3>5. End(i) =< ops[j].ip \/ End(j) =< ops[i].ip
            BY <1>4, <3>1, <3>3, <3>4
        <3>6. ops[i].ip \in Int /\ ops[j].ip \in Int /\ End(i) \in Int /\ End(j) \in Int
            <4>1. /\ ops[i].ip \in Nat /\ Len(ops[i].codes) \in Nat
                  /\ ops[j].ip \in Nat /\ Len(ops[j].codes) \in Nat
                BY <1>4, <3>1, <3>3
            <4>2. \A a, b \in Nat : a \in Int /\ a + b \in Int
                OBVIOUS
            <4> QED
                BY <4>1, <4>2, Zenon
        <3> HIDE DEF End
        <3> QED
            BY <1>12, <3>2, <3>5, <3>6
    <2> QED
        BY <2>1, <2>2
<1>22. from + size =< Len(whole)
    BY <1>18, <1>17, <1>19
<1>23. Block(whole, ip, code1, from)
    BY <1>18, <1>20, <1>21, <1>22, <1>16 DEF Block
<1>24. whole \in Seq(Cells)
    BY <1>13 DEF JoinOf
<1> QED
    BY <1>1, <1>9, <1>23, <1>24

LEMMA BlockFetches ==
    ASSUME NEW cells \in Seq(Cells), NEW ip \in Nat, ip < Addresses, NEW c, CodeSound(c), NEW from,
           Block(cells, ip, c, from)
    PROVE  FetchesFrom(cells, ip, c)
<1> DEFINE need == ImmediateNeed(c.word)
           last == from + need + 1
           found == {k \in DOMAIN cells : cells[k].ip = ip}
<1>1. /\ need \in Nat /\ Len(CellsOf(ip, c)) = need + 1
      /\ \A n \in 1 .. need + 1 : CellsOf(ip, c)[n].ip = ip
      /\ \A n \in 1 .. need : CellsOf(ip, c)[n].low = c.imms[n]
      /\ CellsOf(ip, c)[need + 1].low = c.word
    BY CodeCells
<1>2. need = Len(c.imms) /\ c.imms \in Seq(Halves16) /\ Decode(c.word) = c.instr
    BY DecodeEncoded DEF CodeSound
<1> HIDE DEF need
<1>3. /\ from \in Nat /\ from + (need + 1) =< Len(cells)
      /\ \A n \in 1 .. need + 1 : cells[from + n] = CellsOf(ip, c)[n]
      /\ \A k \in 1 .. Len(cells) : k \in from + 1 .. from + (need + 1) \/ cells[k].ip # ip
    BY <1>1 DEF Block
<1>4. Len(cells) \in Nat /\ DOMAIN cells = 1 .. Len(cells)
    BY LenProperties
<1>5. last \in Nat /\ last - need = from + 1 /\ from + (need + 1) = last
    BY <1>1, <1>3
<1>6. \A k \in from + 1 .. last : k - from \in 1 .. need + 1 /\ k = from + (k - from) /\ k \in 1 .. Len(cells)
    BY <1>1, <1>3, <1>4
<1> HIDE DEF last
<1>7. found = last - need .. last
    <2>1. \A k \in from + 1 .. last : cells[k].ip = ip
        BY <1>1, <1>3, <1>6
    <2>2. \A k \in found : k \in from + 1 .. last
        BY <1>3, <1>4, <1>5
    <2>3. \A k \in from + 1 .. last : k \in found
        BY <1>4, <1>6, <2>1
    <2>4. \A R : (\A k : k \in found <=> k \in R) => found = R
        OBVIOUS
    <2>5. \A k : k \in found <=> k \in from + 1 .. last
        BY <2>2, <2>3, Zenon
    <2> HIDE DEF found
    <2> QED
        BY <1>5, <2>4, <2>5
<1>8. last \in found
    BY <1>1, <1>5, <1>7
<1>9. cells[last].low = c.word
    <2>1. need + 1 \in 1 .. need + 1
        BY <1>1
    <2>2. cells[from + (need + 1)] = CellsOf(ip, c)[need + 1]
        BY <1>3, <2>1
    <2> QED
        BY <1>1, <1>5, <2>2
<1>10. [n \in 1 .. need |-> cells[last - need + n - 1].low] = c.imms
    <2>1. ASSUME NEW n \in 1 .. need
          PROVE  cells[last - need + n - 1].low = c.imms[n]
        <3>1. last - need + n - 1 = from + n /\ n \in 1 .. need + 1
            BY <1>1, <1>3, <1>5
        <3>2. cells[from + n] = CellsOf(ip, c)[n]
            BY <1>3, <3>1
        <3> QED
            BY <1>1, <3>1, <3>2
    <2>2. c.imms = [n \in 1 .. need |-> c.imms[n]]
        BY <1>2, LenProperties
    <2> QED
        BY <2>1, <2>2
<1> HIDE DEF found
<1>11. need = ImmediateNeed(cells[last].low) /\ Decode(cells[last].low) = c.instr
    BY <1>2, <1>9 DEF need
<1>12. \E l \in found :
           /\ found = l - ImmediateNeed(cells[l].low) .. l
           /\ Decode(cells[l].low) = c.instr
           /\ [n \in 1 .. ImmediateNeed(cells[l].low) |->
                  cells[l - ImmediateNeed(cells[l].low) + n - 1].low] = c.imms
    BY <1>7, <1>8, <1>10, <1>11, Zenon
<1> QED
    BY <1>12, Zenon DEF FetchesFrom, found

(* Whatever the text is, a program that FetchCode can address comes back   *)
(* from the cells of Program.Binary (src/cpu/program.go:36-47) as it was   *)
(* assembled: at every address there is one instruction, its immediates    *)
(* are as many and in the order that its word calls for, and its fields    *)
(* are those of the statement (src/cpu/cpu.go:339-411).                    *)
THEOREM AssembledIsFetched == Spec => []ProgramFetches
<1>1. CodesInv => ProgramFetches
    <2> SUFFICES ASSUME CodesInv, prog # NoProgram,
                        AddressOf(prog.opcodes, Len(prog.opcodes) + 1) =< Addresses,
                        NEW i \in DOMAIN prog.opcodes, NEW c \in DOMAIN prog.opcodes[i].codes
                 PROVE  FetchesFrom(Binary(prog), prog.opcodes[i].ip + c - 1, prog.opcodes[i].codes[c])
        BY DEF ProgramFetches
    <2>1. PICK ops : ops = prog.opcodes
        OBVIOUS
    <2>2. ProgramShape(ops) /\ AddressOf(ops, Len(ops) + 1) =< Addresses
        BY <2>1 DEF CodesInv
    <2>3. i \in 1 .. Len(ops)
        BY <2>1, <2>2, LenProperties DEF ProgramShape, IsSequence
    <2>4. OpcodeShape(ops[i]) /\ Sound(ops[i].codes, ops[i].label)
        BY <2>2, <2>3 DEF ProgramShape, Sounds
    <2>5. c \in 1 .. Len(ops[i].codes) /\ CodeSound(ops[i].codes[c])
        BY <2>1, <2>4, LenProperties DEF OpcodeShape, IsSequence, Sound
    <2>6. PICK from : /\ Block(Binary(prog), ops[i].ip + c - 1, ops[i].codes[c], from)
                      /\ Binary(prog) \in Seq(Cells)
        BY <2>1, <2>2, <2>3, <2>5, ProgramCells
    <2>7. ops[i].ip + c - 1 \in Nat /\ ops[i].ip + c - 1 < Addresses
        BY <2>2, <2>3, <2>5, ProgramEnds, AddressesNumber
    <2> QED
        BY <2>1, <2>5, <2>6, <2>7, BlockFetches
<1> QED
    BY <1>1, CodesInvariance, PTL

-----------------------------------------------------------------------------
(* The types.                                                              *)

(* The flags, and the number of calls.                                     *)
FlagsOK == ready \in BOOLEAN /\ failed \in BOOLEAN /\ reused \in BOOLEAN /\ parses \in 0 .. MaxParses

LEMMA FlagsNext == FlagsOK /\ [Next]_vars => FlagsOK'
<1> SUFFICES ASSUME FlagsOK, [Next]_vars PROVE FlagsOK'
    OBVIOUS
<1>1. CASE Step
    <2>1. Proceed \/ \E e, equates : Fail(e, equates)
        BY <1>1 DEF Step, Include, MacroBegin, MacroEnd, Collect, EndFile, EndMacro, NotEvaluable,
               Equ, LabelTwice, LabelOnly, CallMacro, Emit
    <2>2. UNCHANGED reused \/ reused' = TRUE
        BY <1>1 DEF Step, Include, MacroBegin, MacroEnd, Collect, EndFile, EndMacro, NotEvaluable,
               Equ, LabelTwice, LabelOnly, CallMacro, Emit, AppendData, data
    <2> QED
        BY <2>1, <2>2 DEF Proceed, Fail, FlagsOK
<1>2. CASE Clear
    <2>1. ready' = TRUE /\ failed' = FALSE /\ reused' = reused /\ parses' = 0
        BY <1>2 DEF Clear
    <2>2. 0 \in 0 .. MaxParses
        BY MaxParsesAssumption
    <2> QED
        BY <2>1, <2>2 DEF FlagsOK
<1>3. CASE Link
    BY <1>3 DEF Link, FlagsOK
<1>4. CASE \E path \in DOMAIN source : Parse(path)
    BY <1>4, MaxParsesAssumption DEF Parse, FlagsOK, data
<1>5. CASE \E d \in Predefines : Predefine(d[1], d[2])
    BY <1>5 DEF Predefine, FlagsOK, data
<1>6. CASE UNCHANGED vars
    BY <1>6 DEF vars, FlagsOK, data
<1> QED
    BY <1>1, <1>2, <1>3, <1>4, <1>5, <1>6 DEF Next

LEMMA SoundCodes ==
    ASSUME NEW c, CodeSound(c)
    PROVE  CodeOK(c)
<1>1. c.instr \in Instructions /\ c.word = MakeCode(c.instr) /\ c.imms \in Seq(Halves16)
    BY DEF CodeSound
<1>2. c.word \in Halves16
    BY <1>1, DecodeEncoded, HalfIsNumber
<1>3. Len(c.imms) =< 4
    <2>1. \A ir : Halves(ir) \in 0 .. 2
        BY DEF Halves
    <2>2. ImmediateNeed(c.word) =< 4
        BY <2>1 DEF ImmediateNeed
    <2> QED
        BY <2>2 DEF CodeSound
<1> QED
    BY <1>1, <1>2, <1>3 DEF CodeOK

(* The state keeps its types, and Link never comes to its errors about     *)
(* codes and immediates that are missing (src/cpu/assembler.go:539-552):   *)
(* a statement that waits for a label ends in a code with two immediates.  *)
THEOREM AssemblerTypeOK == Spec => []TypeOK
<1>1. Init => FlagsOK /\ DataInv /\ HygieneInv
    <2>1. ASSUME Init PROVE FlagsOK
        <3>1. ready = FALSE /\ failed = FALSE /\ reused = FALSE /\ parses = 0
            BY <2>1 DEF Init
        <3>2. 0 \in 0 .. MaxParses
            BY MaxParsesAssumption
        <3> QED
            BY <3>1, <3>2 DEF FlagsOK
    <2>2. Init => HygieneInv
        BY DEF Init, HygieneInv, StackOK, IsSequence, Same
    <2> QED
        BY <2>1, <2>2, DataInit
<1>2. Inv /\ CodesInv /\ FlagsOK /\ DataInv /\ HygieneInv => TypeOK
    <2> SUFFICES ASSUME Inv, CodesInv, FlagsOK, DataInv, HygieneInv PROVE TypeOK
        OBVIOUS
    <2>1. ASSUME NEW i \in DOMAIN Opcodes
          PROVE  OpcodeOK(Opcodes[i])
        <3>1. PICK op : op = Opcodes[i]
            OBVIOUS
        <3>2. i \in 1 .. Len(Opcodes)
            BY LenProperties DEF Inv, Shape, IsSequence
        <3>3. OpcodeShape(op) /\ Sound(op.codes, op.label)
            BY <3>1, <3>2 DEF Inv, Shape, CodesInv, Sounds
        <3>4. \A c \in DOMAIN op.codes : CodeOK(op.codes[c])
            <4>1. DOMAIN op.codes = 1 .. Len(op.codes)
                BY <3>3, LenProperties DEF OpcodeShape, IsSequence
            <4> QED
                BY <3>3, <4>1, SoundCodes DEF Sound
        <3>5. op.label # NoLabel => Len(Last(op.codes).imms) = 2
            BY <3>3 DEF Sound, Last
        <3> QED
            BY <3>1, <3>3, <3>4, <3>5 DEF OpcodeOK, OpcodeShape
    <2>2. ASSUME NEW i \in DOMAIN frames, frames[i].in = "macro"
          PROVE  frames[i].name \in DOMAIN Macro
        <3>1. i \in 1 .. Len(frames)
            BY LenProperties DEF HygieneInv, StackOK, IsSequence
        <3>2. FrameOK(frames[i], DOMAIN Macro)
            BY <3>1 DEF HygieneInv, StackOK
        <3> QED
            BY <2>2, <3>2 DEF FrameOK
    <2> QED
        BY <2>1, <2>2 DEF TypeOK, FlagsOK, DataInv, Inv, LabelsAddress
<1> QED
    BY <1>1, <1>2, FlagsNext, DataNext, HygieneNext, Invariance, CodesInvariance, PTL DEF Spec
=============================================================================
