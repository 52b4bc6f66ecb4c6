----------------------------- MODULE CpuProofs ------------------------------
(***************************************************************************)
(* Proofs about module Cpu, for words of any width, any number of cells,   *)
(* any instruction set and any programs.                                   *)
(***************************************************************************)
EXTENDS Cpu, FiniteSetTheorems, SequenceTheorems, WellFoundedInduction, TLAPS

-----------------------------------------------------------------------------
(* The stack.                                                              *)

IsSequence(s) == s \in Seq(Range(s))

(* What getValue works on is a record, its stack a sequence.               *)
Working(m) == /\ m = [ok |-> m.ok, stack |-> m.stack, imms |-> m.imms, val |-> m.val]
              /\ IsSequence(m.stack)

(* A sequence of anything is one of its own elements.                      *)
LEMMA SequenceOf == ASSUME NEW S, NEW s \in Seq(S) PROVE IsSequence(s)
<1>1. \A i \in 1 .. Len(s) : s[i] \in Range(s)
    BY DEF Range
<1> QED
    BY <1>1, SeqDef, LenProperties DEF IsSequence

(* The stack that Reset leaves.                                            *)
LEMMA EmptyIs == IsSequence(<<>>) /\ Len(<<>>) = 0
<1>1. <<>> \in Seq({}) /\ Len(<<>>) = 0
    OBVIOUS
<1> QED
    BY <1>1, SequenceOf

(* What Push does to a stack.                                              *)
LEMMA PushIs ==
    ASSUME NEW s, IsSequence(s), NEW e
    PROVE  IsSequence(Push(s, e)) /\ Len(s) \in Nat /\ Len(Push(s, e)) = Len(s) + 1
<1>1. PICK S : S = Range(s) \cup {e}
    OBVIOUS
<1>2. s \in Seq(S) /\ e \in S
    BY <1>1, SeqDef, LenProperties DEF IsSequence
<1>3. Append(s, e) \in Seq(S) /\ Len(s) \in Nat /\ Len(Append(s, e)) = Len(s) + 1
    BY <1>2, AppendProperties
<1> QED
    BY <1>3, SequenceOf DEF Push

(* Pop, of a stack that is not empty.                                      *)
LEMMA PopIs ==
    ASSUME NEW s, IsSequence(s), Len(s) # 0
    PROVE  IsSequence(Pop(s)) /\ Len(s) \in Nat /\ Len(Pop(s)) = Len(s) - 1
<1>1. PICK S : s \in Seq(S)
    BY DEF IsSequence
<1>2. PICK n \in Nat : n = Len(s)
    BY <1>1, LenProperties
<1>3. n - 1 =< n /\ 1 =< 1 /\ n - 1 \in Nat
    BY <1>2
<1>4. Pop(s) \in Seq(S) /\ Len(Pop(s)) = n - 1
    BY <1>1, <1>2, <1>3, SubSeqProperties DEF Pop
<1> QED
    BY <1>2, <1>4, SequenceOf

(* An operation in place.                                                  *)
LEMMA ChangeIs ==
    ASSUME NEW s, IsSequence(s), NEW n, NEW e
    PROVE  IsSequence([s EXCEPT ![n] = e]) /\ Len([s EXCEPT ![n] = e]) = Len(s)
<1>1. PICK S : S = Range(s) \cup {e}
    OBVIOUS
<1>2. s \in Seq(S) /\ e \in S
    BY <1>1, SeqDef, LenProperties DEF IsSequence
<1>3. s \in [1 .. Len(s) -> S] /\ Len(s) \in Nat
    BY <1>2, SeqDef, LenProperties
<1>4. [s EXCEPT ![n] = e] \in [1 .. Len(s) -> S]
    BY <1>2, <1>3
<1>5. [s EXCEPT ![n] = e] \in Seq(S) /\ Len([s EXCEPT ![n] = e]) = Len(s)
    BY <1>3, <1>4, SeqDef, LenProperties
<1> QED
    BY <1>5, SequenceOf

(* getValue pushes nothing.                                                *)
LEMMA ValuePops ==
    ASSUME NEW src, NEW m, Working(m)
    PROVE  /\ Working(getValue(src, m))
           /\ Len(m.stack) \in Nat /\ Len(getValue(src, m).stack) \in Nat
           /\ Len(getValue(src, m).stack) =< Len(m.stack)
<1>1. IsSequence(m.stack) /\ Len(m.stack) \in Nat
    BY PushIs DEF Working
<1>2. PICK got : got = getValue(src, m)
    OBVIOUS
<1>3. \/ got = [m EXCEPT !.ok = FALSE]
      \/ \E ok, imms, val : got = [ok |-> ok, stack |-> m.stack, imms |-> imms, val |-> val]
      \/ \E ok, imms, val : /\ Len(m.stack) # 0
                            /\ got = [ok |-> ok, stack |-> Pop(m.stack), imms |-> imms, val |-> val]
    BY <1>2 DEF getValue
<1>4. CASE got = [m EXCEPT !.ok = FALSE]
    <2>1. m = [ok |-> m.ok, stack |-> m.stack, imms |-> m.imms, val |-> m.val]
        BY DEF Working
    <2>2. got = [ok |-> FALSE, stack |-> m.stack, imms |-> m.imms, val |-> m.val]
        BY <1>4, <2>1, Zenon
    <2> QED
        BY <1>1, <1>2, <2>2 DEF Working
<1>5. CASE \E ok, imms, val : got = [ok |-> ok, stack |-> m.stack, imms |-> imms, val |-> val]
    BY <1>1, <1>2, <1>5 DEF Working
<1>6. CASE \E ok, imms, val : /\ Len(m.stack) # 0
                              /\ got = [ok |-> ok, stack |-> Pop(m.stack), imms |-> imms, val |-> val]
    BY <1>1, <1>2, <1>6, PopIs DEF Working
<1> QED
    BY <1>3, <1>4, <1>5, <1>6

(* A step leaves a stack, and none but an await one that has grown beyond  *)
(* the limit.                                                              *)
Below == /\ IsSequence(stack')
         /\ Len(stack') =< Len(stack) \/ Len(stack') =< STACK_LIMIT

(* `set' alone pushes, and looks at the limit first.                       *)
LEMMA AluBelow == ASSUME IsSequence(stack), ExecAlu PROVE Below
<1>1. PICK m : m = getValue(Instr.a, Start)
    OBVIOUS
<1>2. Working(Start) /\ Start.stack = stack
    BY DEF Working, Start
<1>3. /\ IsSequence(m.stack) /\ Len(m.stack) \in Nat /\ Len(stack) \in Nat
      /\ Len(m.stack) =< Len(stack)
    BY <1>1, <1>2, ValuePops DEF Working
<1>4. \/ stack' = m.stack
      \/ \E e : stack' = [m.stack EXCEPT ![Len(m.stack)] = e]
      \/ \E e : stack' = Push(m.stack, e) /\ ~Full(m.stack)
    BY <1>1 DEF ExecAlu
<1>5. CASE stack' = m.stack
    BY <1>3, <1>5 DEF Below
<1>6. ASSUME NEW e, stack' = [m.stack EXCEPT ![Len(m.stack)] = e]
      PROVE  Below
    BY <1>3, <1>6, ChangeIs DEF Below
<1>7. ASSUME NEW e, stack' = Push(m.stack, e), ~Full(m.stack)
      PROVE  Below
    BY <1>3, <1>7, PushIs, StackAssumption DEF Below, Full
<1> QED
    BY <1>4, <1>5, <1>6, <1>7

(* Nor does any other step but an await.                                   *)
LEMMA StackStep == ASSUME IsSequence(stack), [Next]_vars, ~ExecAwait PROVE Below
<1>1. Working(Start) /\ Start.stack = stack
    BY DEF Working, Start
<1>2. Len(stack) \in Nat
    BY PushIs
<1>3. CASE stack' = stack
    BY <1>2, <1>3 DEF Below
<1>4. CASE UNCHANGED vars
    BY <1>3, <1>4 DEF vars
<1>5. CASE FetchCode
    <2>1. CASE FetchStack /\ stack # <<>>
        <3>1. stack' = Pop(stack)
            BY <2>1 DEF FetchStack
        <3>2. Len(stack) # 0
            BY <2>1, EmptySeq DEF IsSequence
        <3> QED
            BY <3>1, <3>2, PopIs DEF Below
    <2>2. CASE ~(FetchStack /\ stack # <<>>)
        BY <1>3, <1>5, <2>2 DEF FetchCode, FetchCapp, FetchStack, FetchReg, FetchNone
    <2> QED
        BY <2>1, <2>2
<1>6. CASE ExecNever \/ ExecSkip
    BY <1>3, <1>6 DEF ExecNever, ExecSkip
<1>7. CASE ExecAlu
    BY <1>7, AluBelow
<1>8. CASE ExecCond \/ ExecCapp \/ ExecCoproc
    <2>1. stack' = Value2.stack
        BY <1>8 DEF ExecCond, ExecCapp, ExecCoproc
    <2>2. Working(Value1) /\ Len(Value1.stack) \in Nat /\ Len(Value1.stack) =< Len(stack)
        BY <1>1, ValuePops DEF Value1
    <2>3. Working(Value2) /\ Len(Value2.stack) \in Nat /\ Len(Value2.stack) =< Len(Value1.stack)
        BY <2>2, ValuePops DEF Value2
    <2> QED
        BY <1>2, <2>1, <2>2, <2>3 DEF Below, Working
<1>9. CASE ExecTransfer \/ ExecAlert
    <2>1. stack' = Value.stack
        BY <1>9 DEF ExecTransfer, ExecAlert
    <2>2. Working(Value) /\ Len(Value.stack) =< Len(stack)
        BY <1>1, ValuePops DEF Value
    <2> QED
        BY <2>1, <2>2 DEF Below, Working
<1>10. CASE Reset
    <2>1. stack' = <<>>
        BY <1>10 DEF Reset
    <2> QED
        BY <1>2, <2>1, EmptyIs, StackAssumption DEF Below
<1> QED
    BY <1>4, <1>5, <1>6, <1>7, <1>8, <1>9, <1>10 DEF Next, Execute

(* An await leaves a stack, of whatever depth.                             *)
LEMMA AwaitStack == ASSUME IsSequence(stack), ExecAwait PROVE IsSequence(stack')
<1>1. stack' = stack \/ \E e : stack' = Push(stack, e)
    BY DEF ExecAwait
<1> QED
    BY <1>1, PushIs

(* What is popped from can be pushed to.                                   *)
StackInv == IsSequence(stack)

(* The stack is a sequence.                                                *)
LEMMA StackAlways == Spec => []StackInv
<1>1. Init => StackInv
    BY EmptyIs DEF Init, StackInv
<1>2. StackInv /\ [Next]_vars => StackInv'
    BY StackStep, AwaitStack DEF Below, StackInv
<1> QED
    BY <1>1, <1>2, PTL DEF Spec

(* Only the answer of an await makes the stack deeper than STACK_LIMIT:    *)
(* every other push is refused there, for any instructions and programs    *)
(* (src/cpu/cpu.go:470-520, src/cpu/stack.go:3).                           *)
THEOREM NothingElseOverflows == Spec => OnlyAwaitOverflows
<1>1. StackInv /\ [Next]_vars
      => [Len(stack') > STACK_LIMIT /\ Len(stack') > Len(stack) => ExecAwait]_vars
    <2> SUFFICES ASSUME StackInv, [Next]_vars, ~ExecAwait,
                        Len(stack') > STACK_LIMIT, Len(stack') > Len(stack)
                 PROVE  FALSE
        OBVIOUS
    <2>1. Below
        BY StackStep DEF StackInv
    <2>2. Len(stack) \in Nat /\ Len(stack') \in Nat
        BY <2>1, PushIs DEF Below, StackInv
    <2> QED
        BY <2>1, <2>2, StackAssumption DEF Below
<1> QED
    BY <1>1, StackAlways, PTL DEF Spec, OnlyAwaitOverflows

-----------------------------------------------------------------------------
(* What is fetched.                                                        *)

(* The register with the number n.                                         *)
RegisterOf(n) == RegBank[CHOOSE i \in DOMAIN RegBank : RegNumber[i] = n]

(* The instruction at the ip, when it is not taken from the stack.         *)
AtIp == IF Mode(ip) = IP_MODE_CAPP THEN Mem!CodeAt(Key)
        ELSE IF Mode(ip) = IP_MODE_REG /\ ip \ IP_MODE_MASK \in Range(RegNumber)
             THEN [word |-> reg[RegisterOf(ip \ IP_MODE_MASK)] \ CodeMask, imms |-> <<>>]
             ELSE NoCode

(* What Execute works on, and what an await has found no response for, is  *)
(* the instruction at the ip.                                              *)
FetchedAtIp == Mode(ip) # IP_MODE_STACK => /\ code # NoCode => code = AtIp
                                           /\ waiting # NoCode => waiting = AtIp

(* There are six registers, with a number each.                            *)
LEMMA RegistersDiffer ==
    /\ DOMAIN RegBank = 1 .. 6 /\ DOMAIN RegNumber = 1 .. 6
    /\ \A i, j \in 1 .. 6 : /\ RegNumber[i] = RegNumber[j] => i = j
                            /\ RegBank[i] = RegBank[j] => i = j
<1>1. \A i \in 1 .. 6 : i = 1 \/ i = 2 \/ i = 3 \/ i = 4 \/ i = 5 \/ i = 6
    OBVIOUS
<1>2. \A i, j \in 1 .. 6 : RegNumber[i] = RegNumber[j] => i = j
    BY <1>1 DEF RegNumber
<1>3. \A i, j \in 1 .. 6 : RegBank[i] = RegBank[j] => i = j
    BY <1>1 DEF RegBank
<1>4. DOMAIN RegBank = 1 .. 6 /\ DOMAIN RegNumber = 1 .. 6
    BY DEF RegBank, RegNumber
<1> QED
    BY <1>2, <1>3, <1>4

(* A number is that of its register.                                       *)
LEMMA RegisterIs ==
    ASSUME NEW i \in 1 .. 6
    PROVE  RegisterOf(RegNumber[i]) = RegBank[i] /\ RegNumber[i] \in Range(RegNumber)
<1>1. PICK j : j = CHOOSE k \in DOMAIN RegBank : RegNumber[k] = RegNumber[i]
    OBVIOUS
<1>2. i \in DOMAIN RegBank /\ i \in DOMAIN RegNumber
    BY RegistersDiffer
<1>3. j \in DOMAIN RegBank /\ RegNumber[j] = RegNumber[i]
    BY <1>1, <1>2
<1>4. j = i
    BY <1>3, RegistersDiffer
<1>5. RegisterOf(RegNumber[i]) = RegBank[j]
    BY <1>1 DEF RegisterOf
<1> QED
    BY <1>2, <1>4, <1>5 DEF Range

(* The modes of an ip are different, however wide a word is.               *)
LEMMA ModesDiffer ==
    /\ IP_MODE_CAPP # IP_MODE_REG /\ IP_MODE_CAPP # IP_MODE_MASK
    /\ IP_MODE_REG # IP_MODE_MASK
<1>1. W \in Int
    BY WidthAssumption DEF W
<1>2. W - 2 # W - 1
    BY <1>1
<1> QED
    BY <1>2 DEF IP_MODE_CAPP, IP_MODE_REG, IP_MODE_MASK

(* The instruction at the ip stays while the ip, the registers and the     *)
(* words of the CAPP do.                                                   *)
LEMMA AtIpStays ==
    ASSUME UNCHANGED <<ip, reg, data>>
    PROVE  AtIp' = AtIp /\ Mode(ip)' = Mode(ip)
BY DEF AtIp, Mode, Mem!CodeAt, Mem!CodeCells, Mem!Low, Key, Arena

(* In every mode FetchCode returns what is at the ip, and leaves it there. *)
LEMMA FetchGives ==
    ASSUME FetchCode
    PROVE  /\ UNCHANGED <<ip, reg, data, waiting>>
           /\ Mode(ip) # IP_MODE_STACK => code' = AtIp
<1>1. CASE FetchCapp
    BY <1>1 DEF FetchCapp, Fetched, regs, Mem!Fetch, AtIp
<1>2. CASE FetchStack
    BY <1>2 DEF FetchStack, Fetched, regs, capp
<1>3. CASE FetchReg
    <2>1. UNCHANGED <<ip, reg, data, waiting>> /\ Mode(ip) = IP_MODE_REG
        BY <1>3 DEF FetchReg, Fetched, regs, capp
    <2>2. ASSUME NEW i \in DOMAIN RegBank, ip \ IP_MODE_MASK = RegNumber[i],
                 Fetched([word |-> reg[RegBank[i]] \ CodeMask, imms |-> <<>>])
          PROVE  code' = AtIp
        <3>1. RegisterOf(ip \ IP_MODE_MASK) = RegBank[i] /\ RegNumber[i] \in Range(RegNumber)
            BY <2>2, RegistersDiffer, RegisterIs
        <3> QED
            BY <2>1, <2>2, <3>1, ModesDiffer DEF Fetched, AtIp
    <2>3. ASSUME ip \ IP_MODE_MASK \notin Range(RegNumber), Fetched(NoCode)
          PROVE  code' = AtIp
        BY <2>1, <2>3, ModesDiffer DEF Fetched, AtIp
    <2>4. code' = AtIp
        BY <1>3, <2>2, <2>3 DEF FetchReg
    <2> QED
        BY <2>1, <2>4
<1>4. CASE FetchNone
    BY <1>4, ModesDiffer DEF FetchNone, Fetched, regs, capp, AtIp
<1> QED
    BY <1>1, <1>2, <1>3, <1>4 DEF FetchCode

(* Execute leaves nothing to be executed, but for an await.                *)
LEMMA ExecuteEnds ==
    ASSUME Execute
    PROVE  \/ code' = NoCode /\ waiting' = NoCode
           \/ UNCHANGED <<ip, reg, data, code, waiting>>
           \/ /\ code' = NoCode /\ waiting' = code /\ code # NoCode
              /\ UNCHANGED <<ip, reg, data>>
<1>1. CASE ExecNever \/ ExecSkip \/ ExecAlu \/ ExecCond \/ ExecCapp \/ ExecCoproc \/ ExecTransfer
    BY <1>1 DEF ExecNever, ExecSkip, ExecAlu, ExecCond, ExecCapp, ExecCoproc, ExecTransfer,
                Fail, Complete, Finish
<1>2. CASE ExecAlert
    BY <1>2 DEF ExecAlert, Fail, Finish, capp, regs
<1>3. CASE ExecAwait
    <2>1. CASE AwaitRefused \/ resp[Instr.dst] # <<>>
        BY <1>3, <2>1 DEF ExecAwait, Fail, Finish
    <2>2. CASE resp[Instr.dst] = <<>> /\ ~AwaitRefused
        <3>1. /\ Finish(ip, resp, code.imms, "nil") /\ UNCHANGED <<reg, data>> /\ code # NoCode
              /\ waiting' = IF code.imms = <<>> THEN code ELSE NoCode
            BY <1>3, <2>2 DEF ExecAwait, Class, Executing, capp
        <3>2. code' = NoCode /\ ip' = ip
            BY <3>1 DEF Finish
        <3> QED
            BY <3>1, <3>2
    <2> QED
        BY <2>1, <2>2
<1> QED
    BY <1>1, <1>2, <1>3 DEF Execute

(* So it is in every state.                                                *)
LEMMA FetchedAlways == Spec => []FetchedAtIp
<1>1. Init => FetchedAtIp
    BY DEF Init, FetchedAtIp
<1>2. ASSUME FetchedAtIp, [Next]_vars
      PROVE  FetchedAtIp'
    <2>1. CASE UNCHANGED vars
        <3>1. UNCHANGED <<ip, reg, data, code, waiting>>
            BY <2>1 DEF vars, capp, regs
        <3> QED
            BY <1>2, <3>1, AtIpStays DEF FetchedAtIp
    <2>2. CASE FetchCode
        BY <1>2, <2>2, FetchGives, AtIpStays DEF FetchedAtIp
    <2>3. CASE Execute
        <3>1. CASE code' = NoCode /\ waiting' = NoCode
            BY <3>1 DEF FetchedAtIp
        <3>2. CASE ~(code' = NoCode /\ waiting' = NoCode)
            BY <1>2, <2>3, <3>2, ExecuteEnds, AtIpStays DEF FetchedAtIp
        <3> QED
            BY <3>1, <3>2
    <2>4. CASE Reset
        <3>1. code' = NoCode /\ waiting' = NoCode
            BY <2>4 DEF Reset
        <3> QED
            BY <3>1 DEF FetchedAtIp
    <2> QED
        BY <1>2, <2>1, <2>2, <2>3, <2>4 DEF Next
<1> QED
    BY <1>1, <1>2, PTL DEF Spec

(* An await without a response is what the next fetch returns, whatever    *)
(* that fetch, or the one before, has done to the tags of the CAPP         *)
(* (src/cpu/cpu.go:653-667).                                               *)
THEOREM AwaitAlwaysRetried == Spec => AwaitRetried
<1>1. FetchedAtIp /\ [Next]_vars
      => [waiting # NoCode /\ FetchCode /\ Mode(ip) # IP_MODE_STACK => code' = waiting]_vars
    BY FetchGives DEF FetchedAtIp
<1> QED
    BY <1>1, FetchedAlways, PTL DEF Spec, AwaitRetried

-----------------------------------------------------------------------------
(* The ip of the bootstrap.                                                *)

(* The ip of the register with the number k, from 1.                       *)
RegisterIp(k) == IP_MODE_REG \cup RegNumber[k]

(* A word has bits enough for the number of a register and the mode.       *)
LEMMA WidthIs ==
    /\ W \in Nat /\ W > 5 /\ Bits = 0 .. W - 1
    /\ {0, 1, 2, 3, W - 2, W - 1} \subseteq Bits
<1>1. W \in Nat /\ W > 5 /\ Bits = 0 .. W - 1
    BY WidthAssumption DEF W
<1> QED
    BY <1>1

(* The mode of such an ip, and its register.                               *)
LEMMA RegisterModes ==
    ASSUME NEW k \in 1 .. 6
    PROVE  Mode(RegisterIp(k)) = IP_MODE_REG /\ RegisterIp(k) \ IP_MODE_MASK = RegNumber[k]
<1>1. RegNumber[k] \subseteq {0, 1, 2}
    <2>1. k = 1 \/ k = 2 \/ k = 3 \/ k = 4 \/ k = 5 \/ k = 6
        OBVIOUS
    <2> QED
        BY <2>1 DEF RegNumber
<1>2. W - 2 \notin RegNumber[k] /\ W - 1 \notin RegNumber[k] /\ W - 2 # W - 1
    BY <1>1, WidthIs
<1> QED
    BY <1>2 DEF Mode, RegisterIp, IP_MODE_REG, IP_MODE_MASK

(* The registers are executed one after the other.                         *)
LEMMA NextRegister ==
    ASSUME NEW k \in 1 .. 5, ip = RegisterIp(k)
    PROVE  next_ip = RegisterIp(k + 1)
<1>1. k = 1 \/ k = 2 \/ k = 3 \/ k = 4 \/ k = 5
    OBVIOUS
<1>2. /\ RegNumber[1] = {} /\ RegNumber[2] = {0} /\ RegNumber[3] = {1}
      /\ RegNumber[4] = {0, 1} /\ RegNumber[5] = {2} /\ RegNumber[6] = {0, 2}
    BY DEF RegNumber
<1>3. ip = {W - 1} \cup RegNumber[k] /\ RegisterIp(k + 1) = {W - 1} \cup RegNumber[k + 1]
    BY DEF RegisterIp, IP_MODE_REG
<1>4. 3 \notin ip /\ 3 \in Bits /\ 0 \in Bits /\ 1 \in Bits /\ 2 \in Bits
    BY <1>1, <1>2, <1>3, WidthIs
<1>5. ASSUME NEW b \in Bits
      PROVE  (b \in ip <=> \E c \in Bits : c < b /\ c \notin ip) <=> b \in RegisterIp(k + 1)
    <2>1. b \in Nat /\ (b = 0 \/ b = 1 \/ b = 2 \/ b = 3 \/ b > 3) /\ W - 1 > 4 /\ W - 1 \in Nat
        BY WidthIs
    <2>2. CASE b > 3
        <3>1. \E c \in Bits : c < b /\ c \notin ip
            BY <1>4, <2>2
        <3>2. b \in ip <=> b \in RegisterIp(k + 1)
            BY <1>1, <1>2, <1>3, <2>2
        <3> QED
            BY <3>1, <3>2
    <2>3. CASE b \in {0, 1, 2, 3}
        <3>1. /\ b = 0 => ~\E c \in Bits : c < b /\ c \notin ip
              /\ b = 1 => ((\E c \in Bits : c < b /\ c \notin ip) <=> 0 \notin ip)
              /\ b = 2 => ((\E c \in Bits : c < b /\ c \notin ip) <=> ~({0, 1} \subseteq ip))
              /\ b = 3 => ((\E c \in Bits : c < b /\ c \notin ip) <=> ~({0, 1, 2} \subseteq ip))
            <4>1. /\ \A c \in Bits : ~(c < 0)
                  /\ \A c \in Bits : c < 1 <=> c = 0
                  /\ \A c \in Bits : c < 2 <=> c = 0 \/ c = 1
                  /\ \A c \in Bits : c < 3 <=> c = 0 \/ c = 1 \/ c = 2
                BY WidthIs
            <4> QED
                BY <1>4, <4>1
        <3>2. /\ b \in ip <=> b \in RegNumber[k]
              /\ b \in RegisterIp(k + 1) <=> b \in RegNumber[k + 1]
              /\ \A c \in {0, 1, 2} : c \in ip <=> c \in RegNumber[k]
            BY <1>3, <2>1, <2>3
        <3>3. /\ b = 0 => (b \in RegNumber[k] <=> b \notin RegNumber[k + 1])
              /\ b = 1 => ((b \in RegNumber[k] <=> 0 \notin RegNumber[k]) <=> b \in RegNumber[k + 1])
              /\ b = 2 => ((b \in RegNumber[k] <=> ~({0, 1} \subseteq RegNumber[k]))
                           <=> b \in RegNumber[k + 1])
              /\ b = 3 => ((b \in RegNumber[k] <=> ~({0, 1, 2} \subseteq RegNumber[k]))
                           <=> b \in RegNumber[k + 1])
            BY <1>1, <1>2
        <3> QED
            BY <2>3, <3>1, <3>2, <3>3
    <2> QED
        BY <2>1, <2>2, <2>3
<1>6. RegisterIp(k + 1) \subseteq Bits
    BY <1>1, <1>2, <1>3, WidthIs
<1> QED
    BY <1>5, <1>6 DEF next_ip

-----------------------------------------------------------------------------
(* What is in the Rom.                                                     *)

(* A nonempty set of naturals has a least element.                         *)
LEMMA LeastNat ==
    ASSUME NEW S \in SUBSET Nat, S # {}
    PROVE  \E m \in S : \A n \in S : m =< n
<1>1. PICK m \in S : \A n \in S : ~(<<n, m>> \in OpToRel(<, Nat))
    BY WFMin, NatLessThanWellFounded, Zenon
<1>2. ASSUME NEW n \in S, n < m
      PROVE  <<n, m>> \in OpToRel(<, Nat)
    BY <1>2 DEF OpToRel
<1>3. \A n \in S : ~(n < m)
    BY <1>1, <1>2
<1> QED
    BY <1>3

(* The function by which FlattenSeq puts the first n sequences together.   *)
Flattens(f, seqs, n) ==
    f = [i \in 1 .. n |-> IF i = 1 THEN seqs[i] ELSE f[i - 1] \o seqs[i]]

LEMMA FlattenExists ==
    ASSUME NEW seqs, NEW n \in Nat
    PROVE  \E f : Flattens(f, seqs, n)
<1> DEFINE T == {m \in Nat : ~\E f : Flattens(f, seqs, m)}
<1>1. ASSUME T # {}
      PROVE  FALSE
    <2>1. PICK m \in T : \A k \in T : m =< k
        BY <1>1, LeastNat
    <2>2. m \in Nat /\ ~\E f : Flattens(f, seqs, m)
        BY <2>1
    <2>3. CASE m = 0
        <3>1. Flattens([i \in 1 .. m |-> seqs[i]], seqs, m)
            BY <2>3 DEF Flattens
        <3> QED
            BY <2>2, <3>1
    <2>4. CASE m # 0
        <3>1. m - 1 \in Nat /\ m - 1 \notin T
            BY <2>1, <2>2, <2>4
        <3>2. PICK g : Flattens(g, seqs, m - 1)
            BY <3>1
        <3>3. PICK f : f = [i \in 1 .. m |-> IF i \in 1 .. m - 1 THEN g[i]
                                             ELSE IF i = 1 THEN seqs[i] ELSE g[i - 1] \o seqs[i]]
            OBVIOUS
        <3>4. ASSUME NEW i \in 1 .. m
              PROVE  f[i] = IF i = 1 THEN seqs[i] ELSE f[i - 1] \o seqs[i]
            <4>1. i # 1 => f[i - 1] = g[i - 1]
                BY <2>2, <3>3
            <4>2. i \in 1 .. m - 1 => g[i] = IF i = 1 THEN seqs[i] ELSE g[i - 1] \o seqs[i]
                BY <3>2 DEF Flattens
            <4> QED
                BY <3>3, <4>1, <4>2
        <3>5. f = [i \in 1 .. m |-> IF i = 1 THEN seqs[i] ELSE f[i - 1] \o seqs[i]]
            BY <3>3, <3>4
        <3> QED
            BY <2>2, <3>5 DEF Flattens
    <2> QED
        BY <2>3, <2>4
<1> QED
    BY <1>1

(* Sequences of words make a sequence of words.                            *)
LEMMA FlattenIs ==
    ASSUME NEW S, NEW seqs \in Seq(Seq(S))
    PROVE  FlattenSeq(seqs) \in Seq(S)
<1>1. PICK n \in Nat : n = Len(seqs) /\ DOMAIN seqs = 1 .. n /\ \A i \in 1 .. n : seqs[i] \in Seq(S)
    BY LenProperties, ElementOfSeq
<1>2. CASE n = 0
    <2>1. seqs = <<>> /\ FlattenSeq(seqs) = seqs
        BY <1>1, <1>2, EmptySeq DEF FlattenSeq
    <2>2. <<>> \in Seq(S)
        OBVIOUS
    <2> QED
        BY <2>1, <2>2
<1>3. CASE n # 0
    <2>1. PICK f : f = CHOOSE g : Flattens(g, seqs, n)
        OBVIOUS
    <2>2. FlattenSeq(seqs) = f[n]
        BY <1>1, <1>3, <2>1 DEF FlattenSeq, Flattens
    <2>3. Flattens(f, seqs, n)
        BY <2>1, FlattenExists
    <2>4. \A i \in 1 .. n : f[i] = IF i = 1 THEN seqs[i] ELSE f[i - 1] \o seqs[i]
        BY <2>3 DEF Flattens
    <2> DEFINE T == {m \in Nat : m \in 1 .. n /\ f[m] \notin Seq(S)}
    <2>5. ASSUME T # {}
          PROVE  FALSE
        <3>1. PICK m \in T : \A k \in T : m =< k
            BY <2>5, LeastNat
        <3>2. m \in 1 .. n /\ f[m] \notin Seq(S)
            BY <3>1
        <3>3. CASE m = 1
            BY <1>1, <2>4, <3>2, <3>3
        <3>4. CASE m # 1
            <4>1. PICK l \in Nat : l = m - 1 /\ l \in 1 .. n /\ ~(m =< l)
                BY <3>2, <3>4
            <4>2. f[l] \in Seq(S)
                BY <3>1, <4>1
            <4>3. seqs[m] \in Seq(S) /\ f[m] = f[l] \o seqs[m]
                BY <1>1, <2>4, <3>2, <3>4, <4>1
            <4> QED
                BY <3>2, <4>2, <4>3, ConcatProperties
        <3> QED
            BY <3>3, <3>4
    <2> QED
        BY <1>3, <2>2, <2>5
<1> QED
    BY <1>2, <1>3

(* The Rom holds words.                                                    *)
LEMMA BinaryIs == ASSUME NEW program \in Programs PROVE Binary(program) \in Seq(Words)
<1>1. PICK n \in Nat : n = Len(program) /\ DOMAIN program = 1 .. n
                       /\ \A i \in 1 .. n : program[i] \in Seq(Words)
    BY ProgramsAssumption, LenProperties, ElementOfSeq
<1>2. ASSUME NEW i \in 1 .. n, NEW address
      PROVE  [j \in DOMAIN program[i] |-> Arena(address) \cup program[i][j]] \in Seq(Words)
    <2>1. PICK m \in Nat : m = Len(program[i]) /\ DOMAIN program[i] = 1 .. m
                           /\ \A j \in 1 .. m : program[i][j] \in Words
        BY <1>1, LenProperties, ElementOfSeq
    <2>2. Arena(address) \in Words
        <3>1. H \in Nat /\ W = 2 * H /\ H > 2 /\ Bits = 0 .. W - 1
            BY WidthAssumption DEF W
        <3>2. \A b \in 0 .. H - 3 : b + H \in Bits
            BY <3>1
        <3> QED
            BY <3>1, <3>2 DEF Arena, Words
    <2>3. \A j \in 1 .. m : Arena(address) \cup program[i][j] \in Words
        BY <2>1, <2>2 DEF Words
    <2> QED
        BY <2>1, <2>3, SeqDef
<1>3. PICK cells : cells = [i \in DOMAIN program |->
                               [j \in DOMAIN program[i] |-> Arena(Word[i - 1]) \cup program[i][j]]]
    OBVIOUS
<1>4. cells \in [1 .. n -> Seq(Words)]
    BY <1>1, <1>2, <1>3
<1>5. cells \in Seq(Seq(Words))
    BY <1>4, SeqDef
<1>6. Binary(program) = FlattenSeq(cells)
    BY <1>3 DEF Binary
<1> QED
    BY <1>5, <1>6, FlattenIs

(* A word more is at least w bits more.                                    *)
LEMMA WordsGrow ==
    ASSUME NEW k \in Nat, NEW l \in Nat, NEW w \in Nat, k < l
    PROVE  /\ k * w \in Nat /\ l * w \in Nat
           /\ (k + 1) * w = k * w + w /\ k * w + w =< l * w
<1>1. PICK d \in Nat : l = k + 1 + d
    <2>1. l - k - 1 \in Nat /\ l = k + 1 + (l - k - 1)
        OBVIOUS
    <2> QED
        BY <2>1
<1>2. l * w = k * w + w + d * w
    BY <1>1
<1>3. d * w \in Nat /\ k * w \in Nat /\ l * w \in Nat /\ (k + 1) * w = k * w + w
    OBVIOUS
<1> QED
    BY <1>2, <1>3

(* The place of a bit, and the bit of a place.                             *)
LEMMA PlaceIs ==
    ASSUME NEW k \in Nat, NEW w \in Nat, NEW r \in Nat, r < w
    PROVE  k * w + r \in Nat /\ (k * w + r) \div w = k /\ (k * w + r) % w = r
<1>1. PICK n \in Nat : n = k * w + r
    OBVIOUS
<1>2. PICK q \in Nat : q = n \div w
    BY <1>1
<1>3. PICK s \in Nat : s = n % w
    BY <1>1
<1>4. n = q * w + s /\ s < w
    <2>1. n = w * (n \div w) + (n % w) /\ n % w < w
        BY <1>1
    <2> QED
        BY <1>2, <1>3, <2>1
<1>5. k * w \in Nat /\ q * w \in Nat /\ k * w + r = q * w + s
    BY <1>1, <1>4
<1>6. q = k
    BY <1>4, <1>5, WordsGrow
<1>7. s = r
    BY <1>1, <1>4, <1>5, <1>6
<1> QED
    BY <1>1, <1>2, <1>3, <1>6, <1>7

(* The bits that the Rom gives, by their places.                           *)
LEMMA RomBitIs ==
    ASSUME rom \in Seq(Words), NEW c \in 1 .. Len(rom), NEW b \in Bits
    PROVE  RomBits[(c - 1) * W + b + 1] = (b \in rom[c])
<1>1. PICK n \in Nat : n = Len(rom)
    BY LenProperties
<1>2. W \in Nat /\ b \in Nat /\ b < W /\ c - 1 \in Nat /\ c - 1 < n
    BY <1>1, WidthIs
<1>3. PICK p \in Nat : p = (c - 1) * W + b /\ p \div W = c - 1 /\ p % W = b
    <2>1. PICK k \in Nat : k = c - 1
        BY <1>2
    <2>2. k * W + b \in Nat /\ (k * W + b) \div W = k /\ (k * W + b) % W = b
        BY <1>2, PlaceIs
    <2> QED
        BY <2>1, <2>2
<1>4. p + 1 \in 1 .. n * W
    <2>1. (c - 1) * W \in Nat /\ n * W \in Nat /\ (c - 1) * W + W =< n * W
        BY <1>2, WordsGrow
    <2> QED
        BY <1>2, <1>3, <2>1
<1>5. RomBits[p + 1] = ((p + 1 - 1) % W \in rom[(p + 1 - 1) \div W + 1])
    BY <1>1, <1>4 DEF RomBits
<1>6. p + 1 - 1 = p /\ c - 1 + 1 = c
    BY <1>2
<1>7. RomBits[p + 1] = (b \in rom[c])
    BY <1>3, <1>5, <1>6
<1> QED
    BY <1>3, <1>7

(* The whole Rom, fetched under a mask of all ones into all cells: a word  *)
(* to each, and the cells behind it stay in the list.                      *)
LEMMA RomFills ==
    ASSUME rom \in Seq(Words), set[FALSE] = Cells, tag = Cells, data = [c \in Cells |-> Ones]
    PROVE  /\ Io!Filled(RomBits, Ones) = {c \in Cells : c =< Len(rom)}
           /\ Io!Refilled(RomBits, Ones) = [c \in Cells |-> IF c =< Len(rom) THEN rom[c] ELSE Ones]
<1>1. PICK n \in Nat : n = Len(rom) /\ \A c \in 1 .. n : rom[c] \in Words
    BY LenProperties, ElementOfSeq
<1>2. W \in Nat /\ W > 5 /\ Bits = 0 .. W - 1 /\ N \in Nat /\ Cells = 1 .. N
    BY WidthIs, NAssumption DEF Cells
<1>3. \A S : Io!Cardinality(S) = Cardinality(S)
    BY DEF Io!Cardinality, Cardinality
<1>4. Io!List = Cells /\ Io!Cardinality(Cells) = N /\ Io!Cardinality(Bits) = W
    <2>1. Cardinality(1 .. N) = N /\ Cardinality(0 .. W - 1) = W
        BY <1>2, FS_Interval
    <2> QED
        BY <1>2, <1>3, <2>1 DEF Io!List
<1>5. ASSUME NEW c \in Cells
      PROVE  Io!Rank(Cells, c) = c - 1
    <2>1. {y \in Cells : y < c} = 1 .. c - 1
        BY <1>2
    <2>2. Cardinality(1 .. c - 1) = c - 1
        BY <1>2, FS_Interval
    <2> QED
        BY <1>3, <2>1, <2>2 DEF Io!Rank
<1>6. ASSUME NEW b \in Bits
      PROVE  Io!Rank(Bits, b) = b
    <2>1. {y \in Bits : y < b} = 0 .. b - 1
        BY <1>2
    <2>2. b \in Nat /\ b - 1 \in Int /\ (0 > b - 1 <=> b = 0) /\ b - 1 - 0 + 1 = b
        BY <1>2
    <2>3. Cardinality(0 .. b - 1) = b
        BY <2>2, FS_Interval
    <2> QED
        BY <1>3, <2>1, <2>3 DEF Io!Rank
<1>7. Len(RomBits) = n * W /\ (n * W) \div W = n
    <2>1. n * W \in Nat /\ n * W + 0 = n * W
        BY <1>2
    <2>2. (n * W + 0) \div W = n
        BY <1>2, PlaceIs
    <2>3. DOMAIN RomBits = 1 .. n * W
        BY <1>1 DEF RomBits
    <2>4. RomBits \in Seq(Range(RomBits))
        <3>1. RomBits \in [1 .. n * W -> Range(RomBits)]
            BY <2>3 DEF RomBits, Range
        <3> QED
            BY <2>1, <3>1, SeqDef
    <2> QED
        BY <2>1, <2>2, <2>3, <2>4, LenProperties
<1>8. Io!Fitting(RomBits, Ones) = IF N =< n THEN N ELSE n
    BY <1>4, <1>7 DEF Io!Fitting, Io!MinOf, Ones
<1>9. Io!Filled(RomBits, Ones) = {c \in Cells : c =< Len(rom)}
    <2>1. ASSUME NEW c \in Cells
          PROVE  Io!Rank(Cells, c) < Io!Fitting(RomBits, Ones) <=> c =< n
        BY <1>2, <1>5, <1>8
    <2> QED
        BY <1>1, <1>4, <2>1 DEF Io!Filled
<1>10. ASSUME NEW c \in Cells, c =< n
       PROVE  Merge(data[c], Io!WordAt(RomBits, Io!Rank(Cells, c), Ones), Ones) = rom[c]
    <2>1. c \in 1 .. Len(rom) /\ rom[c] \in Words /\ data[c] = Bits
        BY <1>1, <1>2, <1>10 DEF Ones
    <2>2. ASSUME NEW b \in Bits
          PROVE  RomBits[Io!Rank(Cells, c) * Io!Cardinality(Bits) + Io!Rank(Bits, b) + 1]
                 = (b \in rom[c])
        <3>1. RomBits[(c - 1) * W + b + 1] = (b \in rom[c])
            BY <2>1, RomBitIs
        <3> QED
            BY <1>4, <1>5, <1>6, <3>1
    <2>3. Io!WordAt(RomBits, Io!Rank(Cells, c), Ones) = {b \in Bits : b \in rom[c]}
        BY <2>2 DEF Io!WordAt, Ones
    <2> QED
        BY <2>1, <2>3 DEF Merge, Words, Ones
<1>11. Io!Refilled(RomBits, Ones) = [c \in Cells |-> IF c =< Len(rom) THEN rom[c] ELSE Ones]
    <2>1. ASSUME NEW c \in Cells
          PROVE  (IF c \in Io!Filled(RomBits, Ones)
                  THEN Merge(data[c], Io!WordAt(RomBits, Io!Rank(Io!List, c), Ones), Ones)
                  ELSE data[c]) = (IF c =< Len(rom) THEN rom[c] ELSE Ones)
        BY <1>1, <1>4, <1>9, <1>10
    <2> QED
        BY <2>1 DEF Io!Refilled, Io!Merge, Io!Cells, Merge, Cells
<1> QED
    BY <1>9, <1>11

-----------------------------------------------------------------------------
(* The bootstrap.                                                          *)

(* What the boot needs to know of the state before it.                     *)
CappTypes == /\ set \in [BOOLEAN -> SUBSET Cells] /\ SetsSwapped = FALSE
             /\ reg = [r \in Range(RegBank) |-> reg[r]]
             /\ rom \in Seq(Words)

Blank == [c \in Cells |-> Ones]
Image(words) == [c \in Cells |-> IF c =< Len(words) THEN words[c] ELSE Ones]
Loaded(words) == {c \in Cells : c =< Len(words)}

(* The cells when the k-th instruction of the bootstrap, or the first of   *)
(* the program behind them, is next: all of them ones and in the list, then*)
(* the Rom in those that have left the list, then these in the list.       *)
BootCells(k) == /\ set[FALSE] = Cells
                /\ k < 5 => data = Blank /\ tag = Cells
                /\ k > 4 => data = Image(rom)
                /\ k = 5 => tag = Cells \ Loaded(rom)
                /\ k > 5 => tag = Loaded(rom)

BootCode(k) == [word |-> Boot[k] \ CodeMask, imms |-> <<>>]

BootState(k) == /\ ip = RegisterIp(k) /\ BootCells(k)
                /\ stack = <<>> /\ temp = <<>>
                /\ \A i \in 1 .. 6 : reg[RegBank[i]] = Boot[i]
                /\ code # NoCode => code = BootCode(k)

(* The boot is at one of its six instructions.                             *)
BootInv == booting => \E k \in 1 .. 6 : BootState(k)

(* The end of a Tick that succeeds, but for a trap.                        *)
Ticked(next) == /\ code' = NoCode /\ ip' = next
                /\ booting' = (booting /\ Mode(next) # IP_MODE_CAPP)
                /\ IF resp[Monitor] = <<>> THEN err' = "nil" /\ resp' = resp
                   ELSE err' = "ErrIpTrap" /\ resp' = [resp EXCEPT ![Monitor] = Tail(@)]

(* The operands of the bootstrap are constants.                            *)
LEMMA ConstantIs ==
    ASSUME NEW src \in {"immz", "immnz"}, NEW s, NEW v
    PROVE  getValue(src, [ok |-> TRUE, stack |-> s, imms |-> <<>>, val |-> v])
           = [ok |-> TRUE, stack |-> s, imms |-> <<>>, val |-> IF src = "immz" THEN Zero ELSE Ones]
<1>1. PICK m : m = [ok |-> TRUE, stack |-> s, imms |-> <<>>, val |-> v]
    OBVIOUS
<1>2. m.ok = TRUE /\ m.stack = s /\ m.imms = <<>>
    BY <1>1
<1>3. Len(m.imms) = 0 /\ SubSeq(m.imms, 1, Len(m.imms)) = <<>>
    BY <1>2
<1>4. CASE src = "immz"
    <2>1. getValue(src, m) = [ok |-> TRUE, stack |-> m.stack, imms |-> SubSeq(m.imms, 1, Len(m.imms)),
                              val |-> Zero]
        BY <1>2, <1>3, <1>4 DEF getValue
    <2> QED
        BY <1>1, <1>2, <1>3, <1>4, <2>1
<1>5. CASE src = "immnz"
    <2>1. getValue(src, m) = [ok |-> TRUE, stack |-> m.stack, imms |-> SubSeq(m.imms, 1, Len(m.imms)),
                              val |-> Ones]
        BY <1>2, <1>3, <1>5 DEF getValue
    <2> QED
        BY <1>1, <1>2, <1>3, <1>5, <2>1
<1> QED
    BY <1>4, <1>5

(* An instruction of the bootstrap is what Execute works on.               *)
LEMMA BootInstr ==
    ASSUME NEW k \in 1 .. 6, BootState(k), code # NoCode
    PROVE  Instr = Bootstrap[k] /\ code.imms = <<>> /\ Instr.cond = "always"
<1>1. code.word = Boot[k] \ CodeMask /\ code.imms = <<>>
    BY DEF BootState, BootCode
<1>2. DOMAIN Bootstrap = 1 .. 6
    BY DEF Bootstrap
<1>3. Instr = Bootstrap[k]
    BY <1>1, <1>2, BootAssumption DEF Instr
<1>4. k = 1 \/ k = 2 \/ k = 3 \/ k = 4 \/ k = 5 \/ k = 6
    OBVIOUS
<1>5. Bootstrap[k].cond = "always"
    BY <1>4 DEF Bootstrap, Instruction
<1> QED
    BY <1>1, <1>3, <1>5

LEMMA CompleteTicks ==
    ASSUME NEW next, Complete(next, <<>>)
    PROVE  Ticked(next)
BY DEF Complete, Finish, Ticked

(* It is executed by the action of its class.                              *)
LEMMA BootClass ==
    ASSUME NEW k \in 1 .. 6, BootState(k), code # NoCode, Execute
    PROVE  /\ k \in {1, 2, 3, 5} => ExecCapp
           /\ k = 4 => ExecTransfer
           /\ k = 6 => ExecAlu
<1>1. Instr = Bootstrap[k] /\ Instr.cond = "always"
    BY BootInstr
<1>2. k = 1 \/ k = 2 \/ k = 3 \/ k = 4 \/ k = 5 \/ k = 6
    OBVIOUS
<1>3. /\ k \in {1, 2, 3, 5} => Instr.class = "capp"
      /\ k = 4 => Instr.class = "io" /\ Instr.op = "fetch"
      /\ k = 6 => Instr.class = "alu"
    BY <1>1, <1>2 DEF Bootstrap, Instruction
<1>4. ~ExecNever /\ ~ExecSkip
    BY <1>1 DEF ExecNever, ExecSkip, Skipped
<1>5. /\ ExecAlu => Instr.class = "alu"
      /\ ExecCond => Instr.class = "cond"
      /\ ExecCapp => Instr.class = "capp"
      /\ ExecCoproc => Instr.class = "coproc"
      /\ ExecTransfer => Instr.class = "io"
      /\ ExecAlert => Instr.class = "io" /\ Instr.op = "alert"
      /\ ExecAwait => Instr.class = "io" /\ Instr.op = "await"
    BY DEF ExecAlu, ExecCond, ExecCapp, ExecCoproc, ExecTransfer, ExecAlert, ExecAwait, Class
<1> QED
    BY <1>2, <1>3, <1>4, <1>5 DEF Execute

(* The cells of the k-th instruction, from what a step says of each part.  *)
LEMMA CellsAre ==
    ASSUME NEW k \in 1 .. 7, set'[FALSE] = Cells, rom' = rom,
           k < 5 => data' = Blank /\ tag' = Cells,
           k > 4 => data' = Image(rom),
           k = 5 => tag' = Cells \ Loaded(rom),
           k > 5 => tag' = Loaded(rom)
    PROVE  BootCells(k)'
BY DEF BootCells, Image, Loaded

(* The instructions that work on the list leave the cells for the next one.*)
LEMMA BootCapp ==
    ASSUME CappTypes, NEW k \in {1, 2, 3, 5}, BootState(k), code # NoCode, ExecCapp
    PROVE  /\ BootCells(k + 1)' /\ Ticked(next_ip)
           /\ UNCHANGED <<stack, reg, temp, rom>>
<1>1. Instr = Bootstrap[k] /\ code.imms = <<>>
    BY BootInstr
<1>2. PICK a, b : /\ a = Instr.a /\ b = Instr.b /\ a \in {"immz", "immnz"} /\ b \in {"immz", "immnz"}
                  /\ k # 3 => a = "immz" /\ b = "immz"
                  /\ k = 3 => a = "immnz" /\ b = "immnz"
                  /\ Instr.op = CASE k = 1 -> "of" [] k = 2 -> "all"
                                  [] k = 3 -> "wlist" [] k = 5 -> "not"
    BY <1>1 DEF Bootstrap, Instruction
<1>3. Start = [ok |-> TRUE, stack |-> stack, imms |-> <<>>, val |-> Zero]
    BY <1>1 DEF Start
<1>4. Value1 = [ok |-> TRUE, stack |-> stack, imms |-> <<>>, val |-> IF a = "immz" THEN Zero ELSE Ones]
    BY <1>2, <1>3, ConstantIs DEF Value1
<1>5. Value2 = [ok |-> TRUE, stack |-> stack, imms |-> <<>>, val |-> IF b = "immz" THEN Zero ELSE Ones]
    BY <1>2, <1>4, ConstantIs DEF Value2
<1>6. /\ CappAction(Instr.op, Value1.val, Value2.val) /\ Complete(next_ip, Value2.imms)
      /\ UNCHANGED <<reg, chans, rom>> /\ stack' = Value2.stack
    BY <1>2, <1>5 DEF ExecCapp
<1>7. Ticked(next_ip) /\ UNCHANGED <<stack, reg, temp, rom>>
    BY <1>5, <1>6, CompleteTicks DEF chans
<1>8. /\ SetsSwapped = FALSE /\ set \in [BOOLEAN -> SUBSET Cells] /\ set[FALSE] = Cells
      /\ k # 5 => data = Blank /\ tag = Cells
      /\ k = 5 => data = Image(rom) /\ tag = Cells \ Loaded(rom)
    BY DEF BootState, BootCells, CappTypes
<1>9. Cp!Selected = Cells /\ Cp!List = Cells \cap tag
    BY <1>8 DEF Cp!Selected, Cp!List
<1>10. CASE k = 1
    <2>1. Cp!Select(Zero, Zero)
        BY <1>2, <1>4, <1>5, <1>6, <1>10 DEF CappAction
    <2>2. {c \in Cells : Matches(data[c], Zero, Zero)} = Cells
        BY DEF Matches, Zero
    <2>3. set' = [set EXCEPT ![FALSE] = Cells] /\ UNCHANGED <<tag, data>>
        BY <1>8, <2>1, <2>2 DEF Cp!Select, Cp!Cells, Cp!Matches, Cells, Matches
    <2>4. set'[FALSE] = Cells
        BY <1>8, <2>3
    <2> QED
        BY <1>7, <1>8, <1>10, <2>3, <2>4, CellsAre
<1>11. CASE k = 2
    <2>1. Cp!ListAll
        BY <1>2, <1>6, <1>11 DEF CappAction
    <2>2. tag' = tag \cup Cells /\ UNCHANGED <<set, data>>
        BY <1>9, <2>1 DEF Cp!ListAll, Cp!Retag
    <2>3. tag' = Cells /\ set'[FALSE] = Cells
        BY <1>8, <1>11, <2>2
    <2>4. data' = Blank
        BY <1>8, <1>11, <2>2
    <2>5. BootCells(3)'
        BY <1>7, <2>3, <2>4, CellsAre
    <2> QED
        BY <1>7, <1>11, <2>5
<1>12. CASE k = 3
    <2>1. Cp!WriteList(Ones, Ones)
        BY <1>2, <1>4, <1>5, <1>6, <1>12 DEF CappAction
    <2>2. /\ data' = [c \in Cells |-> IF c \in Cp!List THEN Merge(data[c], Ones, Ones) ELSE data[c]]
          /\ UNCHANGED <<set, tag>>
        BY <2>1 DEF Cp!WriteList, Cp!Write, Cp!Cells, Cp!Merge, Cells, Merge
    <2>3. Cp!List = Cells /\ \A c \in Cells : data[c] = Ones
        BY <1>8, <1>9, <1>12 DEF Blank
    <2>4. Merge(Ones, Ones, Ones) = Ones
        BY DEF Merge
    <2>5. data' = Blank /\ set'[FALSE] = Cells
        BY <1>8, <2>2, <2>3, <2>4 DEF Blank
    <2>6. tag' = Cells
        BY <1>8, <1>12, <2>2
    <2>7. BootCells(4)'
        BY <1>7, <2>5, <2>6, CellsAre
    <2> QED
        BY <1>7, <1>12, <2>7
<1>13. CASE k = 5
    <2>1. Cp!ListNot
        BY <1>2, <1>6, <1>13 DEF CappAction
    <2>2. tag' = (tag \ Cells) \cup (Cells \ tag) /\ UNCHANGED <<set, data>>
        BY <1>9, <2>1 DEF Cp!ListNot, Cp!Retag
    <2>3. tag' = Loaded(rom) /\ set'[FALSE] = Cells
        BY <1>8, <1>13, <2>2 DEF Loaded
    <2>4. data' = Image(rom)
        BY <1>8, <1>13, <2>2
    <2>5. BootCells(6)'
        BY <1>7, <2>3, <2>4, CellsAre
    <2> QED
        BY <1>7, <1>13, <2>5
<1> QED
    BY <1>7, <1>10, <1>11, <1>12, <1>13

(* The fourth fetches the Rom.                                             *)
LEMMA BootFetches ==
    ASSUME CappTypes, BootState(4), code # NoCode, ExecTransfer
    PROVE  /\ BootCells(5)' /\ Ticked(next_ip)
           /\ UNCHANGED <<stack, reg, temp, rom>>
<1>1. Instr = Bootstrap[4] /\ code.imms = <<>>
    BY BootInstr
<1>2. Instr.a = "immnz" /\ Instr.op = "fetch" /\ Instr.dst = Monitor
    BY <1>1 DEF Bootstrap, Instruction
<1>3. Start = [ok |-> TRUE, stack |-> stack, imms |-> <<>>, val |-> Zero]
    BY <1>1 DEF Start
<1>4. Value = [ok |-> TRUE, stack |-> stack, imms |-> <<>>, val |-> Ones]
    BY <1>2, <1>3, ConstantIs DEF Value
<1>5. ~IoRefused /\ Instr.dst # Temp /\ Instr.dst \in {Temp, Monitor} /\ Ones # Zero
    BY <1>2, <1>4, ChannelsAssumption, WidthIs DEF IoRefused, Ones, Zero
<1>6. /\ listInput(Ones) /\ Finish(next_ip, resp, <<>>, ioErr')
      /\ UNCHANGED <<reg, rom>> /\ stack' = stack
    BY <1>2, <1>4, <1>5 DEF ExecTransfer, regs
<1>7. /\ data' = Io!Refilled(RomBits, Ones) /\ tag' = tag \ Io!Filled(RomBits, Ones)
      /\ ioErr' = "nil" /\ UNCHANGED <<set, temp>>
    BY <1>5, <1>6 DEF listInput, sets
<1>8. Ticked(next_ip) /\ UNCHANGED <<stack, reg, temp, rom>>
    BY <1>6, <1>7 DEF Finish, Ticked
<1>9. rom \in Seq(Words) /\ set[FALSE] = Cells /\ tag = Cells /\ data = Blank
    BY DEF BootState, BootCells, CappTypes
<1>10. data' = Image(rom) /\ tag' = Cells \ Loaded(rom)
    BY <1>7, <1>9, RomFills DEF Blank, Image, Loaded
<1>11. BootCells(5)'
    BY <1>7, <1>8, <1>9, <1>10 DEF BootCells
<1> QED
    BY <1>8, <1>11

(* The last goes to the program.                                           *)
LEMMA BootJumps ==
    ASSUME CappTypes, BootState(6), code # NoCode, ExecAlu
    PROVE  /\ BootCells(7)' /\ Ticked(Zero)
           /\ UNCHANGED <<stack, reg, temp, rom>>
<1>1. Instr = Bootstrap[6] /\ code.imms = <<>>
    BY BootInstr
<1>2. Instr.a = "immz" /\ Instr.op = "set" /\ Instr.dst = "ip"
    BY <1>1 DEF Bootstrap, Instruction
<1>3. Start = [ok |-> TRUE, stack |-> stack, imms |-> <<>>, val |-> Zero]
    BY <1>1 DEF Start
<1>4. getValue(Instr.a, Start) = [ok |-> TRUE, stack |-> stack, imms |-> <<>>, val |-> Zero]
    BY <1>2, <1>3, ConstantIs
<1>5. "ip" \notin Range(RegBank)
    <2>1. \A i \in 1 .. 6 : i = 1 \/ i = 2 \/ i = 3 \/ i = 4 \/ i = 5 \/ i = 6
        OBVIOUS
    <2> QED
        BY <2>1, RegistersDiffer DEF Range, RegBank
<1>6. doAlu("set", next_ip, Zero) = Zero
    BY DEF doAlu
<1>7. Complete(Zero, <<>>) /\ UNCHANGED <<stack, reg, temp, rom, capp>>
    BY <1>2, <1>4, <1>5, <1>6 DEF ExecAlu, chans
<1>8. UNCHANGED <<set, tag, data>> /\ set'[FALSE] = set[FALSE]
    BY <1>7 DEF capp, sets
<1>9. set[FALSE] = Cells /\ data = Image(rom) /\ tag = Loaded(rom)
    BY DEF BootState, BootCells
<1>10. set'[FALSE] = Cells /\ data' = Image(rom) /\ tag' = Loaded(rom)
    BY <1>8, <1>9
<1>11. BootCells(7)'
    BY <1>7, <1>10, CellsAre
<1> QED
    BY <1>7, <1>11, CompleteTicks

(* The sets of the CAPP, the registers and the Rom stay what they are.     *)
LEMMA TypesStep == ASSUME CappTypes, [Next]_vars PROVE CappTypes'
<1>1. CASE UNCHANGED <<sets, reg, rom>>
    BY <1>1 DEF CappTypes, sets
<1>2. CASE FetchCode
    <2>1. UNCHANGED <<sets, reg, rom>>
        BY <1>2 DEF FetchCode, FetchCapp, FetchStack, FetchReg, FetchNone, Fetched, capp, regs
    <2> QED
        BY <1>1, <2>1
<1>3. CASE ExecNever \/ ExecSkip \/ ExecCond \/ ExecCoproc \/ ExecTransfer \/ ExecAlert
    <2>1. UNCHANGED <<sets, reg, rom>>
        BY <1>3 DEF ExecNever, ExecSkip, ExecCond, ExecCoproc, ExecTransfer, ExecAlert,
                    listInput, listOutput, capp, regs
    <2> QED
        BY <1>1, <2>1
<1>4. CASE ExecAlu
    <2>1. /\ UNCHANGED <<sets, rom>>
          /\ reg' = reg \/ \E dst \in Range(RegBank) : \E e : reg' = [reg EXCEPT ![dst] = e]
        BY <1>4 DEF ExecAlu, capp
    <2> QED
        BY <2>1 DEF CappTypes, sets
<1>5. CASE ExecCapp
    <2>1. /\ UNCHANGED <<SetsSwapped, reg, rom>>
          /\ \/ set' = set
             \/ \E S \in SUBSET Cells : set' = [set EXCEPT ![SetsSwapped] = S]
        <3>1. /\ Cp!Cells = Cells /\ UNCHANGED <<reg, rom>>
              /\ \/ UNCHANGED capp
                 \/ CappAction(Instr.op, Value1.val, Value2.val)
            BY <1>5 DEF ExecCapp, Cp!Cells, Cells
        <3>2. CASE CappAction(Instr.op, Value1.val, Value2.val)
            BY <3>1, <3>2 DEF CappAction, Cp!ListAll, Cp!ListNot, Cp!ListNext, Cp!ListOnly, Cp!Retag,
                              Cp!Select, Cp!WriteFirst, Cp!WriteList, Cp!Write
        <3> QED
            BY <3>1, <3>2 DEF capp, sets
    <2> QED
        BY <2>1 DEF CappTypes
<1>6. CASE ExecAwait
    <2>1. /\ UNCHANGED <<sets, rom>>
          /\ \/ reg' = reg
             \/ reg' = [r \in DOMAIN reg |-> IF r = Instr.a THEN Head(resp[Instr.dst]) ELSE reg[r]]
        BY <1>6 DEF ExecAwait, capp
    <2> QED
        BY <2>1 DEF CappTypes, sets
<1>7. CASE Reset
    <2>1. set' = [set EXCEPT ![SetsSwapped] = Cells] /\ UNCHANGED <<SetsSwapped, rom>>
        BY <1>7 DEF Reset, Cp!Reset, Cp!Cells, Cells
    <2>2. reg' = [r \in DOMAIN reg |-> reg'[r]]
        BY <1>7 DEF Reset
    <2> QED
        BY <2>1, <2>2 DEF CappTypes
<1>8. CASE UNCHANGED vars
    BY <1>1, <1>8 DEF vars, capp, regs
<1> QED
    BY <1>2, <1>3, <1>4, <1>5, <1>6, <1>7, <1>8 DEF Next, Execute

LEMMA TypesAlways == Spec => []CappTypes
<1>1. ASSUME Init PROVE CappTypes
    <2>1. rom \in Seq(Words)
        BY <1>1, BinaryIs DEF Init
    <2>2. /\ SetsSwapped = FALSE /\ set = [s \in BOOLEAN |-> IF s THEN {} ELSE Cells]
          /\ reg = [n \in Range(RegBank) |-> Zero]
        BY <1>1 DEF Init, Cp!Init, Cp!Cells, Cells
    <2>3. reg = [r \in Range(RegBank) |-> reg[r]]
        BY <2>2
    <2> QED
        BY <2>1, <2>2, <2>3 DEF CappTypes
<1> QED
    BY <1>1, TypesStep, PTL DEF Spec

(* The bootstrap is what a Reset leaves.                                   *)
LEMMA ResetBoots ==
    ASSUME CappTypes, Reset
    PROVE  BootState(1)' /\ booting'
<1>1. /\ Cp!Reset /\ SetsSwapped = FALSE /\ set \in [BOOLEAN -> SUBSET Cells]
      /\ DOMAIN reg = Range(RegBank) /\ rom' = rom
      /\ stack' = <<>> /\ temp' = <<>> /\ ip' = IP_MODE_REG /\ booting' = TRUE /\ code' = NoCode
    BY DEF Reset, CappTypes
<1>2. set'[FALSE] = Cells /\ data' = Blank /\ tag' = Cells
    BY <1>1 DEF Cp!Reset, Cp!Cells, Cells, Blank, Ones
<1>3. BootCells(1)'
    BY <1>1, <1>2, CellsAre
<1>4. ASSUME NEW i \in 1 .. 6
      PROVE  reg'[RegBank[i]] = Boot[i]
    <2>1. PICK j : j = CHOOSE k \in DOMAIN RegBank : RegBank[k] = RegBank[i]
        OBVIOUS
    <2>2. i \in DOMAIN RegBank
        BY RegistersDiffer
    <2>3. j \in DOMAIN RegBank /\ RegBank[j] = RegBank[i]
        BY <2>1, <2>2
    <2>4. j = i
        BY <2>3, RegistersDiffer
    <2>5. RegBank[i] \in DOMAIN reg
        BY <1>1, <2>2 DEF Range
    <2>6. reg'[RegBank[i]] = Boot[CHOOSE k \in DOMAIN RegBank : RegBank[k] = RegBank[i]]
        BY <2>5 DEF Reset
    <2> QED
        BY <2>1, <2>4, <2>6
<1>5. RegisterIp(1) = IP_MODE_REG
    BY DEF RegisterIp, RegNumber
<1> QED
    BY <1>1, <1>3, <1>4, <1>5 DEF BootState

(* A fetch of the bootstrap returns its next instruction, and does nothing *)
(* else.                                                                   *)
LEMMA BootFetch ==
    ASSUME NEW k \in 1 .. 6, BootState(k), FetchCode
    PROVE  BootState(k)' /\ UNCHANGED <<ip, booting, resp>> /\ err' = "nil" /\ code' = BootCode(k)
<1>1. Mode(ip) = IP_MODE_REG /\ ip \ IP_MODE_MASK = RegNumber[k]
    BY RegisterModes DEF BootState
<1>2. IP_MODE_STACK # IP_MODE_REG
    <2>1. W - 2 # W - 1
        BY WidthIs
    <2> QED
        BY <2>1 DEF IP_MODE_STACK, IP_MODE_REG
<1>3. FetchReg
    BY <1>1, <1>2, ModesDiffer DEF FetchCode, FetchCapp, FetchStack, FetchNone
<1>4. RegNumber[k] \in Range(RegNumber)
    BY RegisterIs
<1>5. PICK i \in DOMAIN RegBank :
         /\ RegNumber[i] = RegNumber[k]
         /\ Fetched([word |-> reg[RegBank[i]] \ CodeMask, imms |-> <<>>])
    BY <1>1, <1>3, <1>4 DEF FetchReg
<1>6. i = k
    BY <1>5, RegistersDiffer
<1>7. reg[RegBank[k]] = Boot[k] /\ Boot[k] \in Words
    <2>1. DOMAIN Bootstrap = 1 .. 6
        BY DEF Bootstrap
    <2> QED
        BY <2>1, BootAssumption DEF BootState
<1>8. Fetched(BootCode(k)) /\ BootCode(k) # NoCode
    <2>1. Boot[k] \ CodeMask \in Words
        BY <1>7 DEF Words
    <2> QED
        BY <1>5, <1>6, <1>7, <2>1, NoCodeAssumption DEF BootCode
<1>9. err = "nil" /\ UNCHANGED <<capp, stack>>
    BY <1>3 DEF FetchReg, Ready
<1>10. /\ UNCHANGED <<ip, booting, resp, reg, temp, rom>>
       /\ code' = BootCode(k) /\ err' = "nil"
    BY <1>8, <1>9 DEF Fetched, regs, chans
<1>11. BootCells(k)'
    BY <1>9, <1>10 DEF BootState, BootCells, capp, sets, Image, Loaded
<1> QED
    BY <1>9, <1>10, <1>11 DEF BootState, BootCode

(* A Tick of the bootstrap goes on to its next instruction, or with the    *)
(* last one to the program.                                                *)
LEMMA BootExecute ==
    ASSUME CappTypes, NEW k \in 1 .. 6, BootState(k), code # NoCode, Execute
    PROVE  /\ k < 6 => BootState(k + 1)' /\ Ticked(RegisterIp(k + 1))
           /\ k = 6 => /\ Ticked(Zero) /\ BootCells(7)' /\ UNCHANGED <<stack, temp, rom>>
<1>1. CASE k = 6
    <2>1. ExecAlu /\ BootState(6)
        BY <1>1, BootClass
    <2> QED
        BY <1>1, <2>1, BootJumps
<1>2. CASE k < 6
    <2>1. BootCells(k + 1)' /\ Ticked(next_ip) /\ UNCHANGED <<stack, reg, temp, rom>>
        <3>1. CASE k = 4
            <4>1. ExecTransfer /\ BootState(4)
                BY <3>1, BootClass
            <4> QED
                BY <3>1, <4>1, BootFetches
        <3>2. CASE k \in {1, 2, 3, 5}
            BY <3>2, BootClass, BootCapp
        <3> QED
            BY <1>2, <3>1, <3>2
    <2>2. next_ip = RegisterIp(k + 1)
        BY <1>2, NextRegister DEF BootState
    <2>3. Ticked(RegisterIp(k + 1))
        BY <2>1, <2>2
    <2>4. ip' = RegisterIp(k + 1) /\ code' = NoCode
        BY <2>3 DEF Ticked
    <2>5. BootState(k + 1)'
        BY <2>1, <2>4 DEF BootState
    <2> QED
        BY <1>2, <2>3, <2>5
<1> QED
    BY <1>1, <1>2

(* Nothing but a Reset begins a bootstrap.                                 *)
LEMMA ResetBegins == ASSUME [Next]_vars, ~booting, ~Reset PROVE ~booting'
<1>1. booting' = booting \/ \E b : booting' = (booting /\ b)
    <2>1. CASE UNCHANGED vars
        BY <2>1 DEF vars
    <2>2. CASE FetchCode
        BY <2>2 DEF FetchCode, FetchCapp, FetchStack, FetchReg, FetchNone, Fetched
    <2>3. CASE Execute
        BY <2>3 DEF Execute, ExecNever, ExecSkip, ExecAlu, ExecCond, ExecCapp, ExecCoproc, ExecTransfer,
                    ExecAlert, ExecAwait, Fail, Complete, Finish
    <2> QED
        BY <2>1, <2>2, <2>3 DEF Next
<1> QED
    BY <1>1

(* A step of a bootstrap.                                                  *)
LEMMA BootStep ==
    ASSUME CappTypes, BootInv, [Next]_vars
    PROVE  /\ BootInv'
           /\ booting /\ ~booting' => /\ ip' = Zero /\ BootCells(7)'
                                      /\ stack' = <<>> /\ temp' = <<>> /\ rom' = rom
<1>1. CASE Reset
    BY <1>1, ResetBoots DEF BootInv
<1>2. CASE ~booting /\ ~Reset
    BY <1>2, ResetBegins DEF BootInv
<1>3. CASE booting /\ ~Reset
    <2>1. PICK k \in 1 .. 6 : BootState(k)
        BY <1>3 DEF BootInv
    <2>2. CASE UNCHANGED vars
        <3>1. BootCells(k)'
            BY <2>1, <2>2 DEF BootState, BootCells, vars, capp, sets, Image, Loaded
        <3>2. BootState(k)'
            BY <2>1, <2>2, <3>1 DEF BootState, BootCode, vars, regs, chans
        <3> QED
            BY <1>3, <2>2, <3>2 DEF BootInv, vars
    <2>3. CASE FetchCode
        BY <1>3, <2>1, <2>3, BootFetch DEF BootInv
    <2>4. CASE Execute
        <3>1. code # NoCode
            BY <2>4 DEF Execute, ExecNever, ExecSkip, ExecAlu, ExecCond, ExecCapp, ExecCoproc,
                        ExecTransfer, ExecAlert, ExecAwait, Class, Executing
        <3>2. CASE k < 6
            <4>1. BootState(k + 1)' /\ Ticked(RegisterIp(k + 1))
                BY <2>1, <2>4, <3>1, <3>2, BootExecute
            <4>2. k + 1 \in 1 .. 6 /\ Mode(RegisterIp(k + 1)) # IP_MODE_CAPP
                BY <3>2, RegisterModes, ModesDiffer
            <4>3. booting'
                BY <1>3, <4>1, <4>2 DEF Ticked
            <4> QED
                BY <4>1, <4>2, <4>3 DEF BootInv
        <3>3. CASE k = 6
            <4>1. Ticked(Zero) /\ BootCells(7)' /\ UNCHANGED <<stack, temp, rom>>
                BY <2>1, <2>4, <3>1, <3>3, BootExecute
            <4>2. Mode(Zero) = IP_MODE_CAPP
                BY DEF Mode, Zero, IP_MODE_CAPP
            <4>3. ~booting' /\ ip' = Zero
                BY <4>1, <4>2 DEF Ticked
            <4>4. stack = <<>> /\ temp = <<>>
                BY <2>1 DEF BootState
            <4> QED
                BY <4>1, <4>3, <4>4 DEF BootInv
        <3> QED
            BY <3>2, <3>3
    <2> QED
        BY <1>3, <2>2, <2>3, <2>4 DEF Next
<1> QED
    BY <1>1, <1>2, <1>3

LEMMA BootAlways == Spec => [](CappTypes /\ BootInv)
<1>1. Init => BootInv
    BY DEF Init, BootInv
<1>2. CappTypes /\ BootInv /\ [Next]_vars => BootInv'
    BY BootStep
<1> QED
    BY <1>1, <1>2, TypesAlways, PTL DEF Spec

(* The cells that the last of the bootstrap leaves, to the program.        *)
LEMMA LoadedList ==
    ASSUME CappTypes', BootCells(7)'
    PROVE  List' = Loaded(rom)' /\ data' = Image(rom)'
<1>1. SetsSwapped' = FALSE /\ set'[FALSE] = Cells /\ tag' = Loaded(rom)' /\ data' = Image(rom)'
    BY DEF CappTypes, BootCells
<1>2. List' = set'[SetsSwapped'] \cap tag'
    BY DEF List, Cp!List, Cp!Selected
<1> QED
    BY <1>1, <1>2 DEF Loaded

(* The bootstrap leaves the program in the cells, and goes to it, whatever *)
(* it was that was reset (src/cpu/cpu.go:158-206,                          *)
(* src/emulator/emulator.go:80-115).                                       *)
THEOREM BootAlwaysLoads == Spec => BootLoads
<1>1. CappTypes /\ CappTypes' /\ BootInv /\ [Next]_vars
      => [booting /\ ~booting' =>
          /\ ip' = Zero /\ stack' = <<>> /\ temp' = <<>>
          /\ data' = [c \in Cells |-> IF c =< Len(rom) THEN rom[c] ELSE Ones]
          /\ List' = {c \in Cells : c =< Len(rom)}]_vars
    <2> SUFFICES ASSUME CappTypes, CappTypes', BootInv, [Next]_vars, booting, ~booting'
                 PROVE  /\ ip' = Zero /\ stack' = <<>> /\ temp' = <<>>
                        /\ data' = [c \in Cells |-> IF c =< Len(rom) THEN rom[c] ELSE Ones]
                        /\ List' = {c \in Cells : c =< Len(rom)}
        OBVIOUS
    <2>1. ip' = Zero /\ BootCells(7)' /\ stack' = <<>> /\ temp' = <<>> /\ rom' = rom
        BY BootStep
    <2>2. List' = Loaded(rom)' /\ data' = Image(rom)'
        BY <2>1, LoadedList
    <2> QED
        BY <2>1, <2>2 DEF Loaded, Image
<1> QED
    BY <1>1, BootAlways, PTL DEF Spec, BootLoads

-----------------------------------------------------------------------------
(* The responses.                                                          *)

(* What is answered is put at the end of a queue, what is awaited taken    *)
(* from its front.                                                         *)
LEMMA AnswerIs ==
    ASSUME NEW s, IsSequence(s), NEW ch, NEW value
    PROVE  /\ IsSequence(s \o Answer(ch, value)) /\ Len(s) \in Nat
           /\ \/ Len(s \o Answer(ch, value)) = Len(s)
              \/ Len(s \o Answer(ch, value)) = Len(s) + 1
<1>1. PICK S : S = Range(s) \cup {Ones}
    OBVIOUS
<1>2. s \in Seq(S) /\ Ones \in S
    BY <1>1, SeqDef, LenProperties DEF IsSequence
<1>3. PICK answer : answer = Answer(ch, value)
    OBVIOUS
<1>4. answer \in Seq(S) /\ (Len(answer) = 0 \/ Len(answer) = 1)
    BY <1>2, <1>3 DEF Answer
<1>5. PICK answers : answers = s \o answer
    OBVIOUS
<1>6. answers \in Seq(S) /\ Len(s) \in Nat /\ Len(answers) = Len(s) + Len(answer)
    BY <1>2, <1>4, <1>5, ConcatProperties, LenProperties
<1>7. IsSequence(answers)
    BY <1>6, SequenceOf
<1>8. PICK n \in Nat : n = Len(s)
    BY <1>6
<1>9. CASE Len(answer) = 0
    <2>1. Len(answers) = n
        BY <1>6, <1>8, <1>9
    <2> QED
        BY <1>3, <1>5, <1>7, <1>8, <2>1
<1>10. CASE Len(answer) = 1
    <2>1. Len(answers) = n + 1
        BY <1>6, <1>8, <1>10
    <2> QED
        BY <1>3, <1>5, <1>7, <1>8, <2>1
<1> QED
    BY <1>4, <1>9, <1>10

LEMMA TailIs ==
    ASSUME NEW s, IsSequence(s), s # <<>>
    PROVE  IsSequence(Tail(s)) /\ Len(s) \in Nat /\ Len(s) # 0 /\ Len(Tail(s)) = Len(s) - 1
<1>1. PICK S : s \in Seq(S)
    BY DEF IsSequence
<1>2. Tail(s) \in Seq(S) /\ Len(Tail(s)) = Len(s) - 1 /\ Len(s) \in Nat /\ Len(s) # 0
    BY <1>1, HeadTailProperties, LenProperties, EmptySeq
<1> QED
    BY <1>2, SequenceOf

(* A queue is never longer than the code's.                                *)
Queue(s) == IsSequence(s) /\ Len(s) =< RESPONSES

(* The Monitor's holds an answer only after a Tick that failed, until the  *)
(* first of the bootstrap.                                                 *)
QueueInv == /\ resp = [ch \in Channels |-> resp[ch]]
            /\ \A ch \in Channels : Queue(resp[ch])
            /\ resp[Monitor] # <<>> => /\ Len(resp[Monitor]) = 1
                                       /\ err # "nil" \/ (booting /\ ip = RegisterIp(1))
            /\ err # "nil" => code = NoCode

(* The answers of a Monitor that is alerted.                               *)
LEMMA MonitorAnswer ==
    ASSUME NEW value
    PROVE  /\ <<>> \o Answer(Monitor, value) # <<>>
              => Len(<<>> \o Answer(Monitor, value)) = 1 /\ Tail(<<>> \o Answer(Monitor, value)) = <<>>
           /\ Len(<<>> \o Answer(Monitor, value)) =< 1
<1>1. <<>> \o <<>> = <<>> /\ <<>> \o <<Ones>> = <<Ones>> /\ Tail(<<Ones>>) = <<>>
      /\ Len(<<>>) = 0 /\ Len(<<Ones>>) = 1
    OBVIOUS
<1>2. PICK answer : answer = Answer(Monitor, value)
    OBVIOUS
<1>3. answer = <<>> \/ answer = <<Ones>>
    BY <1>2 DEF Answer
<1>4. PICK answers : answers = <<>> \o answer
    OBVIOUS
<1>5. answers = <<>> \/ answers = <<Ones>>
    BY <1>1, <1>3, <1>4
<1>6. (answers # <<>> => Len(answers) = 1 /\ Tail(answers) = <<>>) /\ Len(answers) =< 1
    <2>1. CASE answers = <<>>
        BY <1>1, <2>1
    <2>2. CASE answers = <<Ones>>
        <3>1. Len(answers) = 1 /\ Tail(answers) = <<>>
            BY <1>1, <2>2, Zenon
        <3> QED
            BY <3>1
    <2> QED
        BY <1>5, <2>1, <2>2
<1> QED
    BY <1>2, <1>4, <1>6

(* When Execute looks at it, it is empty, but for the first instruction of *)
(* the bootstrap.                                                          *)
LEMMA MonitorTaken ==
    ASSUME CappTypes, BootInv, QueueInv, code # NoCode
    PROVE  \/ resp[Monitor] = <<>>
           \/ Len(resp[Monitor]) = 1 /\ booting /\ BootState(1)
<1>1. CASE resp[Monitor] # <<>>
    <2>1. Len(resp[Monitor]) = 1 /\ booting /\ ip = RegisterIp(1)
        BY <1>1 DEF QueueInv
    <2>2. PICK k \in 1 .. 6 : BootState(k)
        BY <2>1 DEF BootInv
    <2>3. RegisterIp(k) = RegisterIp(1)
        BY <2>1, <2>2 DEF BootState
    <2>4. /\ RegisterIp(k) \ IP_MODE_MASK = RegNumber[k]
          /\ RegisterIp(1) \ IP_MODE_MASK = RegNumber[1] /\ 1 \in 1 .. 6
        BY RegisterModes
    <2>5. k = 1
        BY <2>3, <2>4, RegistersDiffer
    <2> QED
        BY <2>1, <2>2, <2>5
<1> QED
    BY <1>1

(* A Tick that ends in one of these ways keeps to it.                      *)
LEMMA FailQueues ==
    ASSUME QueueInv, code # NoCode, NEW e, e # "nil", Fail(e)
    PROVE  QueueInv'
BY DEF QueueInv, Fail, Queue

LEMMA FinishQueues ==
    ASSUME NEW responses, responses = [ch \in Channels |-> responses[ch]],
           \A ch \in Channels : Queue(responses[ch]),
           responses[Monitor] # <<>> => Len(responses[Monitor]) = 1,
           NEW next, NEW imms, NEW e, e # "nil" => responses[Monitor] = <<>>,
           Finish(next, responses, imms, e)
    PROVE  QueueInv'
<1>1. code' = NoCode /\ Monitor \in Channels
    BY ChannelsAssumption DEF Finish
<1>2. CASE imms # <<>>
    <2>1. resp' = responses /\ err' = "ErrOpcodeImm"
        BY <1>2 DEF Finish
    <2> QED
        BY <1>1, <2>1 DEF QueueInv, Queue
<1>3. CASE imms = <<>> /\ e = "nil" /\ responses[Monitor] # <<>>
    <2>1. resp' = [responses EXCEPT ![Monitor] = Tail(@)] /\ err' = "ErrIpTrap"
        BY <1>3 DEF Finish
    <2>2. IsSequence(Tail(responses[Monitor])) /\ Len(Tail(responses[Monitor])) = 0
        BY <1>1, <1>3, TailIs DEF Queue
    <2>3. Tail(responses[Monitor]) = <<>>
        BY <2>2, EmptySeq DEF IsSequence
    <2>4. /\ DOMAIN resp' = Channels /\ resp' = [ch \in Channels |-> resp'[ch]]
          /\ resp'[Monitor] = <<>>
          /\ \A ch \in Channels \ {Monitor} : resp'[ch] = responses[ch]
        BY <1>1, <2>1, <2>3
    <2>5. \A ch \in Channels : Queue(resp'[ch])
        BY <2>4, EmptyIs, ResponsesAssumption DEF Queue
    <2> QED
        BY <1>1, <2>1, <2>4, <2>5 DEF QueueInv, Queue
<1>4. CASE imms = <<>> /\ ~(e = "nil" /\ responses[Monitor] # <<>>)
    <2>1. resp' = responses /\ err' = e /\ responses[Monitor] = <<>>
        BY <1>4 DEF Finish
    <2> QED
        BY <1>1, <2>1 DEF QueueInv, Queue
<1> QED
    BY <1>2, <1>3, <1>4

(* A Tick in the bootstrap that begins with an answer of the Monitor.      *)
LEMMA TickedQueues ==
    ASSUME QueueInv, NEW next, Ticked(next)
    PROVE  QueueInv'
<1>1. Len(resp[Monitor]) = 1 \/ resp[Monitor] = <<>>
    BY DEF QueueInv
<1>2. CASE resp[Monitor] # <<>>
    <2>1. Finish(next, resp, <<>>, "nil")
        BY <1>2 DEF Finish, Ticked
    <2> QED
        BY <1>1, <2>1, FinishQueues DEF QueueInv
<1>3. CASE resp[Monitor] = <<>>
    BY <1>3 DEF Ticked, QueueInv, Queue
<1> QED
    BY <1>2, <1>3

(* The answers to an alert, with room for them.                            *)
LEMMA AlertQueues ==
    ASSUME CappTypes, BootInv, QueueInv, code # NoCode, ExecAlert, ~IoRefused
    PROVE  /\ resp[Monitor] = <<>> /\ Instr.dst \in Channels
           /\ IF Len(resp[Instr.dst] \o Answer(Instr.dst, Value.val)) > RESPONSES
              THEN /\ Instr.dst # Monitor /\ Len(resp[Instr.dst]) = RESPONSES
                   /\ UNCHANGED <<ip, code, resp, err, booting>>
              ELSE QueueInv'
<1>1. Instr.class = "io" /\ Instr.op = "alert" /\ Instr.dst \in Channels
    BY DEF ExecAlert, Class, IoRefused
<1>2. resp[Monitor] = <<>>
    <2>1. CASE BootState(1)
        <3>1. Instr = Bootstrap[1]
            BY <2>1, BootInstr
        <3>2. Instr.class = "capp"
            BY <3>1 DEF Bootstrap, Instruction
        <3> QED
            BY <1>1, <3>2
    <2> QED
        BY <2>1, MonitorTaken
<1>3. PICK queue : queue = resp[Instr.dst] \o Answer(Instr.dst, Value.val)
    OBVIOUS
<1>4. /\ IsSequence(resp[Instr.dst]) /\ Len(resp[Instr.dst]) =< RESPONSES
      /\ IsSequence(queue) /\ Len(resp[Instr.dst]) \in Nat
      /\ Len(queue) = Len(resp[Instr.dst]) \/ Len(queue) = Len(resp[Instr.dst]) + 1
    BY <1>1, <1>3, AnswerIs DEF QueueInv, Queue
<1>5. Instr.dst = Monitor => Len(queue) =< 1 /\ (queue # <<>> => Len(queue) = 1)
    BY <1>2, <1>3, MonitorAnswer
<1>6. CASE Len(queue) > RESPONSES
    <2>1. UNCHANGED <<ip, code, resp, err, booting>>
        BY <1>3, <1>6 DEF ExecAlert
    <2>2. Instr.dst # Monitor /\ Len(resp[Instr.dst]) = RESPONSES
        BY <1>4, <1>5, <1>6, ResponsesAssumption
    <2> QED
        BY <1>1, <1>2, <1>3, <1>6, <2>1, <2>2
<1>7. CASE ~(Len(queue) > RESPONSES)
    <2>1. PICK responses : responses = [resp EXCEPT ![Instr.dst] = queue]
        OBVIOUS
    <2>2. Finish(next_ip, responses, Value.imms, "nil")
        BY <1>3, <1>7, <2>1 DEF ExecAlert
    <2>3. Len(queue) =< RESPONSES
        BY <1>4, <1>7, ResponsesAssumption
    <2>4. /\ DOMAIN responses = Channels /\ responses = [ch \in Channels |-> responses[ch]]
          /\ responses[Instr.dst] = queue
          /\ \A ch \in Channels \ {Instr.dst} : responses[ch] = resp[ch]
        BY <1>1, <2>1 DEF QueueInv
    <2>5. \A ch \in Channels : Queue(responses[ch])
        BY <1>4, <2>3, <2>4 DEF Queue, QueueInv
    <2>6. responses[Monitor] # <<>> => Len(responses[Monitor]) = 1
        BY <1>2, <1>5, <2>4, ChannelsAssumption
    <2>7. QueueInv'
        BY <2>2, <2>4, <2>5, <2>6, FinishQueues
    <2> QED
        BY <1>1, <1>2, <1>3, <1>7, <2>7
<1> QED
    BY <1>6, <1>7

(* The answer that an await takes.                                         *)
LEMMA AwaitQueues ==
    ASSUME CappTypes, BootInv, QueueInv, code # NoCode, ExecAwait
    PROVE  QueueInv'
<1>1. Instr.class = "io" /\ Instr.op = "await"
    BY DEF ExecAwait, Class
<1>2. resp[Monitor] = <<>>
    <2>1. CASE BootState(1)
        <3>1. Instr = Bootstrap[1]
            BY <2>1, BootInstr
        <3>2. Instr.class = "capp"
            BY <3>1 DEF Bootstrap, Instruction
        <3> QED
            BY <1>1, <3>2
    <2> QED
        BY <2>1, MonitorTaken
<1>3. CASE AwaitRefused
    <2>1. Fail("ErrOpcode")
        BY <1>3 DEF ExecAwait
    <2> QED
        BY <2>1, FailQueues
<1>4. CASE ~AwaitRefused /\ resp[Instr.dst] = <<>>
    <2>1. Finish(ip, resp, code.imms, "nil")
        BY <1>4 DEF ExecAwait
    <2> QED
        BY <1>2, <2>1, FinishQueues DEF QueueInv
<1>5. CASE ~AwaitRefused /\ resp[Instr.dst] # <<>>
    <2>1. PICK responses : responses = [resp EXCEPT ![Instr.dst] = Tail(resp[Instr.dst])]
        OBVIOUS
    <2>2. PICK next : Finish(next, responses, code.imms, "nil")
        BY <1>5, <2>1 DEF ExecAwait
    <2>3. Instr.dst \in Channels /\ Instr.dst # Monitor
        BY <1>2, <1>5 DEF AwaitRefused
    <2>4. /\ IsSequence(Tail(resp[Instr.dst])) /\ Len(resp[Instr.dst]) \in Nat
          /\ Len(Tail(resp[Instr.dst])) = Len(resp[Instr.dst]) - 1
          /\ Len(resp[Instr.dst]) =< RESPONSES
        BY <1>5, <2>3, TailIs DEF QueueInv, Queue
    <2>5. Queue(Tail(resp[Instr.dst]))
        BY <2>4, ResponsesAssumption DEF Queue
    <2>6. /\ DOMAIN responses = Channels /\ responses = [ch \in Channels |-> responses[ch]]
          /\ responses[Instr.dst] = Tail(resp[Instr.dst])
          /\ \A ch \in Channels \ {Instr.dst} : responses[ch] = resp[ch]
        BY <2>1, <2>3 DEF QueueInv
    <2>7. \A ch \in Channels : Queue(responses[ch])
        BY <2>5, <2>6 DEF QueueInv
    <2>8. responses[Monitor] = <<>>
        BY <1>2, <2>3, <2>6, ChannelsAssumption
    <2> QED
        BY <2>2, <2>6, <2>7, <2>8, FinishQueues
<1> QED
    BY <1>3, <1>4, <1>5

(* Every other instruction of a program ends in an error, or with the      *)
(* queues as they are.                                                     *)
LEMMA OtherEnds ==
    ASSUME Execute, ~ExecAlert, ~ExecAwait
    PROVE  \/ \E e : e # "nil" /\ Fail(e)
           \/ \E next, imms, e : Finish(next, resp, imms, e)
<1>1. /\ "ErrOpcode" # "nil" /\ "ErrStackFull" # "nil" /\ "ErrStackEmpty" # "nil"
    OBVIOUS
<1>2. CASE ExecNever \/ ExecSkip
    BY <1>1, <1>2 DEF ExecNever, ExecSkip, Complete
<1>3. CASE ExecAlu
    BY <1>1, <1>3 DEF ExecAlu, Complete
<1>4. CASE ExecCond \/ ExecCapp \/ ExecCoproc
    BY <1>1, <1>4 DEF ExecCond, ExecCapp, ExecCoproc, Complete
<1>5. CASE ExecTransfer
    BY <1>1, <1>5 DEF ExecTransfer
<1> QED
    BY <1>2, <1>3, <1>4, <1>5 DEF Execute

LEMMA QueueStep ==
    ASSUME CappTypes, BootInv, QueueInv, [Next]_vars
    PROVE  QueueInv'
<1>1. CASE UNCHANGED <<ip, code, resp, err, booting>>
    BY <1>1 DEF QueueInv, Queue, RegisterIp
<1>2. CASE UNCHANGED vars
    BY <1>1, <1>2 DEF vars
<1>3. CASE FetchCode
    <2>1. UNCHANGED <<ip, resp, booting>> /\ err = "nil" /\ (err' # "nil" => code' = NoCode)
        BY <1>3 DEF FetchCode, FetchCapp, FetchStack, FetchReg, FetchNone, Fetched, Ready
    <2> QED
        BY <2>1 DEF QueueInv, Queue
<1>4. CASE Reset
    <2>1. resp' = resp /\ ip' = RegisterIp(1) /\ booting' = TRUE /\ err' = "nil"
        BY <1>4 DEF Reset, RegisterIp, RegNumber
    <2> QED
        BY <2>1 DEF QueueInv, Queue
<1>5. CASE Execute
    <2>1. code # NoCode
        BY <1>5 DEF Execute, ExecNever, ExecSkip, ExecAlu, ExecCond, ExecCapp, ExecCoproc, ExecTransfer,
                    ExecAlert, ExecAwait, Class, Executing
    <2>2. CASE ExecAwait
        BY <2>1, <2>2, AwaitQueues
    <2>3. CASE ExecAlert
        <3>1. CASE IoRefused
            <4>1. Fail("ErrOpcode")
                BY <2>3, <3>1 DEF ExecAlert
            <4> QED
                BY <2>1, <4>1, FailQueues
        <3>2. CASE ~IoRefused
            BY <1>1, <2>1, <2>3, <3>2, AlertQueues
        <3> QED
            BY <3>1, <3>2
    <2>4. CASE ~ExecAwait /\ ~ExecAlert
        <3>1. CASE resp[Monitor] = <<>>
            BY <1>5, <2>1, <2>4, <3>1, OtherEnds, FailQueues, FinishQueues DEF QueueInv
        <3>2. CASE booting /\ BootState(1)
            <4>1. 1 \in 1 .. 6 /\ 1 < 6
                OBVIOUS
            <4>2. Ticked(RegisterIp(1 + 1))
                BY <1>5, <2>1, <3>2, <4>1, BootExecute
            <4> QED
                BY <4>2, TickedQueues
        <3> QED
            BY <2>1, <3>1, <3>2, MonitorTaken
    <2> QED
        BY <2>2, <2>3, <2>4
<1> QED
    BY <1>2, <1>3, <1>4, <1>5 DEF Next

LEMMA QueueAlways == Spec => [](CappTypes /\ BootInv /\ QueueInv)
<1>1. Init => QueueInv
    <2>1. Queue(<<>>)
        BY EmptyIs, ResponsesAssumption DEF Queue
    <2> QED
        BY <2>1, ChannelsAssumption DEF Init, QueueInv
<1>2. CappTypes /\ BootInv /\ QueueInv /\ [Next]_vars => QueueInv'
    BY QueueStep
<1> QED
    BY <1>1, <1>2, BootAlways, PTL DEF Spec

(* Nothing ends a wait of an alert, and nothing else begins one.           *)
LEMMA BlockedStep ==
    ASSUME CappTypes, BootInv, QueueInv, BlockedUnawaited, [Next]_vars
    PROVE  BlockedUnawaited'
<1>1. CASE UNCHANGED <<code, resp, blocked>>
    BY <1>1 DEF BlockedUnawaited, Instr
<1>2. CASE UNCHANGED vars
    BY <1>1, <1>2 DEF vars
<1>3. CASE FetchCode \/ Reset
    <2>1. ~blocked /\ blocked' = blocked
        BY <1>3 DEF FetchCode, FetchCapp, FetchStack, FetchReg, FetchNone, Fetched, Ready, Reset
    <2> QED
        BY <2>1 DEF BlockedUnawaited
<1>4. CASE Execute
    <2>1. ~blocked /\ code # NoCode
        BY <1>4 DEF Execute, ExecNever, ExecSkip, ExecAlu, ExecCond, ExecCapp, ExecCoproc, ExecTransfer,
                    ExecAlert, ExecAwait, Class, Executing
    <2>2. CASE blocked' = blocked
        BY <2>1, <2>2 DEF BlockedUnawaited
    <2>3. CASE blocked' # blocked
        <3>1. ExecAlert /\ ~IoRefused
            BY <1>4, <2>3 DEF Execute, ExecNever, ExecSkip, ExecAlu, ExecCond, ExecCapp, ExecCoproc,
                              ExecTransfer, ExecAlert, ExecAwait
        <3>2. Len(resp[Instr.dst] \o Answer(Instr.dst, Value.val)) > RESPONSES
            BY <2>3, <3>1 DEF ExecAlert
        <3>3. UNCHANGED <<code, resp>> /\ Instr.op = "alert"
            BY <3>1, <3>2 DEF ExecAlert
        <3>4. Instr.dst # Monitor /\ Len(resp[Instr.dst]) = RESPONSES
            BY <2>1, <3>1, <3>2, AlertQueues
        <3> QED
            BY <3>3, <3>4 DEF BlockedUnawaited, Instr
    <2> QED
        BY <2>2, <2>3
<1> QED
    BY <1>2, <1>3, <1>4 DEF Next

(* The emulator hangs only in an alert, of a channel other than the Monitor*)
(* whose Response queue is full (src/cpu/cpu.go:626-651, src/sio/temp.go:  *)
(* 68-77), for any instructions and programs.                              *)
THEOREM OnlyUnawaitedBlock == Spec => []BlockedUnawaited
<1>1. Init => BlockedUnawaited
    BY DEF Init, BlockedUnawaited
<1>2. CappTypes /\ BootInv /\ QueueInv /\ BlockedUnawaited /\ [Next]_vars => BlockedUnawaited'
    BY BlockedStep
<1> QED
    BY <1>1, <1>2, QueueAlways, PTL DEF Spec

-----------------------------------------------------------------------------
(* The bootstrap without an error.                                         *)

(* Every answer of the Monitor is the trap of the Tick that gets it.       *)
CleanInv == resp[Monitor] = <<>> /\ BootClean

(* A step of an alert of the Monitor that takes all its immediates.        *)
LEMMA AlertClean ==
    ASSUME QueueInv, CleanInv, AlertsTakeAll, ExecAlert, ~IoRefused
    PROVE  resp'[Monitor] = <<>>
<1>1. Class("io") /\ Instr.op = "alert" /\ Instr.dst \in Channels /\ Monitor \in Channels
    BY ChannelsAssumption DEF ExecAlert, IoRefused
<1>2. CASE resp' = resp
    BY <1>2 DEF CleanInv
<1>3. CASE resp' # resp
    <2>1. PICK queue : queue = resp[Instr.dst] \o Answer(Instr.dst, Value.val)
        OBVIOUS
    <2>2. PICK responses : responses = [resp EXCEPT ![Instr.dst] = queue]
        OBVIOUS
    <2>3. Finish(next_ip, responses, Value.imms, "nil")
        BY <1>3, <2>1, <2>2 DEF ExecAlert
    <2>4. /\ DOMAIN responses = Channels /\ responses[Instr.dst] = queue
          /\ \A ch \in Channels \ {Instr.dst} : responses[ch] = resp[ch]
        BY <1>1, <2>2 DEF QueueInv
    <2>5. CASE Instr.dst # Monitor
        <3>1. responses[Monitor] = <<>>
            BY <1>1, <2>4, <2>5 DEF CleanInv
        <3> QED
            BY <2>3, <3>1 DEF Finish
    <2>6. CASE Instr.dst = Monitor
        <3>1. Value.imms = <<>>
            BY <1>1, <2>6 DEF AlertsTakeAll
        <3>2. queue # <<>> => Tail(queue) = <<>>
            BY <2>1, <2>6, MonitorAnswer DEF CleanInv
        <3>3. CASE queue = <<>>
            BY <2>3, <2>4, <2>6, <3>3 DEF Finish
        <3>4. CASE queue # <<>>
            <4>1. resp' = [responses EXCEPT ![Monitor] = Tail(queue)]
                BY <2>3, <2>4, <2>6, <3>1, <3>4 DEF Finish
            <4> QED
                BY <1>1, <2>4, <3>2, <3>4, <4>1
        <3> QED
            BY <3>3, <3>4
    <2> QED
        BY <2>5, <2>6
<1> QED
    BY <1>2, <1>3

(* An await takes nothing from the Monitor's.                              *)
LEMMA AwaitClean ==
    ASSUME QueueInv, CleanInv, ExecAwait
    PROVE  resp'[Monitor] = <<>>
<1>1. CASE AwaitRefused
    BY <1>1 DEF ExecAwait, Fail, CleanInv
<1>2. CASE ~AwaitRefused /\ resp[Instr.dst] = <<>>
    <2>1. Finish(ip, resp, code.imms, "nil")
        BY <1>2 DEF ExecAwait
    <2> QED
        BY <2>1 DEF Finish, CleanInv
<1>3. CASE ~AwaitRefused /\ resp[Instr.dst] # <<>>
    <2>1. PICK responses : responses = [resp EXCEPT ![Instr.dst] = Tail(resp[Instr.dst])]
        OBVIOUS
    <2>2. PICK next : Finish(next, responses, code.imms, "nil")
        BY <1>3, <2>1 DEF ExecAwait
    <2>3. responses[Monitor] = <<>>
        BY <1>3, <2>1 DEF CleanInv
    <2> QED
        BY <2>2, <2>3 DEF Finish
<1> QED
    BY <1>1, <1>2, <1>3

LEMMA CleanStep ==
    ASSUME CappTypes, BootInv, QueueInv, CleanInv, AlertsTakeAll, [Next]_vars
    PROVE  CleanInv'
<1>1. resp[Monitor] = <<>> /\ (booting => err = "nil")
    BY DEF CleanInv, BootClean
<1>2. CASE UNCHANGED vars
    BY <1>1, <1>2 DEF vars, CleanInv, BootClean
<1>3. CASE Reset
    BY <1>1, <1>3 DEF Reset, CleanInv, BootClean
<1>4. CASE FetchCode
    <2>1. UNCHANGED <<resp, booting>>
        BY <1>4 DEF FetchCode, FetchCapp, FetchStack, FetchReg, FetchNone, Fetched
    <2>2. CASE booting
        BY <1>1, <1>4, <2>1, <2>2, BootFetch DEF BootInv, CleanInv, BootClean
    <2> QED
        BY <1>1, <2>1, <2>2 DEF CleanInv, BootClean
<1>5. CASE Execute
    <2>1. code # NoCode
        BY <1>5 DEF Execute, ExecNever, ExecSkip, ExecAlu, ExecCond, ExecCapp, ExecCoproc, ExecTransfer,
                    ExecAlert, ExecAwait, Class, Executing
    <2>2. booting => err' = "nil"
        <3>1. SUFFICES ASSUME booting PROVE err' = "nil"
            OBVIOUS
        <3>2. PICK k \in 1 .. 6 : BootState(k)
            BY <3>1 DEF BootInv
        <3>3. Ticked(Zero) \/ Ticked(RegisterIp(k + 1))
            BY <1>5, <2>1, <3>2, BootExecute
        <3> QED
            BY <1>1, <3>3 DEF Ticked
    <2>3. booting' => booting
        BY <1>5, <2>1, ResetBegins DEF Reset
    <2>4. resp'[Monitor] = <<>>
        <3>1. CASE ExecAlert
            <4>1. CASE IoRefused
                BY <1>1, <3>1, <4>1 DEF ExecAlert, Fail
            <4> QED
                BY <3>1, <4>1, AlertClean
        <3>2. CASE ExecAwait
            BY <3>2, AwaitClean
        <3>3. CASE ~ExecAlert /\ ~ExecAwait
            BY <1>1, <1>5, <3>3, OtherEnds DEF Fail, Finish
        <3> QED
            BY <3>1, <3>2, <3>3
    <2> QED
        BY <2>2, <2>3, <2>4 DEF CleanInv, BootClean
<1> QED
    BY <1>2, <1>3, <1>4, <1>5 DEF Next

(* A bootstrap has no error, whatever the program before it did, when that *)
(* program alerts the Monitor with the immediates that an alert takes, and *)
(* no more (src/cpu/cpu.go:159-206, 708-766).                              *)
THEOREM BootAlwaysClean == Spec /\ []AlertsTakeAll => []BootClean
<1>1. Init => CleanInv
    BY ChannelsAssumption DEF Init, CleanInv, BootClean
<1>2. CappTypes /\ BootInv /\ QueueInv /\ CleanInv /\ AlertsTakeAll /\ [Next]_vars => CleanInv'
    BY CleanStep
<1>3. CleanInv => BootClean
    BY DEF CleanInv
<1> QED
    BY <1>1, <1>2, <1>3, QueueAlways, PTL DEF Spec
=============================================================================
