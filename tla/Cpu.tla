-------------------------------- MODULE Cpu ---------------------------------
(***************************************************************************)
(* The CPU of src/cpu/cpu.go: Reset, FetchCode and Execute, on the CAPP,   *)
(* with its registers, stack, responses and traps.  A Tick is a FetchCode  *)
(* and an Execute, which take a step each; nothing runs between the two.   *)
(* What they do to the CAPP and to a channel is what the modules below say *)
(* it is: FetchAbs (implemented by Fetch), ListIOAbs (by ListIO), CappAbs  *)
(* (by Capp).                                                              *)
(*                                                                         *)
(* A word has 2 * H bits, for the 32 of the code, and is the set of its    *)
(* one bits: the two arena bits at the top, the address of an instruction  *)
(* below them, then H bits of opcode or immediate.                         *)
(***************************************************************************)
EXTENDS CappWord, SequencesExt

CONSTANTS H,             \* half the width of a word, 16 in the code
          STACK_LIMIT,
          RESPONSES,     \* capacity of a response channel, 8 in the code
          StackBound,    \* bound of the model: an await does not push beyond it
          Channels,      \* the channels that SetChannel has set, Monitor among them
          Monitor,       \* the Rom channel; it has been given its trap channel
          Temp,          \* the Temporary channel
          Capacity,      \* its capacity in bits
          Decode,        \* the instruction of each opcode
          Programs,      \* the programs that may be in the Rom: sequences of codes,
                         \* each its immediates and then its opcode
          Boot,          \* the opcodes that Reset installs in the registers
          NoCode

W == 2 * H

RegBank == <<"r0", "r1", "r2", "r3", "r4", "r5">>

Instruction(class, op, dst, a, b) ==
    [cond |-> "always", class |-> class, op |-> op, dst |-> dst, a |-> a, b |-> b]

(* What Boot's opcodes are.                                                *)
Bootstrap == <<
    Instruction("capp", "of", "none", "immz", "immz"),
    Instruction("capp", "all", "none", "immz", "immz"),
    Instruction("capp", "wlist", "none", "immnz", "immnz"),
    Instruction("io", "fetch", Monitor, "immnz", "none"),
    Instruction("capp", "not", "none", "immz", "immz"),
    Instruction("alu", "set", "ip", "immz", "none") >>

(* The bits of a word that say whose it is: ARENA_MASK|(0x3fff<<16).       *)
CodeMask == H .. W - 1

ASSUME WidthAssumption == H \in Nat /\ H > 2 /\ Bits = 0 .. W - 1
ASSUME ChannelsAssumption == {Monitor, Temp} \subseteq Channels /\ Monitor # Temp
ASSUME StackAssumption == STACK_LIMIT \in Nat
ASSUME ResponsesAssumption == RESPONSES \in Nat \ {0}
ASSUME BootAssumption == /\ DOMAIN Boot = DOMAIN Bootstrap
                         /\ \A i \in DOMAIN Boot : /\ Boot[i] \in Words
                                                  /\ Decode[Boot[i] \ CodeMask] = Bootstrap[i]
ASSUME ProgramsAssumption == \A program \in Programs : program \in Seq(Seq(Words))
ASSUME NoCodeAssumption == \A word \in Words : NoCode # [word |-> word, imms |-> <<>>]

VARIABLES set, tag, data, SetsSwapped,   \* the CAPP, between two fetches
          ip, stack, reg, Match, Mask, cond,
          code,      \* what FetchCode returned, until Execute is done with it
          resp,      \* the Response queue of each channel
          temp,      \* the bits in the Temporary
          ioErr,     \* what the last listInput or listOutput returned
          err,       \* what Tick returned
          blocked,   \* Alert waits for room in a full Response queue
          rom,       \* the program's words, which Reset puts in the Rom
          booting,   \* history: Reset has been called, and no CAPP ip reached yet
          waiting    \* history: the await that found no response in the last Tick

sets == <<set, SetsSwapped>>
capp == <<sets, tag, data>>
regs == <<reg, Match, Mask>>
chans == <<temp, ioErr>>
vars == <<capp, ip, stack, regs, cond, code, resp, chans, err, blocked, rom,
          booting, waiting>>

-----------------------------------------------------------------------------
(* Words and numbers.                                                      *)

Num == [w \in Words |-> MapThenSumSet(LAMBDA b : 2 ^ b, w)]
Word == [n \in 0 .. 2 ^ W - 1 |-> {b \in Bits : (n \div 2 ^ b) % 2 = 1}]

Plus(v, w) == Word[(Num[v] + Num[w]) % 2 ^ W]
Minus(v, w) == Word[(Num[v] - Num[w]) % 2 ^ W]
Signed(w) == IF W - 1 \in w THEN Num[w] - 2 ^ W ELSE Num[w]

Zero == {}
Ones == Bits

IP_MODE_CAPP == {}
IP_MODE_STACK == {W - 2}
IP_MODE_REG == {W - 1}
IP_MODE_MASK == {W - 2, W - 1}
Mode(w) == w \cap IP_MODE_MASK

(* ip + 1: a bit stays when a bit below it is not one, and flips otherwise.*)
next_ip == {b \in Bits : b \in ip <=> \E c \in Bits : c < b /\ c \notin ip}

(* The numbers of the registers: the words of 0 to 5.                      *)
RegNumber == <<{}, {0}, {1}, {0, 1}, {2}, {0, 2}>>

(* ARENA_CODE|((ip&0x3fff)<<16).                                           *)
Arena(address) == {W - 1} \cup {b + H : b \in address \cap 0 .. H - 3}
Key == Arena(ip)

(* Program.Binary: the cells of the codes, each at the address of its code.*)
Binary(program) ==
    FlattenSeq([i \in DOMAIN program |->
                  [j \in DOMAIN program[i] |-> Arena(Word[i - 1]) \cup program[i][j]]])

Cp == INSTANCE CappAbs WITH Images <- {}
Mem == INSTANCE FetchAbs WITH set <- set[FALSE], Keys <- {}, Operands <- {}
Io == INSTANCE ListIOAbs WITH set <- set[FALSE], buffer <- temp, output <- <<>>, err <- ioErr,
                              tape <- FALSE, Tapes <- {}, Masks <- {}, Operands <- {},
                              NoError <- "nil", ErrChannelFull <- "ErrChannelFull"

List == Cp!List

-----------------------------------------------------------------------------
(* FetchCode.                                                              *)

(* The stack.                                                              *)
Push(s, value) == Append(s, value)
Pop(s) == SubSeq(s, 1, Len(s) - 1)

(* Mutant of Full: the limit is tested one value too late.                 *)
Full_late(s) == Len(s) > STACK_LIMIT

Full(s) == Len(s) >= STACK_LIMIT

Ready == ~blocked /\ code = NoCode /\ err = "nil"

Fetched(c) == /\ code' = c
              /\ err' = IF c = NoCode THEN "ErrIpEmpty" ELSE err
              /\ UNCHANGED <<ip, regs, cond, resp, chans, blocked, rom,
                             booting, waiting>>

FetchCapp == /\ Ready /\ Mode(ip) = IP_MODE_CAPP
             /\ UNCHANGED <<sets, stack>>
             /\ Mem!Fetch(Key)
             /\ Fetched(code')

FetchStack == /\ Ready /\ Mode(ip) = IP_MODE_STACK
              /\ IF stack = <<>> THEN Fetched(NoCode) /\ UNCHANGED stack
                 ELSE /\ Fetched([word |-> stack[Len(stack)] \ CodeMask, imms |-> <<>>])
                      /\ stack' = Pop(stack)
              /\ UNCHANGED capp

FetchReg == /\ Ready /\ Mode(ip) = IP_MODE_REG
            /\ \/ \E i \in DOMAIN RegBank :
                     /\ ip \ IP_MODE_MASK = RegNumber[i]
                     /\ Fetched([word |-> reg[RegBank[i]] \ CodeMask, imms |-> <<>>])
               \/ ip \ IP_MODE_MASK \notin Range(RegNumber) /\ Fetched(NoCode)
            /\ UNCHANGED <<capp, stack>>

(* No mode: this is where the ip that `exit' sets, all ones, ends up.      *)
FetchNone == /\ Ready /\ Mode(ip) = IP_MODE_MASK
             /\ Fetched(NoCode)
             /\ UNCHANGED <<capp, stack>>

FetchCode == FetchCapp \/ FetchStack \/ FetchReg \/ FetchNone

-----------------------------------------------------------------------------
(* getValue and doAlu.                                                     *)

First == IF List = {} THEN Zero ELSE data[Following(List, Nil)]

(* What getValue works on: the stack and the immediates that are left.     *)
Start == [ok |-> TRUE, stack |-> stack, imms |-> code.imms, val |-> Zero]

(* It takes src from the stack or the immediates when it is there, and     *)
(* after an error nothing is taken any more.                               *)
getValue(src, m) ==
    LET need == CASE src = "imm16" -> 1 [] src = "imm32" -> 2 [] OTHER -> 0
        top == Len(m.stack)
    IN  IF ~m.ok \/ Len(m.imms) < need \/ (src = "stack" /\ top = 0)
        THEN [m EXCEPT !.ok = FALSE]
        ELSE [ok    |-> TRUE,
              stack |-> IF src = "stack" THEN Pop(m.stack) ELSE m.stack,
              imms  |-> SubSeq(m.imms, need + 1, Len(m.imms)),
              val   |-> CASE src = "immz"  -> Zero
                          [] src = "immnz" -> Ones
                          [] src = "imm16" -> m.imms[1]
                          [] src = "imm32" -> {b + H : b \in m.imms[1]} \cup m.imms[2]
                          [] src = "ip"    -> next_ip
                          [] src = "stack" -> m.stack[top]
                          [] src = "match" -> Match
                          [] src = "mask"  -> Mask
                          [] src = "first" -> First
                          [] src = "count" -> Word[Cardinality(List)]
                          [] OTHER         -> reg[src]]

(* The shift distance is taken modulo the width of a word.                 *)
doAlu(op, input, value) ==
    LET distance == Num[value] % W
    IN  CASE op = "set" -> value
          [] op = "xor" -> (input \ value) \cup (value \ input)
          [] op = "and" -> input \cap value
          [] op = "or"  -> input \cup value
          [] op = "shl" -> {b \in Bits : b - distance \in input}
          [] op = "shr" -> {b \in Bits : b + distance \in input}
          [] op = "add" -> Plus(input, value)
          [] op = "sub" -> Minus(input, value)

CondOps == {"eq", "ne", "lt", "le", "gt", "ge"}

Holds(op, a, b) ==
    CASE op = "eq" -> a = b
      [] op = "ne" -> a # b
      [] op = "lt" -> Signed(a) < Signed(b)
      [] op = "le" -> Signed(a) =< Signed(b)
      [] op = "gt" -> Signed(a) > Signed(b)
      [] op = "ge" -> Signed(a) >= Signed(b)

-----------------------------------------------------------------------------
(* The end of Execute, and of Tick.                                        *)

Fail(e) == /\ err' = e /\ code' = NoCode
           /\ waiting' = NoCode
           /\ UNCHANGED <<ip, resp, booting>>

(* Mutant of Finish: a trap is looked for, but its value is not received.  *)
Finish_peeks(next, responses, imms, e) ==
    /\ code' = NoCode
    /\ IF imms # <<>>
       THEN /\ err' = "ErrOpcodeImm"
            /\ UNCHANGED <<ip, booting>>
       ELSE /\ ip' = next
            /\ booting' = (booting /\ Mode(next) # IP_MODE_CAPP)
            /\ err' = IF e = "nil" /\ responses[Monitor] # <<>> THEN "ErrIpTrap" ELSE e
    /\ resp' = responses

(* Mutant of Finish: a trap is looked for after an error instead.          *)
Finish_swapped(next, responses, imms, e) ==
    /\ code' = NoCode
    /\ IF imms # <<>>
       THEN /\ err' = "ErrOpcodeImm"
            /\ resp' = responses
            /\ UNCHANGED <<ip, booting>>
       ELSE /\ ip' = next
            /\ booting' = (booting /\ Mode(next) # IP_MODE_CAPP)
            /\ IF e # "nil" /\ responses[Monitor] # <<>>
               THEN /\ err' = "ErrIpTrap"
                    /\ resp' = [responses EXCEPT ![Monitor] = Tail(@)]
               ELSE err' = e /\ resp' = responses

(* Execute sets the ip, unless immediates are left over; then, if all went *)
(* well, Tick looks for a trap.                                            *)
Finish(next, responses, imms, e) ==
    /\ code' = NoCode
    /\ IF imms # <<>>
       THEN /\ err' = "ErrOpcodeImm"
            /\ resp' = responses
            /\ UNCHANGED <<ip, booting>>
       ELSE /\ ip' = next
            /\ booting' = (booting /\ Mode(next) # IP_MODE_CAPP)
            /\ IF e = "nil" /\ responses[Monitor] # <<>>
               THEN /\ err' = "ErrIpTrap"
                    /\ resp' = [responses EXCEPT ![Monitor] = Tail(@)]
               ELSE err' = e /\ resp' = responses

Complete(next, imms) == Finish(next, resp, imms, "nil") /\ waiting' = NoCode

-----------------------------------------------------------------------------
(* Execute.                                                                *)

Instr == Decode[code.word]

Executing == ~blocked /\ code # NoCode

Skipped == \/ Instr.cond = "true" /\ ~cond
           \/ Instr.cond = "false" /\ cond

Class(class) == /\ Executing /\ Instr.class = class
                /\ Instr.cond # "never" /\ ~Skipped

ExecNever == /\ Executing /\ Instr.cond = "never"
             /\ Fail("ErrOpcode")
             /\ UNCHANGED <<capp, stack, regs, cond, chans, blocked, rom>>

(* The instruction is replaced by a no-op, its immediates with it.         *)
ExecSkip == /\ Executing /\ Skipped
            /\ Complete(next_ip, <<>>)
            /\ UNCHANGED <<capp, stack, regs, cond, chans, blocked, rom>>

(* The result goes to the ip, to a register, or in place of the top of the *)
(* stack; `set' pushes.  A stack that is full is refused before the pop.   *)
ExecAlu ==
    LET m == getValue(Instr.a, Start)
        dst == Instr.dst
        top == Len(m.stack)
        output(input) == doAlu(Instr.op, input, m.val)
    IN  /\ Class("alu")
        /\ \/ /\ ~m.ok \/ dst \notin {"ip", "stack"} \cup Range(RegBank)
              /\ Fail("ErrOpcode")
              /\ stack' = m.stack /\ UNCHANGED reg
           \/ /\ m.ok /\ dst = "ip"
              /\ Complete(output(next_ip), m.imms)
              /\ stack' = m.stack /\ UNCHANGED reg
           \/ /\ m.ok /\ dst \in Range(RegBank)
              /\ Complete(next_ip, m.imms)
              /\ reg' = [reg EXCEPT ![dst] = output(@)]
              /\ stack' = m.stack
           \/ /\ m.ok /\ dst = "stack" /\ Full(m.stack)
              /\ Fail("ErrStackFull")
              /\ stack' = m.stack /\ UNCHANGED reg
           \/ /\ m.ok /\ dst = "stack" /\ ~Full(m.stack) /\ Instr.op # "set" /\ top = 0
              /\ Fail("ErrStackEmpty")
              /\ stack' = m.stack /\ UNCHANGED reg
           \/ /\ m.ok /\ dst = "stack" /\ ~Full(m.stack) /\ Instr.op # "set" /\ top > 0
              /\ Complete(next_ip, m.imms)
              /\ stack' = [m.stack EXCEPT ![top] = output(@)]
              /\ UNCHANGED reg
           \/ /\ m.ok /\ dst = "stack" /\ ~Full(m.stack) /\ Instr.op = "set"
              /\ Complete(next_ip, m.imms)
              /\ stack' = Push(m.stack, m.val)
              /\ UNCHANGED reg
        /\ UNCHANGED <<capp, Match, Mask, cond, chans, blocked, rom>>

(* The operations that take two values, read in this order.                *)
Value1 == getValue(Instr.a, Start)
Value2 == getValue(Instr.b, Value1)

ExecCond == /\ Class("cond")
            /\ stack' = Value2.stack
            /\ \/ /\ Value2.ok /\ Instr.op \in CondOps
                  /\ cond' = Holds(Instr.op, Value1.val, Value2.val)
                  /\ Complete(next_ip, Value2.imms)
               \/ /\ ~(Value2.ok /\ Instr.op \in CondOps)
                  /\ Fail("ErrOpcode") /\ UNCHANGED cond
            /\ UNCHANGED <<capp, regs, chans, blocked, rom>>

CappAction(op, val, msk) ==
    \/ op = "all"    /\ Cp!ListAll
    \/ op = "not"    /\ Cp!ListNot
    \/ op = "next"   /\ Cp!ListNext
    \/ op = "only"   /\ Cp!ListOnly(val, msk)
    \/ op = "of"     /\ Cp!Select(val, msk)
    \/ op = "wfirst" /\ Cp!WriteFirst(val, msk)
    \/ op = "wlist"  /\ Cp!WriteList(val, msk)

ExecCapp ==
    LET plain == Instr.a = "immz" /\ Instr.b = "immz"
        legal == /\ Value2.ok /\ Instr.op # "swap"
                 /\ Instr.op \in {"all", "not", "next"} => plain
    IN  /\ Class("capp")
        /\ stack' = Value2.stack
        /\ \/ ~legal /\ Fail("ErrOpcode") /\ UNCHANGED <<capp, Match, Mask>>
           \/ /\ legal
              /\ CappAction(Instr.op, Value1.val, Value2.val)
              /\ IF Instr.op = "of" THEN Match' = Value1.val /\ Mask' = Value2.val
                                    ELSE UNCHANGED <<Match, Mask>>
              /\ Complete(next_ip, Value2.imms)
        /\ UNCHANGED <<reg, cond, chans, blocked, rom>>

(* NewCpu installs coprocessors that refuse every call.                    *)
ExecCoproc == /\ Class("coproc")
              /\ stack' = Value2.stack
              /\ Fail("ErrOpcode")
              /\ UNCHANGED <<capp, regs, cond, chans, blocked, rom>>

-----------------------------------------------------------------------------
(* Execute, the io instructions.                                           *)

(* The value of an io instruction other than await, and what stops it.     *)
Value == getValue(Instr.a, Start)

IoRefused == ~Value.ok \/ Instr.dst \notin Channels

(* The bits the Rom gives to a fetch, from the start every time.           *)
RomBits == [i \in 1 .. Len(rom) * W |-> (i - 1) % W \in rom[(i - 1) \div W + 1]]

(* The channels other than the Rom and the Temporary are a Depot without   *)
(* drums: there is nothing to read, and nowhere to write.                  *)
listInput(mask) ==
    IF mask = Zero \/ Instr.dst \notin {Temp, Monitor}
    THEN UNCHANGED <<capp, temp>> /\ ioErr' = "nil"
    ELSE IF Instr.dst = Temp THEN UNCHANGED sets /\ Io!Fetch(mask)
    ELSE /\ data' = Io!Refilled(RomBits, mask)
         /\ tag' = tag \ Io!Filled(RomBits, mask)
         /\ ioErr' = "nil"
         /\ UNCHANGED <<sets, temp>>

listOutput(mask) ==
    IF mask = Zero \/ List = {} THEN UNCHANGED <<capp, temp>> /\ ioErr' = "nil"
    ELSE IF Instr.dst = Temp THEN UNCHANGED sets /\ Io!Store(mask)
    ELSE /\ ioErr' = IF Instr.dst = Monitor THEN "ErrChannelFull" ELSE "ErrDrumMissing"
         /\ UNCHANGED <<capp, temp>>

(* Mutant of ExecTransfer: the ip is left where it is, as by an await.     *)
ExecTransfer_stays ==
    /\ Class("io") /\ Instr.op \in {"fetch", "store"} /\ ~IoRefused
    /\ stack' = Value.stack
    /\ IF Instr.op = "fetch" THEN listInput(Value.val) ELSE listOutput(Value.val)
    /\ Finish(ip, resp, Value.imms, ioErr') /\ waiting' = NoCode
    /\ UNCHANGED <<regs, cond, blocked, rom>>

(* An error of the transfer is returned, but by then the ip has moved on.  *)
ExecTransfer ==
    /\ Class("io") /\ Instr.op \in {"fetch", "store"}
    /\ stack' = Value.stack
    /\ \/ IoRefused /\ Fail("ErrOpcode") /\ UNCHANGED <<capp, chans>>
       \/ /\ ~IoRefused
          /\ IF Instr.op = "fetch" THEN listInput(Value.val) ELSE listOutput(Value.val)
          /\ Finish(next_ip, resp, Value.imms, ioErr') /\ waiting' = NoCode
    /\ UNCHANGED <<regs, cond, blocked, rom>>

(* What a channel answers an alert with: an error, but for the Rom, which  *)
(* says nothing when it is told (again) of its trap channel.               *)
Answer(ch, value) == IF ch = Monitor /\ value = Zero THEN <<>> ELSE <<Ones>>

(* The channel sends its answer before Alert returns, in the goroutine     *)
(* that would have to receive it: with the queue full that waits for ever. *)
ExecAlert ==
    /\ Class("io") /\ Instr.op = "alert"
    /\ stack' = Value.stack
    /\ \/ IoRefused /\ Fail("ErrOpcode") /\ UNCHANGED blocked
       \/ /\ ~IoRefused
          /\ LET responses == resp[Instr.dst] \o Answer(Instr.dst, Value.val)
             IN  IF Len(responses) > RESPONSES
                 THEN /\ blocked' = TRUE
                      /\ UNCHANGED <<ip, code, resp, err, booting, waiting>>
                 ELSE /\ Finish(next_ip, [resp EXCEPT ![Instr.dst] = responses],
                                Value.imms, "nil")
                      /\ waiting' = NoCode
                      /\ UNCHANGED blocked
    /\ UNCHANGED <<capp, regs, cond, chans, rom>>

Awaitable == {"immnz", "ip", "stack"} \cup Range(RegBank)

AwaitRefused == Instr.a \notin Awaitable \/ Instr.dst \notin Channels

(* Mutant of ExecAwait: without a response, the ip moves on all the same.  *)
ExecAwait_goesOn ==
    /\ Class("io") /\ Instr.op = "await" /\ ~AwaitRefused /\ resp[Instr.dst] = <<>>
    /\ Finish(next_ip, resp, code.imms, "nil")
    /\ waiting' = IF code.imms = <<>> THEN code ELSE NoCode
    /\ UNCHANGED <<capp, stack, regs, cond, chans, blocked, rom>>

(* An await with a response puts it where it was asked to, the stack       *)
(* without a look at its limit.  One without is left to be executed again. *)
ExecAwait ==
    LET queue == resp[Instr.dst]
    IN  /\ Class("io") /\ Instr.op = "await"
        /\ \/ /\ AwaitRefused
              /\ Fail("ErrOpcode")
              /\ UNCHANGED <<stack, reg>>
           \/ /\ ~AwaitRefused /\ queue = <<>>
              /\ Finish(ip, resp, code.imms, "nil")
              /\ waiting' = IF code.imms = <<>> THEN code ELSE NoCode
              /\ UNCHANGED <<stack, reg>>
           \/ /\ ~AwaitRefused /\ queue # <<>>
              /\ Finish(IF Instr.a = "ip" THEN Head(queue) ELSE next_ip,
                        [resp EXCEPT ![Instr.dst] = Tail(queue)], code.imms, "nil")
              /\ waiting' = NoCode
              /\ reg' = [r \in DOMAIN reg |-> IF r = Instr.a THEN Head(queue) ELSE reg[r]]
              /\ IF Instr.a = "stack"
                 THEN Len(stack) < StackBound /\ stack' = Push(stack, Head(queue))
                 ELSE UNCHANGED stack
        /\ UNCHANGED <<capp, Match, Mask, cond, chans, blocked, rom>>

Execute == \/ ExecNever \/ ExecSkip \/ ExecAlu \/ ExecCond \/ ExecCapp \/ ExecCoproc
           \/ ExecTransfer \/ ExecAlert \/ ExecAwait

-----------------------------------------------------------------------------
(* Mutant of Reset: the channels are not rewound.                          *)
Reset_noRewind ==
    /\ ~blocked /\ code = NoCode
    /\ Cp!Reset
    /\ reg' = [r \in DOMAIN reg |-> LET i == CHOOSE j \in DOMAIN RegBank : RegBank[j] = r
                                    IN  Boot[i]]
    /\ stack' = <<>> /\ ip' = IP_MODE_REG
    /\ err' = "nil" /\ ioErr' = "nil"
    /\ booting' = TRUE /\ waiting' = NoCode
    /\ UNCHANGED <<Match, Mask, cond, code, resp, temp, blocked, rom>>

(* Emulator.Reset up to its Ticks, and Cpu.Reset in it.  The Response      *)
(* queues, Match, Mask and cond are left alone.                            *)
Reset == /\ ~blocked /\ code = NoCode
         /\ Cp!Reset
         /\ reg' = [r \in DOMAIN reg |-> LET i == CHOOSE j \in DOMAIN RegBank : RegBank[j] = r
                                         IN  Boot[i]]
         /\ stack' = <<>> /\ temp' = <<>>
         /\ ip' = IP_MODE_REG
         /\ err' = "nil" /\ ioErr' = "nil"
         /\ booting' = TRUE /\ waiting' = NoCode
         /\ UNCHANGED <<Match, Mask, cond, code, resp, blocked, rom>>

(* NewEmulator, with a program loaded.                                     *)
Init == /\ Cp!Init
        /\ ip = Zero /\ stack = <<>> /\ Match = Zero /\ Mask = Zero /\ cond = FALSE
        /\ reg = [n \in Range(RegBank) |-> Zero]
        /\ code = NoCode /\ resp = [ch \in Channels |-> <<>>]
        /\ temp = <<>> /\ ioErr = "nil" /\ err = "nil"
        /\ blocked = FALSE
        /\ rom \in {Binary(program) : program \in Programs} /\ booting = FALSE /\ waiting = NoCode

Next == FetchCode \/ Execute \/ Reset

Spec == Init /\ [][Next]_vars

(* The emulator ticks on until an error.                                   *)
FairSpec == Spec /\ WF_vars(FetchCode \/ Execute)

-----------------------------------------------------------------------------
(* Properties.                                                             *)

(* The bootstrap in the registers leaves the program of the Rom in the     *)
(* first cells, all ones in the others, the program's cells selected and   *)
(* tagged, nothing on the stack, and the ip at 0 of the CAPP, whatever the *)
(* emulator was doing when it was reset.                                   *)
BootLoads ==
    [][booting /\ ~booting' =>
       /\ ip' = Zero /\ stack' = <<>> /\ temp' = <<>>
       /\ data' = [c \in Cells |-> IF c =< Len(rom) THEN rom[c] ELSE Ones]
       /\ List' = {c \in Cells : c =< Len(rom)}]_vars

(* The loop of Emulator.Reset, which ticks until the ip is one of the CAPP *)
(* or a Tick fails, comes to an end.                                       *)
BootEnds == <>[][~Reset]_vars => (booting ~> ~booting \/ err # "nil")

(* An await without a response is what is executed next, when the ip is    *)
(* one of the CAPP or of a register: the fetch leaves it where it is.      *)
AwaitRetried ==
    [][waiting # NoCode /\ FetchCode /\ Mode(ip) # IP_MODE_STACK => code' = waiting]_vars

(* An alert of the Monitor has the immediates that it needs, and no more.  *)
AlertsTakeAll == Class("io") /\ Instr.op = "alert" /\ Instr.dst = Monitor /\ ~IoRefused
                 => Value.imms = <<>>

(* Emulator.Reset succeeds, whatever the program before it did: the trap of*)
(* its last alert, say, is not there for the bootstrap to run into.  It    *)
(* holds of programs for which AlertsTakeAll does: Execute returns its     *)
(* error for an immediate that is left over after it has sent the alert,   *)
(* and Tick does not look for the trap then.                               *)
BootClean == booting => err = "nil"

(* The emulator hangs only in an alert of a channel that has as many       *)
(* answers as its queue takes, none of them awaited; of the Monitor never: *)
(* Tick takes its answers out, and a Tick that failed is the last one until*)
(* a bootstrap, whose first Tick takes them out.                           *)
BlockedUnawaited == blocked => /\ Instr.op = "alert" /\ Instr.dst # Monitor
                               /\ Len(resp[Instr.dst]) = RESPONSES

(* src/cpu/stack.go: "STACK_LIMIT is the maximum stack depth."  Only the   *)
(* answer of an await, pushed without a look at the limit, makes the stack *)
(* deeper; every other push is refused there.                              *)
OnlyAwaitOverflows ==
    [][Len(stack') > STACK_LIMIT /\ Len(stack') > Len(stack) => ExecAwait]_vars
=============================================================================
