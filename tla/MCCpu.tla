------------------------------- MODULE MCCpu --------------------------------
(* Words of ten bits, and every program of three of the instructions below;*)
(* the first six are the bootstrap.  A program may jump back to its start, *)
(* run into cells without an instruction, or run on from the stack.        *)
EXTENDS Cpu

CONSTANTS temp0, depot, monitor

MCIsa == Bootstrap \o <<
    Instruction("io", "alert", depot, "immz", "none"),
    Instruction("io", "await", depot, "stack", "none"),
    Instruction("io", "await", depot, "r0", "none"),
    Instruction("io", "alert", monitor, "immnz", "none"),
    Instruction("alu", "set", "ip", "imm32", "none"),
    Instruction("alu", "set", "stack", "imm16", "none"),
    Instruction("cond", "eq", "none", "r0", "immnz"),
    [Instruction("alu", "set", "ip", "immnz", "none") EXCEPT !.cond = "true"],
    [Instruction("alu", "set", "ip", "immnz", "none") EXCEPT !.cond = "never"],  \* 14
    Instruction("coproc", "cp0", "none", "count", "immnz"),
    Instruction("alu", "set", "ip", "immnz", "none"),
    Instruction("alu", "shl", "r1", "count", "none"),
    Instruction("alu", "sub", "stack", "ip", "none"),
    Instruction("cond", "lt", "none", "stack", "first"),
    Instruction("capp", "next", "none", "immz", "immz"),                          \* 20
    Instruction("capp", "only", "none", "imm16", "imm16"),
    Instruction("capp", "wfirst", "none", "match", "mask"),
    Instruction("capp", "of", "none", "imm16", "imm16"),
    Instruction("io", "store", temp0, "imm16", "none"),
    Instruction("io", "fetch", temp0, "imm16", "none"),                           \* 25
    Instruction("io", "store", depot, "immnz", "none"),
    Instruction("io", "fetch", depot, "immnz", "none"),
    Instruction("io", "await", depot, "ip", "none"),
    Instruction("io", "alert", "nowhere", "immz", "none"),
    Instruction("io", "await", "nowhere", "r0", "none"),                          \* 30
    [Instruction("alu", "xor", "match", "stack", "none") EXCEPT !.cond = "false"] >>

MCDecode == [w \in SUBSET (0 .. H - 1) |-> LET n == Num[w] + 1
                                            IN  MCIsa[IF n > Len(MCIsa) THEN 1 ELSE n]]
MCBoot == [i \in 1 .. 6 |-> Word[i - 1]]
MCBits == 0 .. 2 * H - 1

(* The opcodes a program may hold, with their immediates: the ip it may    *)
(* set is the stack's, and what it may push is an await or a test.         *)
MCCodes == {<<5>>, <<6>>, <<7>>, <<8>>, <<9>>, <<2 ^ (H - 2), 0, 10>>,
            <<8, 11>>, <<12, 11>>, <<12>>, <<13>>}

(* Programs for the instructions and the errors that those have not.       *)
MCOthers == {
    <<<<14>>>>, <<<<15>>>>, <<<<16>>>>, <<<<17>>, <<12>>, <<15>>>>, <<<<29>>>>, <<<<30>>>>, <<<<31>>>>,
    <<<<18>>>>, <<<<19>>>>, <<<<3, 11>>, <<18>>, <<19>>, <<31>>>>, <<<<3, 11>>, <<31>>>>,
    <<<<3, 11>>, <<3, 11>>, <<18>>>>, <<<<9, 11>>, <<12>>, <<13>>, <<31>>>>,
    <<<<20>>, <<20>>, <<5>>>>, <<<<1, 1, 21>>, <<22>>, <<16>>>>, <<<<31, 0, 23>>, <<1>>, <<20>>, <<22>>>>,
    <<<<1, 24>>, <<0>>, <<1>>, <<1, 25>>, <<16>>>>, <<<<3, 24>>, <<1>>, <<2, 25>>, <<16>>>>,
    <<<<0, 24>>, <<0, 25>>, <<26>>>>, <<<<27>>, <<6>>, <<28>>>>, <<<<28>>>>,
    <<<<8, 24, 23>>, <<3, 24>>, <<1>>, <<3, 25>>>>, <<<<21>>>>, <<<<25>>>>, <<<<3, 5>>>>, <<<<3, 6>>>> }

MCPrograms ==
    LET Code(numbers) == [j \in DOMAIN numbers |-> Word[numbers[j]]]
        Program(codes) == [i \in DOMAIN codes |-> Code(codes[i])]
    IN  {Program(<<p, q, r>>) : p \in MCCodes, q \in MCCodes, r \in MCCodes}
        \cup {Program(p) : p \in MCOthers}
=============================================================================
