----------------------------- MODULE Assembler ------------------------------
(***************************************************************************)
(* The macro assembler of src/cpu/assembler.go.  Clear, any number of      *)
(* Parse, then Link, in any order a caller may choose.  A Parse takes a    *)
(* step per line; the recursion of Parse (an .include) and of parseLine (a *)
(* macro) is a stack of frames.                                            *)
(*                                                                         *)
(* A line comes without its comment and split into words; a word is atomic.*)
(* What a word means as a number, and what a $(...) expression comes to,   *)
(* is given by the constants Number and Expr: ParseInt and Starlark do it. *)
(* A number is a pair of halves of 16 bits.  Sources do not include, and   *)
(* macros do not call, themselves.                                         *)
(***************************************************************************)
EXTENDS Opcode, SequencesExt

CONSTANTS Sources,        \* the file systems: functions from paths to lines
          Number,         \* the words that are numbers, and their halves
          Expr,           \* the $(...) words: the name each uses, its value by that name's
          Numeral(_),     \* the word for a line number
          Local(_, _, _), \* a word of a line of a macro, with its @ replaced
          Predefines,     \* pairs of a name and a word to Predefine
          sysEquate,      \* the equates of every program, LINENO among them
          MaxParses,      \* bound of the model: calls of Parse after a Clear
          NoMacro, NoLabel, NoProgram

Halves16 == 0 .. 65535

(* A number has 32 bits.                                                   *)
ASSUME NumberAssumption == \A word \in DOMAIN Number : Number[word] \in Halves16 \X Halves16
ASSUME MaxParsesAssumption == MaxParses \in Nat

VARIABLES source,     \* the file system
          predefine, ready, Opcodes, Label, Equate, Macro,
          heap,       \* the arrays that hold data words
          Data,       \* the slice of one of them that is the assembler's
          frames,     \* what Parse is working on, the innermost last
          err,        \* what the last call returned
          prog,       \* what the last Link that succeeded returned
          parses,     \* calls of Parse since the last Clear
          target,     \* history: the number of the statement behind each label
          written,    \* history: the data words parsed since the last Clear
          reused,     \* history: data words have been parsed since prog was linked
          failed,     \* history: a Parse has failed since the last Clear
          fileEquate  \* history: what the lines of files, not of macros, have equated

input == <<source, predefine>>
code == <<Opcodes, Label, target>>
data == <<heap, Data, written, reused>>
names == <<Equate, fileEquate>>
vars == <<input, ready, code, names, Macro, data, frames, err, prog, parses, failed>>

-----------------------------------------------------------------------------
(* The names of the language.                                              *)

dstMap == [r0 |-> 0, r1 |-> 1, r2 |-> 2, r3 |-> 3, r4 |-> 4, r5 |-> 5, ip |-> 6, stack |-> 7]
irMap == [r0 |-> 0, r1 |-> 1, r2 |-> 2, r3 |-> 3, r4 |-> 4, r5 |-> 5, ip |-> 6, stack |-> 7,
          match |-> 8, mask |-> 9, first |-> 10, count |-> 11]
aluMap == [set |-> 0, xor |-> 1, and |-> 2, or |-> 3, shl |-> 4, shr |-> 5, add |-> 6, sub |-> 7]
ifMap == [name \in {"eq?", "lt?", "le?", "ne?", "ge?", "gt?"} |->
             CASE name = "eq?" -> 0 [] name = "lt?" -> 1 [] name = "le?" -> 2
               [] name = "ne?" -> 4 [] name = "ge?" -> 5 [] name = "gt?" -> 6]
listMap == [all |-> 1, not |-> 2, next |-> 3, only |-> 4, of |-> 5, first |-> 6, write |-> 7]
ioMap == [fetch |-> 0, store |-> 1, await |-> 2, alert |-> 3]
coprocMap == [cp0 |-> 0, cp1 |-> 1, cp2 |-> 2, cp3 |-> 3]
channelMap == [temp |-> 0, depot |-> 1, tape |-> 2, vt |-> 3, monitor |-> 7]

condMap == [name \in {"+", "-"} |-> IF name = "+" THEN COND_TRUE ELSE COND_FALSE]

-----------------------------------------------------------------------------
(* Operands.                                                               *)

Bad == [ok |-> FALSE, ir |-> 0, imms |-> <<>>]

(* Zero and all ones are constants of the CPU; the rest is an immediate.   *)
Immediate(halves) ==
    CASE halves = <<0, 0>>         -> [ok |-> TRUE, ir |-> IR_CONST_0, imms |-> <<>>]
      [] halves = <<65535, 65535>> -> [ok |-> TRUE, ir |-> IR_CONST_FFFFFFFF, imms |-> <<>>]
      [] halves[1] = 0 /\ halves[2] # 0 ->
             [ok |-> TRUE, ir |-> IR_IMMEDIATE_16, imms |-> <<halves[2]>>]
      [] OTHER -> [ok |-> TRUE, ir |-> IR_IMMEDIATE_32, imms |-> halves]

(* No operand stands for all ones; two are one too many.                   *)
irOrImm(words) ==
    CASE Len(words) > 1 -> Bad
      [] words = <<>> -> [ok |-> TRUE, ir |-> IR_CONST_FFFFFFFF, imms |-> <<>>]
      [] Len(words) = 1 /\ words[1] \in DOMAIN irMap ->
             [ok |-> TRUE, ir |-> irMap[words[1]], imms |-> <<>>]
      [] Len(words) = 1 /\ words[1] \in DOMAIN Number \ DOMAIN irMap ->
             Immediate(Number[words[1]])
      [] OTHER -> Bad

(* A value and its mask, which is all ones when it is left out; their      *)
(* immediates are in the order in which getValue takes them.  No statement *)
(* asks for it without a word.                                             *)
getMatchMask(words) ==
    LET match == irOrImm(SubSeq(words, 1, 1))
        mask == IF match.ok THEN irOrImm(Tail(words)) ELSE Bad
    IN  [ok   |-> match.ok /\ mask.ok,
         a    |-> match.ir, b |-> mask.ir,
         imms |-> match.imms \o mask.imms]

(* Channels have names, or a number below 8.                               *)
IsChannel(word) == \/ word \in DOMAIN channelMap
                   \/ word \in DOMAIN Number /\ Number[word][1] = 0 /\ Number[word][2] < 8
getChannel(word) == IF word \in DOMAIN channelMap THEN channelMap[word] ELSE Number[word][2]

(* A coprocessor without a name is number 0: the error is overwritten.     *)
getCoproc(word) == IF word \in DOMAIN coprocMap THEN coprocMap[word] ELSE 0

-----------------------------------------------------------------------------
(* parseWords: the codes of a statement.                                   *)

(* The alternative forms.                                                  *)
Substituted(w) ==
    LET n == Len(w)
    IN  CASE n >= 2 /\ w[1] = "write" /\ w[2] = "list" -> <<"list", "write">> \o SubSeq(w, 3, n)
          [] n >= 2 /\ w[1] = "write" /\ w[2] = "first" -> <<"list", "first">> \o SubSeq(w, 3, n)
          [] n >= 2 /\ w[1] = "write" /\ w[2] \in DOMAIN dstMap -> <<"alu", "set">> \o Tail(w)
          [] w = <<"if", "some?">> -> <<"if", "gt?", "count", "0">>
          [] w = <<"if", "none?">> -> <<"if", "eq?", "count", "0">>
          [] n = 3 /\ w[1] = "if" /\ w[2] = "true?"  -> <<"if", "ne?", w[3], "0">>
          [] n = 3 /\ w[1] = "if" /\ w[2] = "false?" -> <<"if", "eq?", w[3], "0">>
          [] w = <<"trap">> -> <<"io", "await", "monitor">>
          [] w[1] \in DOMAIN ioMap -> <<"io">> \o w
          [] w = <<"return">> -> <<"alu", "set", "ip", "stack">>
          [] n = 2 /\ w[1] = "vjump" -> <<"alu", "set", "ip", w[2]>>
          [] OTHER -> w

(* A code, with the instruction it is meant to be (history).               *)
Code(instr, imms) == [word |-> MakeCode(instr), imms |-> imms, instr |-> instr]

Alu(cond, op, dst, src, imms) ==
    Code([cond |-> cond, class |-> OP_ALU, op |-> aluMap[op], a |-> dst, b |-> src], imms)

(* What parseWords comes to: its error or none, the codes and the data     *)
(* words it adds, and the label to link.                                   *)
Result(ok, codes, words, label) == [ok |-> ok, codes |-> codes, data |-> words, label |-> label]
Refused == Result(FALSE, <<>>, <<>>, NoLabel)
Codes(codes) == Result(TRUE, codes, <<>>, NoLabel)

Plain(cond, class, op, m) == Code([cond |-> cond, class |-> class, op |-> op,
                                   a |-> m.a, b |-> m.b], m.imms)

(* A long, a short, or up to three bytes.                                  *)
Fits(w, values) ==
    CASE w[1] = ".dl" -> Len(values) = 1 /\ values[1][1] =< 16383
      [] w[1] = ".dw" -> Len(values) = 1 /\ values[1][1] = 0
      [] OTHER -> /\ Len(values) \in 1 .. 3
                  /\ \A i \in DOMAIN values : values[i][1] = 0 /\ values[i][2] =< 255
Packed(values) ==
    CASE Len(values) = 1 -> values[1]
      [] Len(values) = 2 -> <<0, values[1][2] * 256 + values[2][2]>>
      [] OTHER -> <<values[1][2], values[2][2] * 256 + values[3][2]>>

DataOf(w) ==
    LET values == [i \in 1 .. Len(w) - 1 |-> Number[w[i + 1]]]
    IN  IF {w[i] : i \in 2 .. Len(w)} \subseteq DOMAIN Number /\ Fits(w, values)
        THEN Result(TRUE, <<>>, <<Packed(values)>>, NoLabel) ELSE Refused

(* An if whose operand is wrong has its code appended, and fails.          *)
If(cond, w) ==
    LET m == getMatchMask(SubSeq(w, 3, 4))
    IN  IF Len(w) # 4 \/ w[2] \notin DOMAIN ifMap THEN Refused
        ELSE Result(m.ok, <<Plain(cond, OP_COND, ifMap[w[2]], m)>>, <<>>, NoLabel)

List(cond, w) ==
    LET m == getMatchMask(SubSeq(w, 3, Len(w)))
        none == [a |-> IR_CONST_0, b |-> IR_CONST_0, imms |-> <<>>]
    IN  CASE Len(w) = 2 /\ w[2] \in {"all", "not", "next"} ->
                 Codes(<<Plain(cond, OP_CAPP, listMap[w[2]], none)>>)
          [] Len(w) > 2 /\ w[2] \in {"of", "only", "write", "first"} /\ m.ok ->
                 Codes(<<Plain(cond, OP_CAPP, listMap[w[2]], m)>>)
          [] OTHER -> Refused

Coproc(cond, w) ==
    LET m == getMatchMask(SubSeq(w, 3, Len(w)))
    IN  IF Len(w) < 3 \/ ~m.ok THEN Refused
        ELSE Codes(<<Plain(cond, OP_COPROC, getCoproc(w[2]), m)>>)

(* An await has a register, or nothing, to put the answer into.            *)
Io(cond, w) ==
    LET arg == irOrImm(SubSeq(w, 4, Len(w)))
    IN  IF \/ Len(w) < 3 \/ w[2] \notin DOMAIN ioMap \/ ~IsChannel(w[3]) \/ ~arg.ok
           \/ w[2] = "await" /\ ~(arg.ir = IR_CONST_FFFFFFFF \/ Writable(arg.ir))
        THEN Refused
        ELSE Codes(<<Plain(cond, OP_IO, ioMap[w[2]],
                           [a |-> getChannel(w[3]), b |-> arg.ir, imms |-> arg.imms])>>)

(* Mutant of Jump: with room for an address of 16 bits only.               *)
Jump_16(cond) == Alu(cond, "set", IR_IP, IR_IMMEDIATE_16, <<0>>)

(* A jump whose address Link fills in.                                     *)
Jump(cond) == Alu(cond, "set", IR_IP, IR_IMMEDIATE_32, <<0, 0>>)

(* The address behind the call is put on the stack: 1, and then the ip     *)
(* behind the addition added to it.                                        *)
Call(cond, jump) == <<Alu(cond, "set", IR_STACK, IR_IMMEDIATE_16, <<1>>),
                      Alu(cond, "add", IR_STACK, IR_IP, <<>>), jump>>

Flow(cond, w) ==
    LET arg == irOrImm(SubSeq(w, 2, Len(w)))
    IN  CASE w[1] = "call" /\ Len(w) = 2 ->
                 Result(TRUE, Call(cond, Jump(cond)), <<>>, w[2])
          [] w[1] = "jump" /\ Len(w) = 2 -> Result(TRUE, <<Jump(cond)>>, <<>>, w[2])
          [] w[1] = "vcall" /\ Len(w) >= 2 /\ arg.ok ->
                 Codes(Call(cond, Alu(cond, "set", IR_IP, arg.ir, arg.imms)))
          [] w[1] = "exit" -> Codes(<<Alu(cond, "set", IR_IP, IR_CONST_FFFFFFFF, <<>>)>>)
          [] OTHER -> Refused

AluOf(cond, w) ==
    LET arg == irOrImm(SubSeq(w, 4, 4))
    IN  IF Len(w) # 4 \/ w[2] \notin DOMAIN aluMap \/ w[3] \notin DOMAIN dstMap \/ ~arg.ok
        THEN Refused ELSE Codes(<<Alu(cond, w[2], dstMap[w[3]], arg.ir, arg.imms)>>)

(* A statement is a condition or none, and one of these.                   *)
parseWords(words) ==
    LET conditional == words[1] \in DOMAIN condMap
        cond == IF conditional THEN condMap[words[1]] ELSE COND_ALWAYS
        w == Substituted(IF conditional THEN Tail(words) ELSE words)
    IN  CASE w[1] \in {".dl", ".dw", ".db"} -> DataOf(w)
          [] w[1] = "if"     -> If(cond, w)
          [] w[1] = "list"   -> List(cond, w)
          [] w[1] = "coproc" -> Coproc(cond, w)
          [] w[1] = "io"     -> Io(cond, w)
          [] w[1] = "alu"    -> AluOf(cond, w)
          [] OTHER           -> Flow(cond, w)

-----------------------------------------------------------------------------
(* Where a Parse is.                                                       *)

Top == Last(frames)
Outer == Front(frames)
Advanced == Append(Outer, [Top EXCEPT !.next = @ + 1])

FileFrame(path) == [in |-> "file", name |-> path, next |-> 1, macro |-> NoMacro]
MacroFrame(name, equates) ==
    [in |-> "macro", name |-> name, next |-> 1, macro |-> NoMacro, saved |-> equates]

Parsing == frames # <<>>
InMacro == Top.in = "macro"
Lines == IF InMacro THEN Macro[Top.name].lines ELSE source[Top.name]
Line == Lines[Top.next]
LineNo == IF InMacro THEN Macro[Top.name].line + Top.next - 1 ELSE Top.next

At(kind) == Parsing /\ Top.next =< Len(Lines) /\ Line.is = kind

(* A line to parse, rather than to collect.                                *)
AtText == At("text") /\ Top.macro = NoMacro

(* The equates before the outermost of the macros in progress.             *)
BeforeMacros == frames[Min({i \in DOMAIN frames : frames[i].in = "macro"})].saved

(* Mutant of Fail: the assembler stays ready.                              *)
Fail_ready(e, equates) ==
    /\ err' = e /\ frames' = <<>> /\ failed' = TRUE
    /\ Equate' = IF InMacro THEN BeforeMacros ELSE equates
    /\ UNCHANGED <<input, ready, parses, prog, fileEquate>>

(* Every Parse in progress returns the error, and every macro puts the     *)
(* equates back, the outermost last.                                       *)
Fail(e, equates) ==
    /\ err' = e /\ frames' = <<>> /\ failed' = TRUE
    /\ ready' = FALSE
    /\ Equate' = IF InMacro THEN BeforeMacros ELSE equates
    /\ UNCHANGED <<input, parses, prog, fileEquate>>

Proceed == UNCHANGED <<input, ready, err, prog, parses, failed>>

(* What is put under keys that are not there yet.                          *)
Extended(f, keys, value) ==
    [k \in DOMAIN f \cup keys |-> IF k \in DOMAIN f THEN f[k] ELSE value]

-----------------------------------------------------------------------------
(* Parse: the lines that are not parsed as text.                           *)

Include == /\ At("include")
           /\ IF Line.path \in DOMAIN source
              THEN /\ frames' = Append(Advanced, FileFrame(Line.path))
                   /\ Proceed /\ UNCHANGED names
              ELSE Fail("ErrNotExist", Equate)
           /\ UNCHANGED <<code, Macro, data>>

MacroBegin ==
    LET macro == [line |-> Top.next + 1, args |-> Line.args, lines |-> <<>>]
    IN  /\ At("macro")
        /\ IF Top.macro # NoMacro \/ Line.name \in DOMAIN Macro
           THEN Fail("ErrMacroDuplicate", Equate) /\ UNCHANGED Macro
           ELSE /\ Macro' = Extended(Macro, {Line.name}, macro)
                /\ frames' = Append(Outer, [Top EXCEPT !.next = @ + 1, !.macro = Line.name])
                /\ Proceed /\ UNCHANGED names
        /\ UNCHANGED <<code, data>>

MacroEnd == /\ At("endm")
            /\ IF Top.macro = NoMacro THEN Fail("ErrMacroLonelyEndm", Equate)
               ELSE /\ frames' = Append(Outer, [Top EXCEPT !.next = @ + 1, !.macro = NoMacro])
                    /\ Proceed /\ UNCHANGED names
            /\ UNCHANGED <<code, Macro, data>>

Collect == /\ At("text") /\ ~AtText
           /\ Macro' = [Macro EXCEPT ![Top.macro].lines = Append(@, Line)]
           /\ frames' = Advanced
           /\ Proceed /\ UNCHANGED <<code, names, data>>

EndFile == /\ Parsing /\ ~InMacro /\ Top.next > Len(Lines)
           /\ IF Top.macro # NoMacro THEN Fail("ErrMacroLonely", Equate)
              ELSE frames' = Outer /\ Proceed /\ UNCHANGED names
           /\ UNCHANGED <<code, Macro, data>>

(* Mutant of EndMacro: only LINENO is put back.                            *)
EndMacro_leaves == /\ Parsing /\ InMacro /\ Top.next > Len(Lines)
                   /\ frames' = Outer
                   /\ Equate' = [Equate EXCEPT !["LINENO"] = Top.saved["LINENO"]]
                   /\ Proceed /\ UNCHANGED <<code, Macro, data, fileEquate>>

(* The equates are again what they were when the macro was called.         *)
EndMacro == /\ Parsing /\ InMacro /\ Top.next > Len(Lines)
            /\ frames' = Outer
            /\ Equate' = Top.saved
            /\ Proceed /\ UNCHANGED <<code, Macro, data, fileEquate>>

-----------------------------------------------------------------------------
(* parseLine, and parseWords after it.                                     *)

(* The line's own names: of a macro's line, with @ replaced by what tells  *)
(* the macro and the line.                                                 *)
Named(seq) == IF InMacro THEN [i \in DOMAIN seq |-> Local(Top.name, LineNo, seq[i])] ELSE seq

Numbered == [Equate EXCEPT !["LINENO"] = Numeral(LineNo)]

(* The expressions, which know the equates that are numbers.               *)
IsExpr(word) == word \in DOMAIN Expr
Evaluable == \A i \in DOMAIN Line.words : IsExpr(Line.words[i]) =>
                 LET e == Expr[Line.words[i]]
                 IN  e.name \in DOMAIN Numbered /\ Numbered[e.name] \in DOMAIN e.value
Evaluated == [i \in DOMAIN Line.words |->
                 IF IsExpr(Line.words[i])
                 THEN LET e == Expr[Line.words[i]] IN e.value[Numbered[e.name]]
                 ELSE Named(Line.words)[i]]

(* The equates are put in, once.                                           *)
Words == [i \in DOMAIN Line.words |-> IF Evaluated[i] \in DOMAIN Numbered
                                      THEN Numbered[Evaluated[i]] ELSE Evaluated[i]]

IsEqu == Line.labels = <<>> /\ Line.words # <<>> /\ Line.words[1] = ".equ"

NotEvaluable == /\ AtText /\ ~Evaluable
                /\ Fail("ErrParseExpression", Numbered)
                /\ UNCHANGED <<code, Macro, data>>

Equ == /\ AtText /\ Evaluable /\ IsEqu
       /\ IF Len(Evaluated) # 3 \/ Evaluated[2] \in DOMAIN Numbered
          THEN Fail("ErrEquate", Numbered)
          ELSE /\ Equate' = Extended(Numbered, {Evaluated[2]}, Evaluated[3])
               /\ fileEquate' = IF InMacro THEN fileEquate
                                ELSE Extended(fileEquate, {Evaluated[2]}, Evaluated[3])
               /\ frames' = Advanced
               /\ Proceed
       /\ UNCHANGED <<code, Macro, data>>

Statement == AtText /\ Evaluable /\ ~IsEqu

(* The labels of the line, up to the first that there is already.          *)
Defined == Named(Line.labels)
Duplicates == {j \in DOMAIN Defined : \/ Defined[j] \in DOMAIN Label
                                       \/ \E i \in 1 .. j - 1 : Defined[i] = Defined[j]}
DuplicateLabel == Duplicates # {}
Fresh == {Defined[i] : i \in {i \in DOMAIN Defined : \A j \in Duplicates : i < j}}

(* Mutant of currentIp: a statement is one code.                           *)
currentIp_ones == Len(Opcodes)

(* The address behind the last code there is.                              *)
currentIp == IF Opcodes = <<>> THEN 0 ELSE Last(Opcodes).ip + Len(Last(Opcodes).codes)

DefineLabels ==
    /\ Label' = Extended(Label, Fresh, currentIp)
    /\ target' = Extended(target, Fresh, Len(Opcodes) + 1)

LabelTwice == /\ Statement /\ DuplicateLabel
              /\ DefineLabels
              /\ Fail("ErrLabelDuplicate", Numbered)
              /\ UNCHANGED <<Opcodes, Macro, data>>

LabelOnly == /\ Statement /\ ~DuplicateLabel /\ Line.words = <<>>
             /\ DefineLabels
             /\ Equate' = Numbered
             /\ frames' = Advanced
             /\ Proceed /\ UNCHANGED <<Opcodes, Macro, data, fileEquate>>

(* The arguments are equates while the macro's lines are parsed.           *)
CallMacro ==
    LET macro == Macro[Words[1]]
    IN  /\ Statement /\ ~DuplicateLabel /\ Line.words # <<>> /\ Words[1] \in DOMAIN Macro
        /\ DefineLabels
        /\ IF Len(Words) - 1 # Len(macro.args) THEN Fail("ErrMacroSyntax", Numbered)
           ELSE /\ Equate' = [n \in Range(macro.args) |->
                                Words[1 + CHOOSE i \in DOMAIN macro.args :
                                              /\ macro.args[i] = n
                                              /\ \A j \in DOMAIN macro.args :
                                                     macro.args[j] = n => j =< i]] @@ Numbered
                /\ frames' = Append(Advanced, MacroFrame(Words[1], Numbered))
                /\ Proceed /\ UNCHANGED fileEquate
        /\ UNCHANGED <<Opcodes, Macro, data>>

(* Go's append: in place when the array has room, or into one twice the    *)
(* size with the old words copied (two words for the first).               *)
AppendData(value) ==
    LET full == Data.array = 0 \/ (Data.array # 0 /\ Data.len = Len(heap[Data.array]))
        old(i) == heap[Data.array][i]
        grown == [i \in 1 .. IF Data.len = 0 THEN 2 ELSE 2 * Data.len |->
                    IF i =< Data.len THEN old(i) ELSE IF i = Data.len + 1 THEN value ELSE <<0, 0>>]
    IN  /\ heap' = IF full THEN Append(heap, grown)
                           ELSE [heap EXCEPT ![Data.array][Data.len + 1] = value]
        /\ Data' = [array |-> IF full THEN Len(heap) + 1 ELSE Data.array, len |-> Data.len + 1]
        /\ written' = Append(written, value)
        /\ reused' = TRUE

Emit ==
    LET s == parseWords(Words)
    IN  /\ Statement /\ ~DuplicateLabel /\ Line.words # <<>> /\ Words[1] \notin DOMAIN Macro
        /\ DefineLabels
        /\ Opcodes' = IF s.codes = <<>> THEN Opcodes
                      ELSE Append(Opcodes, [ip |-> currentIp, codes |-> s.codes, label |-> s.label])
        /\ IF s.data = <<>> THEN UNCHANGED data ELSE AppendData(s.data[1])
        /\ IF s.ok THEN /\ Equate' = Numbered /\ frames' = Advanced
                        /\ Proceed /\ UNCHANGED fileEquate
                   ELSE Fail("ErrSyntax", Numbered)
        /\ UNCHANGED Macro

-----------------------------------------------------------------------------
(* The calls.                                                              *)

Idle == frames = <<>>

Predefine(equ, word) ==
    /\ Idle
    /\ predefine' = (equ :> word) @@ predefine
    /\ err' = "nil"
    /\ UNCHANGED <<source, ready, code, names, Macro, data, frames, prog, parses, failed>>

(* Mutant of Clear: the data words stay.                                   *)
Clear_data == /\ Idle
              /\ ready' = TRUE
              /\ Opcodes' = <<>> /\ Label' = <<>> /\ target' = <<>>
              /\ Macro' = <<>>
              /\ Equate' = predefine @@ sysEquate /\ fileEquate' = Equate'
              /\ written' = <<>>
              /\ err' = "nil" /\ parses' = 0 /\ failed' = FALSE
              /\ UNCHANGED <<input, heap, Data, reused, frames, prog>>

(* The array of the data words is kept, for the next ones.                 *)
Clear == /\ Idle
         /\ ready' = TRUE
         /\ Opcodes' = <<>> /\ Label' = <<>> /\ target' = <<>>
         /\ Macro' = <<>>
         /\ Equate' = predefine @@ sysEquate /\ fileEquate' = Equate'
         /\ Data' = [Data EXCEPT !.len = 0] /\ written' = <<>>
         /\ err' = "nil" /\ parses' = 0 /\ failed' = FALSE
         /\ UNCHANGED <<input, heap, reused, frames, prog>>

Parse(path) ==
    /\ Idle /\ parses < MaxParses
    /\ IF ready THEN frames' = <<FileFrame(path)>> /\ err' = "nil"
                ELSE frames' = frames /\ err' = "ErrAssemblerNotReady"
    /\ parses' = parses + 1
    /\ UNCHANGED <<input, ready, code, names, Macro, data, prog, failed>>

(* An address as two immediates.                                           *)
Halved(ip) == <<(ip \div 65536) % 65536, ip % 65536>>

(* Mutant of Linked: the first code of a statement is linked, not the last.*)
Linked_first(op) == IF op.label = NoLabel THEN op
                    ELSE [op EXCEPT !.codes[1].imms = Halved(Label[op.label])]

(* The address goes into the immediates of the last code of the statement. *)
Linked(op) == IF op.label = NoLabel THEN op
              ELSE [op EXCEPT !.codes[Len(op.codes)].imms = Halved(Label[op.label])]

(* The statements that Link cannot fill in: it stops at the first.  The    *)
(* ones before it are filled in, in the assembler itself.                  *)
Missing == {i \in DOMAIN Opcodes : Opcodes[i].label \notin DOMAIN Label \cup {NoLabel}}

(* The assembler has to be cleared before it is used again.  Program and   *)
(* assembler share the array of the data words.                            *)
Link == /\ Idle
        /\ ready' = FALSE
        /\ Opcodes' = [i \in DOMAIN Opcodes |-> IF ready /\ \A j \in Missing : i < j
                                              THEN Linked(Opcodes[i]) ELSE Opcodes[i]]
        /\ IF ready /\ Missing = {}
           THEN /\ prog' = [opcodes |-> Opcodes', data |-> Data,
                            target |-> target, written |-> written]
                /\ reused' = FALSE /\ err' = "nil"
           ELSE /\ err' = IF ready THEN "ErrLabelMissing" ELSE "ErrAssemblerNotReady"
                /\ UNCHANGED <<prog, reused>>
        /\ UNCHANGED <<input, Label, target, names, Macro, heap, Data, written, frames, parses, failed>>

Init == /\ source \in Sources /\ predefine = <<>>
        /\ ready = FALSE /\ Opcodes = <<>> /\ Label = <<>> /\ target = <<>>
        /\ Equate = <<>> /\ fileEquate = <<>> /\ Macro = <<>>
        /\ heap = <<>> /\ Data = [array |-> 0, len |-> 0] /\ written = <<>> /\ reused = FALSE
        /\ frames = <<>> /\ err = "nil" /\ prog = NoProgram /\ parses = 0 /\ failed = FALSE

(* The next line of the Parse in progress.                                 *)
Step == \/ Include \/ MacroBegin \/ MacroEnd \/ Collect \/ EndFile \/ EndMacro
        \/ NotEvaluable \/ Equ \/ LabelTwice \/ LabelOnly \/ CallMacro \/ Emit

Next == \/ Step \/ Clear \/ Link
        \/ \E path \in DOMAIN source : Parse(path)
        \/ \E d \in Predefines : Predefine(d[1], d[2])

Spec == Init /\ [][Next]_vars

-----------------------------------------------------------------------------
(* Properties.                                                             *)

CodeOK(c) == /\ c.word \in Halves16 /\ c.imms \in Seq(Halves16) /\ Len(c.imms) =< 4
             /\ c.instr \in Instructions
OpcodeOK(op) == /\ op.ip \in Nat /\ op.codes # <<>>
                /\ \A c \in DOMAIN op.codes : CodeOK(op.codes[c])
                /\ op.label # NoLabel => Len(Last(op.codes).imms) = 2

(* The state is as the declarations of the code say, and what the code     *)
(* only checks at run time: a statement that waits for a label ends in a   *)
(* code with the two immediates that Link fills in (the errors "unable to  *)
(* link" and "missing immediates" of Link never come), and the slice of    *)
(* the data words lies within its array.                                   *)
TypeOK == /\ ready \in BOOLEAN /\ failed \in BOOLEAN /\ reused \in BOOLEAN
          /\ parses \in 0 .. MaxParses
          /\ \A i \in DOMAIN Opcodes : OpcodeOK(Opcodes[i])
          /\ DOMAIN Label = DOMAIN target
          /\ \A i \in DOMAIN frames : frames[i].in = "macro" => frames[i].name \in DOMAIN Macro
          /\ Data.array \in 0 .. Len(heap)
          /\ Data.len =< IF Data.array = 0 THEN 0 ELSE Len(heap[Data.array])

(* The addresses count the codes: each statement begins where the one      *)
(* before it ends, whatever macros, includes and labels come between.      *)
AddressesContinue ==
    \A i \in DOMAIN Opcodes :
        Opcodes[i].ip = IF i = 1 THEN 0 ELSE Opcodes[i - 1].ip + Len(Opcodes[i - 1].codes)

(* Where the n-th statement of a program begins, or its end.               *)
AddressOf(opcodes, n) ==
    IF n =< Len(opcodes) THEN opcodes[n].ip
    ELSE IF opcodes = <<>> THEN 0 ELSE Last(opcodes).ip + Len(Last(opcodes).codes)

(* Every jump and call of a linked program goes to the first code of the   *)
(* statement that follows its label in the text, or to the program's end.  *)
JumpsLand ==
    prog # NoProgram =>
        \A i \in DOMAIN prog.opcodes : LET op == prog.opcodes[i] IN
            op.label # NoLabel =>
                /\ op.label \in DOMAIN prog.target
                /\ Last(op.codes).imms = Halved(AddressOf(prog.opcodes, prog.target[op.label]))

(* Program.Binary: a cell for each immediate and then for the word, with   *)
(* the address of the code, of 16 bits, as its key.  The data words, which *)
(* FetchCode does not look at, come behind them.                           *)
CellsOf(ip, c) == [n \in 1 .. Len(c.imms) + 1 |->
                       [ip |-> ip % 65536, low |-> IF n =< Len(c.imms) THEN c.imms[n] ELSE c.word]]
CellsOfOpcode(op) == FlattenSeq([c \in DOMAIN op.codes |-> CellsOf(op.ip + c - 1, op.codes[c])])
Binary(p) == FlattenSeq([i \in DOMAIN p.opcodes |-> CellsOfOpcode(p.opcodes[i])])

(* What FetchCode needs of the cells with the address ip: they are one     *)
(* instruction, the last of them is its word, the others are the           *)
(* immediates that the word calls for, in order, and the fields of the     *)
(* word are those of the statement.                                        *)
FetchesFrom(cells, ip, c) ==
    LET found == {k \in DOMAIN cells : cells[k].ip = ip} IN
    \E last \in found :
        LET word == cells[last].low
            need == ImmediateNeed(word)
        IN  /\ found = last - need .. last
            /\ Decode(word) = c.instr
            /\ [n \in 1 .. need |-> cells[last - need + n - 1].low] = c.imms

(* FetchCode matches 14 bits of an address.                                *)
Addresses == 16384

(* The CPU gets back what was assembled, from every address of a program   *)
(* that is no longer than FetchCode can tell the addresses apart.          *)
ProgramFetches ==
    prog # NoProgram /\ AddressOf(prog.opcodes, Len(prog.opcodes) + 1) =< Addresses =>
        LET cells == Binary(prog) IN
        \A i \in DOMAIN prog.opcodes : \A c \in DOMAIN prog.opcodes[i].codes :
            FetchesFrom(cells, prog.opcodes[i].ip + c - 1, prog.opcodes[i].codes[c])

(* Macros are hygienic: when a macro returns, and between calls, the       *)
(* equates are those that the lines of the files have defined; neither its *)
(* arguments nor its own equates stay, not even when one of its lines is   *)
(* refused or it is called from another.                                   *)
MacroHygiene ==
    ~(Parsing /\ InMacro) =>
        LET Names == DOMAIN Equate \cup DOMAIN fileEquate
        IN  \A n \in Names \ {"LINENO"} : /\ n \in DOMAIN Equate /\ n \in DOMAIN fileEquate
                                           /\ Equate[n] = fileEquate[n]

(* No program comes out of a text of which a part was refused: after a     *)
(* Parse that failed, however deep in includes and macros, nothing links   *)
(* until the assembler is cleared.                                         *)
NoHalfProgram == [][prog' # prog => ready /\ ~failed]_vars

(* A program has the data words of the text it was linked from, for as     *)
(* long as the assembler, with which it shares the array, parses no data   *)
(* after it.                                                               *)
DataAsWritten ==
    prog # NoProgram /\ ~reused =>
        /\ prog.data.len = Len(prog.written)
        /\ \A i \in 1 .. prog.data.len : heap[prog.data.array][i] = prog.written[i]
=============================================================================
