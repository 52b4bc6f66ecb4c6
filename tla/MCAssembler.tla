---------------------------- MODULE MCAssembler -----------------------------
(* A program with every form of statement; a program of each statement     *)
(* alone, the refused ones included; and programs of parts that define and *)
(* use labels, equates, data words, a second file and macros: every two of *)
(* these parts, every three of those with macros.                          *)
EXTENDS Assembler

T(words) == [is |-> "text", labels |-> <<>>, words |-> words]
L(label, words) == [is |-> "text", labels |-> <<label>>, words |-> words]
MacroLine(name, args) == [is |-> "macro", name |-> name, args |-> args]
EndmLine == [is |-> "endm"]
IncludeLine(path) == [is |-> "include", path |-> path]

MCNumber == "0" :> <<0, 0>> @@ "1" :> <<0, 1>> @@ "2" :> <<0, 2>> @@ "3" :> <<0, 3>> @@ "4" :> <<0, 4>>
            @@ "5" :> <<0, 5>> @@ "8" :> <<0, 8>> @@ "70" :> <<0, 70>> @@ "300" :> <<0, 300>>
            @@ "65535" :> <<0, 65535>> @@ "0x12345" :> <<1, 9029>> @@ "0x50000" :> <<5, 0>>
            @@ "~0" :> <<65535, 65535>> @@ "4294967295" :> <<65535, 65535>>
            @@ "0x0" :> <<0, 0>> @@ "0x6" :> <<0, 6>> @@ "0x10000" :> <<1, 0>>
MCNumeral(n) == ToString(n)
MCExpr == "$(n+1)" :> [name |-> "n", value |-> "5" :> "0x6" @@ "65535" :> "0x10000"]
          @@ "$(LINENO-1)" :> [name |-> "LINENO", value |-> "1" :> "0x0"]
MCLocal(macro, lineno, word) ==
    IF word = "@l" THEN macro \o "_" \o ToString(lineno) \o "_l" ELSE word
MCPredefines == {<<"p", "r3">>}
MCsysEquate == [LINENO |-> "0", CAPP_FREE |-> "4294967295"]

Good == <<
    <<"write", "r1", "p">>, <<"alu", "set", "r0", "$(LINENO-1)">>, <<"io", "fetch", "temp", "LINENO">>,
    <<"write", "list", "5", "0x12345">>, <<"write", "first", "r0">>,
    <<"write", "r1", "~0">>, <<"if", "some?">>, <<"if", "none?">>, <<"if", "true?", "r2">>,
    <<"if", "false?", "5">>, <<"if", "eq?", "0x50000", "300">>, <<"-", "list", "all">>,
    <<"+", "list", "not">>, <<"list", "next">>, <<"list", "of", "CAPP_FREE">>,
    <<"list", "only", "first", "0x12345">>, <<"list", "write", "match", "mask">>,
    <<"list", "first", "5", "5">>, <<"trap">>, <<"fetch", "tape", "5">>, <<"store", "4", "r1">>,
    <<"+", "await", "vt", "r2">>, <<"await", "depot">>, <<"alert", "monitor", "0x12345">>,
    <<"return">>, <<"vjump", "r0">>, <<"vjump", "0x12345">>,
    <<"vcall", "stack">>, <<"-", "vcall", "5">>, <<"exit">>, <<"alu", "add", "r3", "ip">>,
    <<"alu", "set", "stack", "65535">>, <<"coproc", "cp3", "5", "0x12345">>,
    <<"coproc", "cp9", "5">>, <<".dl", "0x12345">>, <<".dw", "70">>, <<".db", "1">>,
    <<".db", "1", "2">>, <<".db", "1", "2", "3">>>>

Refusable == {
    <<"write", "5", "5">>, <<"if", "eq?", "r0">>, <<"if", "foo?", "r0", "5">>,
    <<"if", "eq?", "zz", "5">>, <<"if", "eq?", "5", "zz">>, <<"list">>, <<"list", "foo", "5">>,
    <<"list", "all", "5">>, <<"list", "of">>, <<"list", "of", "zz">>, <<"list", "of", "5", "5", "5">>,
    <<"coproc", "cp0">>, <<"coproc", "cp0", "zz">>, <<"io", "fetch">>, <<"io", "fetch", "8", "5">>,
    <<"io", "fetch", "zz", "5">>, <<"io", "foo", "tape", "5">>, <<"await", "tape", "5">>,
    <<"fetch", "tape", "zz">>, <<"fetch", "tape", "5", "5">>, <<"call">>, <<"call", "a", "b">>,
    <<"vcall">>, <<"vcall", "zz">>, <<"return", "5">>, <<"vjump">>, <<"alu">>,
    <<"alu", "foo", "r0", "5">>, <<"alu", "set", "match", "5">>, <<"alu", "set", "r0", "zz">>,
    <<"alu", "set", "r0", "5", "5">>, <<".dl">>, <<".dl", "~0">>, <<".dw", "0x12345">>,
    <<".db", "300">>, <<".db", "1", "2", "3", "4">>, <<".db", "zz">>, <<"foo">>, <<".equ", "x">>,
    <<".equ", "LINENO", "5">>, <<"$(n+1)">>, <<"call", "nowhere">>}

(* Every statement, and every way for labels, equates, macros and includes *)
(* to come between them.                                                   *)
Whole ==
    <<MacroLine("twice", <<"op", "n">>),
        T(<<".equ", "m", "0x12345">>),
        T(<<"alu", "op", "r0", "n">>),
        T(<<"alu", "op", "r1", "m">>),
        T(<<"alu", "op", "r2", "$(n+1)">>),
      EndmLine,
      MacroLine("outer", <<"x">>),
        IncludeLine("other"),
        T(<<"twice", "add", "x">>),
        L("@l", <<"-", "jump", "@l">>),
        T(<<"call", "sub1">>),
      EndmLine,
      T(<<".equ", "seventy", "70">>),
      L("start", <<"outer", "5">>),
      T(<<"list", "of", "seventy", "0x50000">>),
      T(<<"twice", "xor", "65535">>),
      [is |-> "text", labels |-> <<"sub1", "sub2">>, words |-> <<"vcall", "0x12345">>],
      T(<<".dl", "1">>), T(<<".dw", "2">>), T(<<".db", "3", "4", "5">>),
      T(<<"+", "jump", "start">>), T(<<"jump", "end">>), L("end", <<>>)>>
    \o [i \in 1 .. Len(Good) - 3 |-> T(Good[i + 3])]

Parts == {
    <<L("a", <<"alu", "set", "r0", "v">>)>>, <<T(<<"call", "a">>)>>, <<T(<<"jump", "a">>)>>,
    <<L("a", <<>>)>>, <<T(<<".equ", "v", "5">>)>>, <<T(<<".dw", "1">>)>>, <<IncludeLine("other")>>,
    <<T(<<"mac", "5">>)>>, <<MacroLine("mac", <<>>)>>, <<EndmLine>>}

Macros == {
    <<MacroLine("mac", <<"v">>), L("a", <<".dw", "v">>), EndmLine>>,
    <<MacroLine("mac", <<"v", "u">>), T(<<"alu", "set", "u", "v">>), L("a", <<>>), EndmLine>>,
    <<MacroLine("out", <<"w">>), T(<<".equ", "v", "70">>), T(<<"mac", "w">>), EndmLine>>,
    <<T(<<"out", "v">>)>>, <<T(<<"mac", "v", "r1">>)>>, <<T(<<".equ", "v", "3">>)>>}

Other == <<T(<<".db", "2">>), T(<<"exit">>)>>

MCSources ==
    {[main |-> Whole, other |-> Other]}
    \cup {[main |-> <<T(w)>>] : w \in Range(Good) \cup Refusable}
    \cup {[main |-> <<IncludeLine("nofile")>>]}
    \cup {[main |-> p[1] \o p[2], other |-> Other] : p \in (Parts \cup Macros) \X (Parts \cup Macros)}
    \cup {[main |-> p[1] \o p[2] \o p[3], other |-> Other] : p \in Macros \X Macros \X Macros}
=============================================================================
