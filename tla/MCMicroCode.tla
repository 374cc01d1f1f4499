------------------------------- MODULE MCMicroCode -------------------------------
(***************************************************************************)
(* Programs in uCode for TLC.  A program is a structured one: definitions  *)
(* of words by operations, conditionals and loops.  What it means is       *)
(* computed over stacks of any depth, from its structure; its text is what *)
(* is compiled and run.                                                    *)
(***************************************************************************)
EXTENDS MicroCode

(* The text of a program.                                                  *)
W(w) == <<"word", w>>
N(n) == <<"num", n>>
Join(seqs) == FoldLeft(\o, <<>>, seqs)

Given(r, Op(_)) == CHOOSE v \in {Op(s) : s \in {r}} : TRUE     \* r, computed once

RECURSIVE Spelled(_)
SpelledAll(body) == Join([i \in DOMAIN body |-> Spelled(body[i])])
Spelled(given) == Given(given, LAMBDA item :
    CASE item[1] = "num" -> <<item>>
      [] item[1] = "word" -> <<item>>
      [] item[1] = "if" -> <<W("IF")>> \o SpelledAll(item[2]) \o <<W("THEN")>>
      [] item[1] = "either" ->
            <<W("IF")>> \o SpelledAll(item[2]) \o <<W("ELSE")>> \o SpelledAll(item[3]) \o <<W("THEN")>>
      [] item[1] = "until" -> <<W("BEGIN")>> \o SpelledAll(item[2]) \o <<W("UNTIL")>>
      [] item[1] = "while" ->
            <<W("BEGIN")>> \o SpelledAll(item[2]) \o <<W("WHILE")>> \o SpelledAll(item[3]) \o <<W("REPEAT")>>
      [] item[1] = "down" -> <<W("?LOOP-")>> \o SpelledAll(item[2]) \o <<W("AGAIN")>>
      [] item[1] = "up" -> <<W("?LOOP+")>> \o SpelledAll(item[2]) \o <<W("AGAIN")>>
      [] item[1] = "skip" -> <<W("SKZ")>> \o Spelled(item[2])
      [] item[1] = "get" -> <<W(item[2]), W("@")>>
      [] item[1] = "put" -> <<W(item[2]), W("!")>>)

Def(name, given) == Given(given, LAMBDA body :
    [name |-> name, body |-> body,
     text |-> <<W(":"), W(name)>> \o SpelledAll(body) \o <<W(";")>>])
DefAs(name, body, tokens) == [name |-> name, body |-> body, text |-> tokens]
Var(name) == [name |-> "", body |-> <<>>, text |-> <<W("VARIABLE"), W(name)>>]
Const(name, n) == DefAs(name, <<N(n)>>, <<N(n), W("CONSTANT"), W(name)>>)

(* What a program means: the data stack, the counters of the loops it is   *)
(* in, memory, input and output.                                           *)
Machine(s, m) == [m EXCEPT !.s = s]
SixteenBits(n) == n % 65536
Signed(n) == IF n >= 32768 THEN n - 65536 ELSE n
Operation(w, m) ==
    LET s == m.s
        a == s[1]
        b == s[2]
        One(v) == Machine(<<v>> \o Tail(s), m)
        Two(v) == Machine(<<v>> \o SubSeq(s, 3, Len(s)), m)
        Bank(name) == IF name \in {"QX!", "QX@"} THEN "x" ELSE "gcc"
    IN  CASE w = "NOP" -> m
          [] w = "DROP" -> Machine(Tail(s), m)
          [] w = "DUP" -> Machine(<<a>> \o s, m)
          [] w = "SWAP" -> Machine(<<b, a>> \o SubSeq(s, 3, Len(s)), m)
          [] w = "OVER" -> Machine(<<b>> \o s, m)
          [] w = "ROT" -> Machine(<<s[3], a, b>> \o SubSeq(s, 4, Len(s)), m)
          [] w = "-ROT" -> Machine(<<b, s[3], a>> \o SubSeq(s, 4, Len(s)), m)
          [] w = "+" -> Two(SixteenBits(a + b))
          [] w = "-" -> Two(SixteenBits(b - a))
          [] w = "*" -> Two(SixteenBits(a * b))
          [] w = "1+" -> One(SixteenBits(a + 1))
          [] w = "1-" -> One(SixteenBits(a - 1))
          [] w = "2*" -> One(SixteenBits(2 * a))
          [] w = "2/" -> One(SixteenBits(Signed(a) \div 2))
          [] w = "4ASR" -> One(SixteenBits(Signed(a) \div 16))
          [] w = "4ROL" -> One(SixteenBits(a * 16) + a \div 4096)
          [] w = "NEGATE" -> One(SixteenBits(-a))
          [] w = "INVERT" -> One(65535 - a)
          [] w = "LSB&" -> One(a % 2)
          [] w = "MSB|" -> One(IF a < 32768 THEN a + 32768 ELSE a)
          [] w = "LOW3" -> One(a % 8)
          [] w = "EQUAL" -> Two(IF a = b THEN 65535 ELSE 0)
          [] w = "-1" -> Machine(<<65535>> \o s, m)
          [] w = "0" -> Machine(<<0>> \o s, m)
          [] w = "1" -> Machine(<<1>> \o s, m)
          [] w = "I" -> Machine(<<Head(m.loops)>> \o s, m)
          [] w = "EMIT" -> [m EXCEPT !.s = Tail(s), !.out = Append(@, a)]
          [] w = "KEY" -> [m EXCEPT !.s = <<Head(m.in)>> \o s, !.in = Tail(@)]
          [] w = "RESET" -> Machine(<<>>, m)
          [] w = "FAIL" -> m
          [] w \in {"QX!", "GCC!"} ->
                [m EXCEPT !.s = SubSeq(s, 3, Len(s)), !.mem = (<<Bank(w), a>> :> b) @@ @]
          [] w \in {"QX@", "GCC@"} -> One(m.mem[<<Bank(w), a>>])

RECURSIVE Does(_, _, _)
DoesAll(body, m, defs) == FoldLeft(LAMBDA st, item : Does(item, st, defs), m, body)
Popped(m) == Machine(Tail(m.s), m)
Does(given, before, defs) == Given(<<given, before>>, LAMBDA g : LET item == g[1] m == g[2] IN
    CASE item[1] = "num" -> Machine(<<SixteenBits(item[2])>> \o m.s, m)
      [] item[1] = "word" ->
            LET known == {i \in DOMAIN defs : defs[i].name = item[2]}
            IN  IF known # {} THEN DoesAll(defs[CHOOSE i \in known : TRUE].body, m, defs)
                ELSE Operation(item[2], m)
      [] item[1] = "if" -> IF m.s[1] = 0 THEN Popped(m) ELSE DoesAll(item[2], Popped(m), defs)
      [] item[1] = "either" -> DoesAll(item[IF m.s[1] = 0 THEN 3 ELSE 2], Popped(m), defs)
      [] item[1] = "until" ->
            LET n == DoesAll(item[2], m, defs)
            IN  IF n.s[1] = 0 THEN Does(item, Popped(n), defs) ELSE Popped(n)
      [] item[1] = "while" ->
            LET n == DoesAll(item[2], m, defs)
            IN  IF n.s[1] = 0 THEN Popped(n) ELSE Does(item, DoesAll(item[3], Popped(n), defs), defs)
      [] item[1] = "down" -> Does(<<"count", item[2], m.s[1], -1>>, Popped(m), defs)
      [] item[1] = "up" -> Does(<<"count", item[2], m.s[1], 1>>, Popped(m), defs)
      [] item[1] = "count" ->
            IF item[3] = 0 THEN m
            ELSE LET n == SixteenBits(item[3] + item[4])
                     turn == DoesAll(item[2], [m EXCEPT !.loops = <<n>> \o @], defs)
                 IN  Does(<<"count", item[2], n, item[4]>>, [turn EXCEPT !.loops = Tail(@)], defs)
      [] item[1] = "get" -> Machine(<<m.mem[<<item[2], 0>>]>> \o m.s, m)
      [] item[1] = "put" -> [m EXCEPT !.s = Tail(@), !.mem = (<<item[2], 0>> :> m.s[1]) @@ @]
      [] item[1] = "skip" -> IF m.s[1] = 0 THEN Popped(m) ELSE Does(item[2], Popped(m), defs))

-----------------------------------------------------------------------------
(* Words that the programs share.  Some fall into the next definition, as  *)
(* the source does; data may be laid down as code.                         *)
Panic == DefAs("PANIC!", <<>>, <<W(":"), W("PANIC!"), W("FAIL"), W("PANIC!"), W(";")>>)
Equal == DefAs("=", <<W("EQUAL")>>,
               <<W(":"), W("="), W("("), W("a"), W("("), W("b"), W(")"), W(")"), W("XOR"), W(":"), W("0="),
                 W("IF"), W("FALSE"), W("ELSE"), W("TRUE"), W("THEN"), W(";")>>)
Low3 == DefAs("LOW", <<W("LOW3")>>, <<W(":"), W("LOW"), N(7), W("AND"), W(";")>>)
Three == DefAs("THREE", <<N(3)>>,
               <<W(":"), W("THREE"), N(\h02D6), W(","), N(\h0311), W(","), N(\h5311), W(",")>>)
Emit == DefAs("emit", <<W("EMIT")>>,
              <<W(":"), W("TX?"), N(0), W("IO@"), W(";"), W(":"), W("emit"), W("BEGIN"), W("TX?"),
                W("UNTIL"), W(":"), W("TX!"), N(1), W("IO!"), W(";")>>)
KeyIn == DefAs("key", <<W("KEY")>>,
               <<W(":"), W("key"), W("BEGIN"), N(2), W("IO@"), W("UNTIL"), N(3), W("IO@"), W(";")>>)

Main(body) == Def("BOOT", body)
Ends(body, how) == DefAs("BOOT", body, <<W(":"), W("BOOT")>> \o SpelledAll(body) \o how)

(* The programs: their definitions, the last of them the entry.            *)
Structured == <<
    \* arithmetic, also past sixteen bits, and the words above
    <<Panic, Equal, Low3, Three,
      Main(<<N(40000), N(30000), W("+"), N(3), N(5), W("-"), W("OVER"), W("ROT"), W("2/"),
             W("4ASR"), W("-ROT"), W("SWAP"), N(257), W("*"), W("4ROL"), W("INVERT"), W("DUP"),
             W("LOW"), W("="), W("NEGATE"), W("THREE"), W("1-"), W("2*"), W("MSB|"), W("LSB&")>>)>>,
    \* conditionals in conditionals, with and without an alternative
    <<Panic, Equal,
      Def("sign", <<W("DUP"), <<"either", <<N(-3), W("="), <<"either", <<W("-1")>>, <<W("1")>> >> >>,
                               <<W("DROP"), W("0")>> >> >>),
      Def("pick", <<W("DUP"), <<"if", <<N(10), W("+"), <<"if", <<N(20)>> >> >> >> >>),
      Main(<<N(-3), W("sign"), N(9), W("sign"), N(0), W("sign"), N(1), W("pick"), N(0), W("pick"),
             N(-10), W("pick")>>)>>,
    \* indefinite loops, and a loop in a conditional in a loop
    <<Panic, Equal,
      Def("countdown", << <<"until", <<W("1-"), W("DUP"), N(0), W("=")>> >> >>),
      Main(<<N(3), W("countdown"), N(2),
             <<"while", <<W("DUP")>>, <<W("DUP"), N(1), W("="), <<"if", <<N(7), W("SWAP")>> >>,
                                        W("1-")>> >>,
             N(2), <<"until", <<W("1-"), W("DUP"),
                                <<"either", <<W("0")>>,
                                            <<N(3), W("countdown"), W("DROP"), W("-1")>> >> >> >> >>)>>,
    \* counted loops, nested, never entered, and counting up
    <<Panic,
      Def("sum", <<N(0), W("SWAP"), <<"down", <<W("I"), W("+"), N(2), <<"down", <<W("1+")>> >> >> >> >>),
      Main(<<N(3), W("sum"), N(0), W("sum"), N(-2), <<"up", <<W("I")>> >>, N(0), <<"up", <<N(9)>> >>,
             N(2), <<"down", <<W("I"), W("DUP"), <<"if", <<W("1+")>> >> >> >> >>)>>,
    \* calls at the end of a word, and a literal, a variable and a constant there
    <<Panic, Const("ten", 10), Var("v"), Var("w"),
      Def("five", <<N(5)>>), Def("put", << <<"put", "v">> >>), Def("get", << <<"get", "v">> >>),
      Def("both", <<W("ten"), W("five"), W("+"), W("ten")>>), Def("again", <<W("both")>>),
      Main(<<W("again"), W("put"), N(3), <<"put", "w">>, W("get"), <<"get", "w">>, W("get"),
             W("five")>>)>>,
    \* quads and marks of the collector
    <<Panic,
      Main(<<N(11), N(\h4001), W("QX!"), N(12), N(\h0001), W("QX!"), N(2), N(\h4001), W("GCC!"),
             N(\h4001), W("QX@"), N(\h4001), W("GCC@"), N(1), W("QX@")>>)>>,
    \* skipped words
    <<Panic,
      Main(<<N(1), N(2), N(0), <<"skip", W("SWAP")>>, N(3), N(9), <<"skip", W("SWAP")>>, W("NOP"),
             W("DUP")>>)>>,
    \* the terminal
    <<Panic, Emit, KeyIn,
      Main(<<W("key"), W("DUP"), W("emit"), W("key"), W("1+"), W("emit"), W("emit")>>)>>,
    \* programs that do not return
    <<Panic, Ends(<<N(4), W("RESET"), N(6), W("FAIL")>>, <<>>)>>,
    <<Panic, Ends(<<N(5), W("-1")>>, <<>>)>>,
    <<Panic, Ends(<<N(1), N(\h70)>>, <<W("IO@"), W(";")>>)>>,
    <<Panic, DefAs("BOOT", <<>>, <<W(":"), W("BOOT"), N(\hF000), W(",")>>)>>
>>
Unreturned == {9, 10, 11, 12}

(* Texts that are to be refused.                                           *)
Wrong == <<
    <<W(":"), W("DUP"), W(";")>>,
    <<W(":"), W("a"), W(";"), W("VARIABLE"), W("a")>>,
    <<N(5), W("DUP"), W("CONSTANT"), W("b")>>,
    <<W("VARIABLE"), W("a"), N(5), W("CONSTANT"), W("a")>>,
    <<W(":"), W("a"), W("0"), W(",")>>,
    <<W(":"), W("a"), W("BEGIN"), W("I"), W("UNTIL")>>,
    <<W(":"), W("a"), N(3), W("?LOOP-"), W("IF"), W(";"), W("THEN"), W("AGAIN")>>,
    <<W(":"), W("a"), N(3), W("?LOOP+"), W("I"), W("IF"), W("I"), W("THEN"), W("AGAIN"), W(";")>>,
    <<W(":"), W("a"), W("("), W(")"), W("b")>>
>>

MicroTexts == [p \in DOMAIN Structured |-> Join([d \in DOMAIN Structured[p] |-> Structured[p][d].text])]
              \o Wrong
MCTyped == <<65, 13>>
Meanings ==
    [p \in DOMAIN Structured |->
        DoesAll(Last(Structured[p]).body,
                [s |-> <<>>, loops |-> <<>>, mem |-> <<>>, in |-> MCTyped, out |-> <<>>],
                Structured[p])]

-----------------------------------------------------------------------------
(* A program that ends has left what it means on its data stack, in the    *)
(* order it means has sent its characters, whenever the host transmitted   *)
(* and received, unless one was stored while it did; one that returns has  *)
(* left nothing on its return stack and ends in the word that follows the  *)
(* bootstrap.  What is not a program is refused (compile() of ucode.js,    *)
(* step() of ucode_sim.js).                                                *)
OnStack(s) == s \o [i \in 1..(Depth - Len(s)) |-> Undefined]
MicroRight ==
    /\ phase = "stopped" =>
          /\ which \in DOMAIN Structured
          /\ dstack = OnStack(Meanings[which].s)
          /\ lost \/ shown \o writeQueue = Meanings[which].out
          /\ which \notin Unreturned => rstack = Empty /\ pc = 2
    /\ phase = "refused" => which > Len(Structured)
    /\ phase = "run" => which \in DOMAIN Structured

(* No character is lost that was stored after the UART said it was ready:  *)
(* not so in ucode_sim_cli.js, since the timer of write() may fire between *)
(* the two.                                                                *)
NothingLost == ~ lost
=============================================================================
