-------------------------------- MODULE MCAssembler --------------------------------
(***************************************************************************)
(* Modules and texts for TLC.  A module is printed and parsed again; a     *)
(* text is parsed, and has the definitions listed with it or is to be      *)
(* refused.  Most of the texts are from test_parse() of assemble.js.       *)
(***************************************************************************)
EXTENDS Assembler, FiniteSets

(* Nodes.                                                                  *)
I(op, imm, k) == <<"instr", op, imm, k>>
Commit == <<"instr", "end", Sub("commit")>>
Branch2(t, f) == <<"if", t, f>>
PairOf(h, t) == <<"pair", h, t>>
Entry(key, v, next) == <<"dict", key, v, next>>
Here2(name) == Ref("", name)
Nil == Lit("#nil")

IR(ims, defs, exs) == [import |-> ims, define |-> defs, export |-> exs]
Modules == <<
    \* data in data, in code, and in the fields of quads
    IR(<<"std">>,
       << <<"list", PairOf(Fix(1), PairOf(PairOf(Fix(2), Nil), PairOf(Nil, Here2("tail"))))>>,
          <<"tail", Entry(Fix(7), PairOf(Nil, Lit("#?")), Entry(Fix(8), Nil, Ref("std", "rest")))>>,
          <<"none_t", <<"arity", 0>> >>, <<"one_t", <<"arity", 1>> >>,
          <<"two_t", <<"arity", 2>> >>, <<"three_t", <<"arity", 3>> >>,
          <<"none", <<"quad", Here2("none_t")>> >>,
          <<"one", <<"quad", Here2("one_t"), PairOf(Fix(3), Nil)>> >>,
          <<"two", <<"quad", Here2("two_t"), PairOf(Fix(4), Nil), PairOf(Fix(5), Nil)>> >>,
          <<"three", <<"quad", Here2("three_t"), PairOf(Fix(6), Nil), Fix(0), PairOf(Here2("one"), Nil)>> >>,
          <<"five", Fix(5)>>, <<"also", Here2("five")>> >>,
       <<"list", "three">>),
    \* code that branches, in and beside code, with data in it
    IR(<<"std", "lib">>,
       << <<"beh", I("msg", Fix(-1), I("push", PairOf(Fix(1), Nil),
              I("typeq", Here2("pair_like"),
                Branch2(I("debug", None, Branch2(Here2("done"), Ref("std", "commit"))),
                        I("push", Branch2(Commit, Here2("done")), <<"instr", "jump">>)))))>>,
          <<"done", I("actor", Sub("send"), Commit)>>,
          <<"pair_like", TypeLit("#pair_t")>>,
          <<"more", I("push", Entry(Fix(1), I("dup", Fix(0), Here2("done")), Entry(Fix(2), Fix(3), Nil)),
                      I("roll", Fix(2), Ref("lib", "end")))>> >>,
       <<"beh">>)
>>

(* Modules whose text is not the module, since a leaf that is labelled is  *)
(* printed without `ref', since the fields of quads in quads get the same  *)
(* labels, and since names of modules are not quoted.                      *)
Unreadable == <<
    IR(<<>>, << <<"list", PairOf(PairOf(Fix(1), Nil), Nil)>> >>, <<>>),
    IR(<<>>, << <<"beh", I("push", PairOf(Fix(1), Nil), Here2("beh"))>> >>, <<>>),
    IR(<<>>, << <<"t", <<"arity", 2>> >>,
                <<"two", <<"quad", Here2("t"), PairOf(Fix(4), Nil),
                           <<"quad", Here2("t"), PairOf(Fix(5), Nil), Fix(6)>> >> >> >>, <<>>),
    IR(<<"~1">>, << <<"beh", Ref("~1", "beh")>> >>, <<>>)
>>

(* Texts.                                                                  *)
In(op, runs) == Statement(op, runs)
At0(name) == Line(FALSE, << <<Name(name), <<":", "">> >> >>)
Dir(word) == Line(FALSE, << << <<".", "">>, Name(word)>> >>)
X(name) == Line(TRUE, << <<Name(name)>> >>)
Imp(name) == Line(TRUE, << <<Name(name), <<":", "">> >>, <<Quoted("url")>> >>)
R(name) == <<Name(name)>>
D(module, name) == <<Name(module), <<".", "">>, Name(name)>>
Num(n) == << <<"number", n>> >>
L(text) == << <<"literal", text>> >>
Halts == In("end", <<R("commit")>>)

Good(text, defs) == [is |-> "text", text |-> text, ir |-> IR(<<>>, defs, <<>>)]
Bad(text) == [is |-> "wrong", text |-> text, ir |-> IR(<<>>, <<>>, <<>>)]
RollFor(n, act, k) ==
    I("roll", Fix(-(n + 1)), I("push", Nil, I("roll", Fix(-(n + 1)),
        I("pair", Fix(n), I("roll", Fix(2), I("actor", Sub(act), k))))))

GoodTexts == <<
    \* a stream goes on over a label; a label on a label
    Good(<<At0("a"), In("msg", <<Num(2)>>), At0("b"), At0("c"), In("pair_t", <<L("#f")>>), At0("d"),
           In("ref", <<Num(1)>>)>>,
         << <<"a", I("msg", Fix(2), Here2("b"))>>, <<"b", Here2("c")>>,
            <<"c", PairOf(Lit("#f"), Here2("d"))>>, <<"d", Fix(1)>> >>),
    \* continuations as operands
    Good(<<At0("a"), In("quad_1", <<R("t")>>), At0("t"), In("type_t", <<Num(0)>>),
           At0("i"), In("if_not", <<R("k"), R("j")>>), At0("j"), In("call", <<R("k")>>), In("drop", <<Num(1)>>),
           In("debug", <<R("k")>>), At0("k"), In("typeq", <<R("t")>>), Halts>>,
         << <<"a", <<"quad", Here2("t")>> >>, <<"t", <<"arity", 0>> >>,
            <<"i", Branch2(Here2("j"), Here2("k"))>>,
            <<"j", I("push", I("drop", Fix(1), I("debug", None, Here2("k"))), Here2("k"))>>,
            <<"k", I("typeq", Here2("t"), Commit)>> >>),
    \* deprecated operations
    Good(<<At0("foo"), In("my", <<R("self")>>), In("new", <<Num(0)>>), In("send", <<Num(3)>>),
           In("beh", <<Num(-1)>>), In("return", <<>>)>>,
         << <<"foo", I("actor", Sub("self"), RollFor(0, "create", RollFor(3, "send",
                        I("actor", Sub("become"), <<"instr", "jump">>))))>> >>)
>>

BadTexts == <<
    Bad(<<At0("a"), In("typeq", <<L("#t")>>), Halts>>),
    Bad(<<At0("a"), In("ref", <<L("#t")>>), At0("b"), In("typeq", <<R("a")>>), Halts>>),
    Bad(<<At0("a"), Line(TRUE, << <<Quoted("ref")>>, Num(1)>>)>>),
    Bad(<<At0("type"), In("type_t", <<Num(4)>>)>>),
    Bad(<<At0("a"), In("my", <<R("xyz")>>), Halts>>),
    Bad(<<Line(FALSE, << <<Name("ab"), <<"error", "$">>, Name("c"), <<":", "">> >> >>), Halts>>),
    Bad(<<At0("a"), Halts, Halts>>),
    Bad(<<At0("a"), In("cmp", <<R("le"), R("a")>>), Halts>>),
    Bad(<<At0("a"), In("dict_t", <<Num(1)>>)>>),
    Bad(<<At0("a"), In("jump", <<Num(1), R("a")>>)>>),
    Bad(<<At0("a"), In("ref", <<R("b")>>)>>),
    Bad(<<At0("a"), In("ref", <<D("x", "y")>>)>>),
    Bad(<<At0("a"), Halts, Dir("import"), Imp("x")>>),
    Bad(<<Dir("import"), Imp("x"), Dir("import"), Imp("y")>>),
    Bad(<<Dir("import"), Imp("x"), Imp("x")>>),
    Bad(<<At0("a"), In("ref", <<Num(1)>>), Dir("export"), X("a"), At0("b"), In("ref", <<Num(2)>>)>>),
    Bad(<<At0("a"), In("ref", <<Num(1)>>), Dir("export"), X("a"), Dir("export"), X("a")>>),
    Bad(<<Dir("export"), X("a")>>),
    Bad(<<At0("a"), In("if", <<Num(1), R("a")>>)>>),
    Bad(<<At0("a"), In("dict", <<R("has")>>), In("pair", <<Num(2)>>)>>),
    Bad(<<Dir("export"), Line(FALSE, << <<Name("a")>> >>)>>),
    Bad(<<At0("a"), At0("a"), Halts>>),
    Bad(<<At0("a"), In("msg", <<Num(1), Num(0)>>)>>),
    Bad(<<At0("a"), In("drop", <<Num(4)>>), In("actor", <<R("self"), R("b")>>)>>),
    Bad(<<Line(TRUE, << << <<".", "">>, Name("export")>> >>), X("a")>>),
    Bad(<<At0("a"), In("msg", <<Num(1)>>), Dir("export"), X("a")>>),
    Bad(<<At0("foo"), In("part", <<Num(-1)>>), Halts>>),
    Bad(<<At0("foo"), In("send", <<Num(-2)>>), Halts>>),
    Bad(<<At0("a"), In("nop", <<Num(1)>>), Halts>>),
    Bad(<<At0("a"), In("dup", <<Num(1)>>), In("pair_t", <<Num(1), Num(2)>>)>>),
    Bad(<<In("dup", <<Num(1)>>), Halts>>),
    Bad(<<Dir("other")>>)
>>

UnreadableSources == [m \in DOMAIN Unreadable |-> [is |-> "module", ir |-> Unreadable[m]]]
MCSources == [m \in DOMAIN Modules |-> [is |-> "module", ir |-> Modules[m]]] \o GoodTexts \o BadTexts

-----------------------------------------------------------------------------
(* A node with what the labels that are not the module's own stand for.    *)
RECURSIVE Inlined(_, _)
Inlined(node, own) ==
    CASE node[1] \in {"fix", "lit", "typelit", "sub", "none", "arity"} -> node
      [] node[1] = "ref" -> IF node[2] # "" \/ node[3] \in own THEN node ELSE Inlined(define[node[3]], own)
      [] OTHER -> LET parts == IF node[1] = "instr" THEN 3 ELSE 2
                  IN  [i \in DOMAIN node |-> IF i < parts THEN node[i] ELSE Inlined(node[i], own)]

(* A module that is printed and parsed again has the same definitions,     *)
(* imports and exports, and a text those listed with it, without an error; *)
(* a text that is wrong has one (assemble.js, disassemble.js).             *)
Wanted == Sources[source]
AssembledRight ==
    ctx = "done" =>
        IF Wanted.is = "wrong" THEN errors # {}
        ELSE LET own == {Wanted.ir.define[i][1] : i \in DOMAIN Wanted.ir.define}
             IN  /\ errors = {}
                 /\ \A i \in DOMAIN Wanted.ir.define :
                        Inlined(define[Wanted.ir.define[i][1]], own) = Wanted.ir.define[i][2]
                 /\ Wanted.is = "module" => imports = ToSet(Wanted.ir.import) /\ exports = Wanted.ir.export
=============================================================================
