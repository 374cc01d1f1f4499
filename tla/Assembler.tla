--------------------------------- MODULE Assembler ---------------------------------
(***************************************************************************)
(* The assembler and the disassembler (src/lib/assemble.js and             *)
(* disassemble.js): the text of a module is parsed line by line to its     *)
(* intermediate representation, and a representation is printed as text.   *)
(*                                                                         *)
(* A statement that does not end its stream is continued by an operand of  *)
(* its own, by the statement of the next line, or by the label that        *)
(* follows; the parser keeps it open until then.  An error either is noted *)
(* or gives up everything that is open, and the parser goes on with the    *)
(* next line.                                                              *)
(*                                                                         *)
(* Characters, spaces, comments, positions and the text of errors are left *)
(* out: a line is whether it is indented, and its runs of tokens between   *)
(* spaces; a token is its kind and its text or number.                     *)
(***************************************************************************)
EXTENDS Integers, Sequences, SequencesExt, TLC

CONSTANTS
    Sources,                \* modules to be printed and parsed, and texts to be parsed
    Plain                   \* the names that may be written without quotes

VARIABLES
    source, lines, at,      \* what is parsed, and the line the parser is at
    ctx,                    \* "top", "import", "export", "label", "chain", "done"
    first,                  \* of a directive: no line of it has been read
    open,                   \* the label of the statement that is open and its stream
    define, imports, exports, refs, types,      \* imports: the names declared
    errors                  \* the codes of the errors so far

asm == <<source, lines, at, ctx, first, open, define, imports, exports, refs, types, errors>>

-----------------------------------------------------------------------------
(* Nodes are tuples that begin with their kind.                            *)
Fix(n) == <<"fix", n>>
Lit(text) == <<"lit", text>>                    \* #?, #nil, #t, #f
TypeLit(text) == <<"typelit", text>>            \* #pair_t and the like
Ref(module, name) == <<"ref", module, name>>    \* module "" is this one
Sub(op) == <<"sub", op>>                        \* the operator of an operator
None == <<"none">>                              \* undefined

Leaf(ast) == ast[1] \in {"fix", "lit", "typelit", "ref", "sub", "none"}

(* Tokens and lines.                                                       *)
Name(x) == <<"name", x>>
Quoted(x) == <<"string", x>>
Unquoted(x) == IF x \in Plain THEN Name(x) ELSE <<"error", x>>
Line(in, runs) == [in |-> in, runs |-> runs]
Statement(op, runs) == Line(TRUE, << <<Name(op)>> >> \o runs)
LabelLine(name) == Line(FALSE, << <<Quoted(name), <<":", "">> >> >>)

-----------------------------------------------------------------------------
(* The disassembler.  Its result is the lines printed and asm_label.       *)
LeafRun(ast) ==
    CASE ast[1] = "fix" -> << <<"number", ast[2]>> >>
      [] ast[1] \in {"lit", "typelit"} -> << <<"literal", ast[2]>> >>
      [] ast[1] = "sub" -> <<Name(ast[2])>>
      [] ast[1] = "ref" /\ ast[2] = "" -> <<Quoted(ast[3])>>
      [] ast[1] = "ref" /\ ast[2] # "" -> <<Unquoted(ast[2]), <<".", "">>, Unquoted(ast[3])>>

Printed(ls, n) == [ls |-> ls, n |-> n]
Labelled(prefix, n) == prefix \o "~" \o ToString(n)
LabelRun(prefix, n) == <<Quoted(Labelled(prefix, n))>>

RECURSIVE ToAsm(_, _)
(* The last of a stream: a leaf takes a line of its own.                   *)
Ending(ast, n) == IF Leaf(ast) THEN Printed(<<Statement("ref", <<LeafRun(ast)>>)>>, n) ELSE ToAsm(ast, n)
(* Two parts under labels of their own.  One that is a leaf is printed as  *)
(* it is, without `ref'.                                                   *)
Parts(line, p, a, q, b, n) ==
    LET x == ToAsm(a, n + 1)
        y == ToAsm(b, x.n)
    IN  Printed(<<line, LabelLine(Labelled(p, n))>> \o x.ls \o <<LabelLine(Labelled(q, n))>> \o y.ls, y.n)
Followed(line, ast, n) == LET k == Ending(ast, n) IN Printed(<<line>> \o k.ls, k.n)

IfAsm(ast, n) ==
    LET Target(branch, prefix) == IF branch[1] = "ref" THEN LeafRun(branch) ELSE LabelRun(prefix, n)
        Arm(branch, prefix, m) ==
            LET k == ToAsm(branch, m)
            IN  IF branch[1] = "ref" THEN Printed(<<>>, m)
                ELSE Printed(<<LabelLine(Labelled(prefix, n))>> \o k.ls, k.n)
        t == Arm(ast[2], "t", n + 1)
        f == Arm(ast[3], "f", t.n)
    IN  Printed(<<Statement("if", <<Target(ast[2], "t"), Target(ast[3], "f")>>)>> \o t.ls \o f.ls, f.n)

InstrAsm(ast, n) ==
    LET op == ast[2] IN
    CASE op = "jump" -> Printed(<<Statement(op, <<>>)>>, n)
      [] op = "end" -> Printed(<<Statement(op, <<LeafRun(ast[3])>>)>>, n)
      [] op = "debug" -> Followed(Statement(op, <<>>), ast[4], n)
      [] OTHER -> IF Leaf(ast[3]) THEN Followed(Statement(op, <<LeafRun(ast[3])>>), ast[4], n)
                  ELSE Parts(Statement(op, <<LabelRun("i", n), LabelRun("k", n)>>),
                             "i", ast[3], "k", ast[4], n)

PairAsm(ast, n) ==
    IF Leaf(ast[2]) THEN Followed(Statement("pair_t", <<LeafRun(ast[2])>>), ast[3], n)
    ELSE Parts(Statement("pair_t", <<LabelRun("a", n), LabelRun("d", n)>>), "a", ast[2], "d", ast[3], n)

DictAsm(ast, n) ==
    LET key == LeafRun(ast[2])
    IN  IF Leaf(ast[3]) THEN Followed(Statement("dict_t", <<key, LeafRun(ast[3])>>), ast[4], n)
        ELSE Parts(Statement("dict_t", <<key, LabelRun("v", n), LabelRun("n", n)>>),
                   "v", ast[3], "n", ast[4], n)

(* The last field of a quad that is not a leaf follows its line; asm_label *)
(* is advanced only after it, for the fields before.                       *)
QuadAsm(ast, n) ==
    LET arity == Len(ast) - 2
        Under(i, m) == Followed(LabelLine(Labelled(<<"x", "y">>[i], n)), ast[i + 2], m)
        labels == {i \in 1..(arity - 1) : ~ Leaf(ast[i + 2])}
        runs == <<LeafRun(ast[2])>> \o
                [i \in 1..(arity - 1) |-> IF i \in labels THEN LabelRun(<<"x", "y">>[i], n)
                                          ELSE LeafRun(ast[i + 2])]
        last == IF arity > 0 /\ ~ Leaf(ast[arity + 2]) THEN ToAsm(ast[arity + 2], n) ELSE Printed(<<>>, n)
        line == Statement(<<"quad_1", "quad_2", "quad_3", "quad_4">>[arity + 1],
                          IF arity > 0 /\ Leaf(ast[arity + 2]) THEN Append(runs, LeafRun(ast[arity + 2]))
                          ELSE runs)
        next == IF labels = {} THEN last.n ELSE last.n + 1
        x == IF 1 \in labels THEN Under(1, next) ELSE Printed(<<>>, next)
        y == IF 2 \in labels THEN Under(2, x.n) ELSE Printed(<<>>, x.n)
    IN  Printed(<<line>> \o last.ls \o x.ls \o y.ls, y.n)

ToAsm(ast, n) ==
    CASE ast[1] = "if" -> IfAsm(ast, n)
      [] ast[1] = "instr" -> InstrAsm(ast, n)
      [] ast[1] = "arity" -> Printed(<<Statement("type_t", << << <<"number", ast[2]>> >> >>)>>, n)
      [] ast[1] = "pair" -> PairAsm(ast, n)
      [] ast[1] = "dict" -> DictAsm(ast, n)
      [] ast[1] = "quad" -> QuadAsm(ast, n)
      [] OTHER -> Printed(<<Line(FALSE, <<LeafRun(ast)>>)>>, n)

(* A module: its imports, definitions and exports, in order.               *)
Disassemble(ir) ==
    LET Defined(acc, d) == LET body == Ending(d[2], acc.n)
                           IN  Printed(acc.ls \o <<LabelLine(d[1])>> \o body.ls, body.n)
        body == FoldLeft(Defined, Printed(<<>>, 1), ir.define)
        Section(word, entries) ==
            IF entries = <<>> THEN <<>> ELSE <<Line(FALSE, << << <<".", "">>, Name(word)>> >>)>> \o entries
    IN  Section("import", [i \in DOMAIN ir.import |->
                    Line(TRUE, << <<Unquoted(ir.import[i]), <<":", "">> >>, <<Quoted("url")>> >>)])
        \o body.ls
        \o Section("export", [i \in DOMAIN ir.export |-> Line(TRUE, << <<Quoted(ir.export[i])>> >>)])

-----------------------------------------------------------------------------
(* The operands of a statement.  What is made of a run of tokens: its      *)
(* node, the codes of the errors noted, whether it is given up, and the    *)
(* names it is supposed to find defined, and defined as types.             *)
Got(node, errs) == [node |-> node, errs |-> errs, gave |-> FALSE, refs |-> {}, types |-> {}]
Thrown(code) == [Got(None, {code}) EXCEPT !.gave = TRUE]

IsLabel(token) == token[1] \in {"name", "string"}
Dotted(run) == Len(run) = 3 /\ IsLabel(run[1]) /\ run[2][1] = "." /\ IsLabel(run[3])
Alone(run, kind) == Len(run) = 1 /\ run[1][1] = kind
TypeNames == {"#fixnum_t", "#type_t", "#pair_t", "#dict_t", "#instr_t", "#sponsor_t", "#actor_t"}
OtherTypes == {"#unknown_t"}                    \* text that ends in _t and is no type

ParseRef(run) ==
    IF Dotted(run) THEN Got(Ref(run[1][2], run[3][2]),
                            IF run[1][2] \in imports THEN {} ELSE {"undefined_a"})
    ELSE IF Len(run) = 1 /\ IsLabel(run[1])
         THEN [Got(Ref("", run[1][2]), {}) EXCEPT !.refs = {run[1][2]}]
    ELSE Thrown("expected_b_a")

TypeLiteral(text) == Got(TypeLit(text), IF text \in TypeNames THEN {} ELSE {"expected_b_a"})
ParseType(run) ==
    IF Alone(run, "literal") THEN TypeLiteral(run[1][2])
    ELSE IF Alone(run, "name") THEN [ParseRef(run) EXCEPT !.types = {run[1][2]}]
    ELSE ParseRef(run)

Expression(run, only) ==
    LET notInstr == IF only THEN {"expected_instruction"} ELSE {}
    IN  CASE Alone(run, "number") -> Got(Fix(run[1][2]), notInstr)
          [] Alone(run, "literal") ->
                LET lit == run[1][2]
                    got == IF lit \in TypeNames \cup OtherTypes THEN TypeLiteral(lit)
                           ELSE IF lit \in {"#?", "#nil", "#t", "#f"} THEN Got(Lit(lit), {})
                           ELSE Got(None, {"expected_b_a"})
                IN  [got EXCEPT !.errs = @ \cup notInstr]
          [] OTHER -> ParseRef(run)

SubOperators ==
    [alu |-> {"not", "and", "or", "xor", "add", "sub", "mul", "div", "lsl", "lsr", "asr", "rol", "ror"},
     cmp |-> {"eq", "ge", "gt", "lt", "le", "ne"},
     dict |-> {"has", "get", "add", "set", "del"},
     deque |-> {"new", "empty", "push", "pop", "put", "pull", "len"},
     actor |-> {"send", "post", "create", "become", "self"},
     sponsor |-> {"new", "memory", "events", "cycles", "reclaim", "start", "stop"},
     end |-> {"abort", "stop", "commit"},
     my |-> {"self"}]
SubOperator(run, op) ==
    IF Alone(run, "name")
    THEN Got(Sub(run[1][2]), IF run[1][2] \in SubOperators[op] THEN {} ELSE {"expected_b_a"})
    ELSE Thrown("expected_b_a")

Deprecated == {"signal", "send", "new", "beh"}
Fixnum(run, op) ==
    LET n == run[1][2]
        low == CASE op = "quad" -> n < -4
                 [] op \in {"drop", "dup", "pair", "part", "type_t"} -> n < 0
                 [] op \in Deprecated -> n < -1
                 [] OTHER -> FALSE
        high == (op = "quad" /\ n > 4) \/ (op = "type_t" /\ n > 3)
    IN  IF ~ Alone(run, "number") THEN Thrown("expected_b_a")
        ELSE Got(Fix(n), (IF low THEN {"minimum_a_b"} ELSE {}) \cup (IF high THEN {"maximum_a_b"} ELSE {}))

(* What the operands of an operation are, and whether one more, or the     *)
(* next line, continues it.                                                *)
Terminals == {"type_t", "ref", "end", "jump", "return"}
Data == {"type_t", "quad_1", "quad_2", "quad_3", "quad_4", "pair_t", "dict_t"}
Operands(op) ==
    CASE op \in {"quad_1", "jump", "return", "debug"} -> <<>>
      [] op \in {"quad_2", "pair_t", "eq", "push", "assert", "ref"} -> <<"expression">>
      [] op \in {"quad_3", "dict_t"} -> <<"expression", "expression">>
      [] op = "quad_4" -> <<"expression", "expression", "expression">>
      [] op \in {"call", "if", "if_not"} -> <<"ref">>
      [] op = "typeq" -> <<"type">>
      [] op \in {"alu", "cmp", "dict", "deque", "actor", "sponsor", "end", "my"} -> <<"sub">>
      [] op \in {"type_t", "quad", "pair", "part", "nth", "drop", "pick", "dup", "roll", "msg",
                 "state"} \cup Deprecated -> <<"fixnum">>
      [] OTHER -> <<"unknown">>

Operand(kind, op, run, only) ==
    CASE kind = "expression" -> Expression(run, only /\ op = "ref")
      [] kind = "ref" -> ParseRef(run)
      [] kind = "type" -> ParseType(run)
      [] kind = "sub" -> SubOperator(run, op)
      [] kind = "fixnum" -> Fixnum(run, op)
      [] kind = "unknown" -> Got(None, {"unexpected_a"})

(* The nodes that wait for their continuation, each with the place in it   *)
(* where that goes: in a deprecated operation, that of its polyfill.       *)
Frame(node, hole) == [node |-> node, hole |-> hole]
Instr(op, imm) == Frame(<<"instr", op, imm>>, 4)
Actor(op) == CASE op = "send" -> Sub("send") [] op = "signal" -> Sub("post")
               [] op = "new" -> Sub("create") [] op = "beh" -> Sub("become")
Frames(op, args) ==
    CASE op \in {"quad_1", "quad_2", "quad_3", "quad_4"} -> <<Frame(<<"quad">> \o args, Len(args) + 2)>>
      [] op = "pair_t" -> <<Frame(<<"pair", args[1]>>, 3)>>
      [] op = "dict_t" -> <<Frame(<<"dict", args[1], args[2]>>, 4)>>
      [] op = "call" -> <<Frame(<<"instr", "push", args[1]>>, 3)>>
      [] op = "if" -> <<Frame(<<"if", args[1]>>, 3)>>
      [] op = "if_not" -> <<Frame(<<"if", args[1]>>, 2)>>
      [] op = "debug" -> <<Instr("debug", None)>>
      [] op = "my" -> <<Instr("actor", Sub("self"))>>
      [] op \in Deprecated /\ args[1] = Fix(-1) -> <<Instr("actor", Actor(op))>>
      [] op \in Deprecated /\ args[1] # Fix(-1) ->
            LET n == args[1][2]
                roll == Instr("roll", Fix(-(n + 1)))
            IN  <<roll, Instr("push", Lit("#nil")), roll, Instr("pair", Fix(n)),
                  Instr("roll", Fix(2)), Instr("actor", Actor(op))>>
      [] OTHER -> <<Instr(op, args[1])>>
Terminal(op, args) ==
    CASE op = "type_t" -> <<"arity", args[1][2]>>
      [] op = "ref" -> args[1]
      [] op = "end" -> <<"instr", "end", args[1]>>
      [] op \in {"jump", "return"} -> <<"instr", "jump">>
      [] OTHER -> None                          \* an error, and nothing

-----------------------------------------------------------------------------
(* The parser.                                                             *)
More == ctx # "done" /\ at <= Len(lines)
Now == lines[at]
Op == Now.runs[1]
Directive == More /\ ~ Now.in /\ Op[1][1] = "."
Labelling == More /\ ~ Now.in /\ IsLabel(Op[1])
Stating == More /\ Now.in /\ Alone(Op, "name")
Note(codes) == errors' = errors \cup codes
Skip == at' = at + 1

(* Definitions and exports are followed by no line of the directive.       *)
Top == ctx = "top" \/ (ctx \in {"import", "export"} /\ ~ first /\ More /\ ~ Now.in)
InSection(word) == ctx = word /\ More /\ (first \/ Now.in)

StartSection ==
    /\ Top /\ Directive
    /\ IF Len(Op) = 2 /\ Op[2] \in {Name("import"), Name("export")}
       THEN /\ ctx' = Op[2][2]
            /\ first' = (Len(Now.runs) = 1)
            /\ Note({c \in {"imports_first"} : Op[2][2] = "import" /\ DOMAIN define # {}}
                    \cup {c \in {"already_a"} : IF Op[2][2] = "import" THEN imports # {} ELSE exports # <<>>}
                    \cup {c \in {"expected_b_a"} : Len(Now.runs) > 1})
       ELSE Note({"expected_b_a"}) /\ UNCHANGED <<ctx, first>>
    /\ Skip
    /\ UNCHANGED <<source, lines, open, define, imports, exports, refs, types>>

Importation ==
    LET ok == /\ Now.in /\ Len(Now.runs) = 2 /\ Len(Op) = 2 /\ IsLabel(Op[1]) /\ Op[2][1] = ":"
              /\ Alone(Now.runs[2], "string")
    IN  /\ InSection("import")
        /\ imports' = imports \cup {x \in {Op[1][2]} : ok}
        /\ Note(IF ok THEN {c \in {"already_a"} : Op[1][2] \in imports} ELSE {"expected_b_a"})
        /\ first' = FALSE /\ Skip
        /\ UNCHANGED <<source, lines, ctx, open, define, exports, refs, types>>

Exportation ==
    LET ok == Now.in /\ Len(Now.runs) = 1 /\ Len(Op) = 1 /\ IsLabel(Op[1])
    IN  /\ InSection("export")
        /\ exports' = IF ok THEN Append(exports, Op[1][2]) ELSE exports
        /\ refs' = refs \cup {x \in {Op[1][2]} : ok}
        /\ Note(IF ok THEN {c \in {"already_a"} : Op[1][2] \in ToSet(exports)} ELSE {"expected_b_a"})
        /\ first' = FALSE /\ Skip
        /\ UNCHANGED <<source, lines, ctx, open, define, imports, types>>

(* A label opens its value.  An alias for the label of the next line is    *)
(* closed there.                                                           *)
Label ==
    LET label == Op[1][2]
        ok == Len(Now.runs) = 1 /\ Len(Op) = 2 /\ Op[2][1] = ":"
    IN  /\ Top /\ Labelling
        /\ Note({c \in {"exports_last"} : exports # <<>>} \cup {c \in {"already_a"} : label \in DOMAIN define}
                \cup {c \in {"expected_b_a"} : ~ ok})
        /\ ctx' = (IF ok THEN "label" ELSE "top")
        /\ open' = [label |-> <<label>>, frames |-> <<>>, only |-> FALSE]
        /\ Skip
        /\ UNCHANGED <<source, lines, first, define, imports, exports, refs, types>>

(* The stream that is open is closed: its nodes are put together, and the  *)
(* value becomes that of the label, if there is one.                       *)
Whole(frames, node) == FoldRight(LAMBDA f, acc : InsertAt(f.node, f.hole, acc), frames, node)
Closed(frames, node) ==
    /\ define' = IF open.label = <<>> THEN define
                 ELSE (open.label[1] :> Whole(frames, node)) @@ define
    /\ ctx' = "top"
    /\ open' = [label |-> <<>>, frames |-> <<>>, only |-> FALSE]

(* The next line is a label: of an alias, or the common tail of streams.   *)
FallThrough ==
    /\ ctx \in {"label", "chain"} /\ Labelling
    /\ Closed(open.frames, Ref("", Op[1][2]))
    /\ refs' = IF ctx = "chain" THEN refs \cup {Op[1][2]} ELSE refs
    /\ UNCHANGED <<source, lines, at, first, imports, exports, types, errors>>

(* A directive, or the end of the text, where a stream should go on.       *)
BreakOff ==
    /\ ctx \in {"label", "chain"}
    /\ More => ~ Now.in /\ ~ Labelling
    /\ Closed(open.frames, None)
    /\ Note({"expected_b_a"})
    /\ UNCHANGED <<source, lines, at, first, imports, exports, refs, types>>

(* A statement.  Without a label, where none is open, it is parsed all the *)
(* same.  Whoever ends a stream looks at the line that follows.            *)
ParseStatement ==
    LET op == Op[1][2]
        runs == Tail(Now.runs)
        kinds == Operands(op)
        unknown == kinds = <<"unknown">>
        wanted == IF unknown THEN 0 ELSE Len(kinds)
        fresh == ctx \notin {"label", "chain"}
        begun == IF fresh THEN [label |-> <<>>, frames |-> <<>>, only |-> FALSE] ELSE open
        only == op \notin Data \cup {"ref"} \/ begun.only
        got == [i \in 1..wanted |-> IF i > Len(runs) THEN Thrown("expected_b_a")
                                    ELSE Operand(kinds[i], op, runs[i], begun.only)]
        args == [i \in DOMAIN got |-> got[i].node]
        gone == op \in Deprecated /\ got # <<>> /\ ~ got[1].gave /\ args[1][2] < -1
        ends == op \in Terminals \/ unknown \/ gone
        rest == IF Len(runs) = wanted + 1 /\ ~ ends
                THEN Expression(runs[wanted + 1], only) ELSE Got(None, {})
        spare == IF unknown THEN FALSE ELSE Len(runs) > wanted + (IF ends THEN 0 ELSE 1)
        parsed == {got[i] : i \in DOMAIN got} \cup {rest}
        gave == spare \/ \E p \in parsed : p.gave
        stops == ends \/ Len(runs) > wanted
        follows == /\ stops /\ ~ unknown /\ ~ gone /\ op # "type_t"
                   /\ at < Len(lines) /\ lines[at + 1].in /\ Alone(lines[at + 1].runs[1], "name")
    IN  /\ Stating /\ (Top \/ ctx \in {"label", "chain"})
        /\ Note(UNION {p.errs : p \in parsed}
                \cup {c \in {"unexpected_a"} : unknown \/ gone \/ follows}
                \cup {c \in {"expected_instruction"} : op \in Data /\ begun.only}
                \cup {c \in {"expected_b_a"} : spare \/ (fresh /\ DOMAIN define = {})})
        /\ refs' = refs \cup UNION {p.refs : p \in parsed}
        /\ types' = types \cup UNION {p.types : p \in parsed}
        /\ CASE gave -> /\ ctx' = "top" /\ UNCHANGED define
                        /\ open' = [label |-> <<>>, frames |-> <<>>, only |-> FALSE]
             [] ~ gave /\ ~ stops ->
                        /\ ctx' = "chain" /\ UNCHANGED define
                        /\ open' = [begun EXCEPT !.frames = @ \o Frames(op, args), !.only = only]
             [] ~ gave /\ stops /\ fresh -> ctx' = "top" /\ UNCHANGED <<define, open>>
             [] ~ gave /\ stops /\ ~ fresh ->
                        IF ends THEN Closed(begun.frames, IF gone THEN None ELSE Terminal(op, args))
                        ELSE Closed(begun.frames \o Frames(op, args), rest.node)
        /\ Skip
        /\ UNCHANGED <<source, lines, first, imports, exports>>

(* A line that begins in no way that a line may.                           *)
Unexpected ==
    /\ More /\ (Top \/ (ctx \in {"label", "chain"} /\ Now.in))
    /\ ~ Directive /\ ~ Labelling /\ ~ Stating
    /\ Note({"unexpected_a"}) /\ ctx' = "top" /\ Skip
    /\ open' = [label |-> <<>>, frames |-> <<>>, only |-> FALSE]
    /\ UNCHANGED <<source, lines, first, define, imports, exports, refs, types>>

(* The end: what was supposed to be defined is looked up.  A definition    *)
(* that is a reference to itself is followed forever.                      *)
RECURSIVE MaybeType(_, _)
MaybeType(node, seen) ==
    IF node[1] = "ref"
    THEN \/ node[2] # "" \/ node[3] \notin DOMAIN define
         \/ node[3] \in seen \/ MaybeType(define[node[3]], seen \cup {node[3]})
    ELSE node[1] \in {"typelit", "arity"}
Finished ==
    /\ ctx \in {"top", "import", "export"} /\ at > Len(lines)
    /\ ctx' = "done"
    /\ Note({c \in {"undefined_a"} : refs \ DOMAIN define # {}}
            \cup {c \in {"expected_b_a"} : first \/ \E t \in types \cap DOMAIN define : ~ MaybeType(define[t], {})})
    /\ UNCHANGED <<source, lines, at, first, open, define, imports, exports, refs, types>>

(* A source is the representation of a module, to be printed first, or a   *)
(* text.                                                                   *)
InitAsm ==
    /\ source \in DOMAIN Sources
    /\ lines = IF Sources[source].is = "module" THEN Disassemble(Sources[source].ir) ELSE Sources[source].text
    /\ at = 1 /\ ctx = "top" /\ first = FALSE
    /\ open = [label |-> <<>>, frames |-> <<>>, only |-> FALSE]
    /\ define = <<>> /\ imports = {} /\ exports = <<>> /\ refs = {} /\ types = {} /\ errors = {}

NextAsm ==
    \/ StartSection \/ Importation \/ Exportation \/ Label \/ FallThrough \/ BreakOff
    \/ ParseStatement \/ Unexpected \/ Finished
=============================================================================
