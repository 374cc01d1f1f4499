---------------------------------- MODULE MCTools ----------------------------------
(***************************************************************************)
(* The tools of a programmer, for TLC: a run compiles and runs microcode   *)
(* (MicroCode), prints and parses a module (Assembler) or s-expressions    *)
(* (Sexpr), reads expressions of Director (Director), edits a text         *)
(* (Editor), collapses a JavaScript module (Collapse), or connects to the  *)
(* WebSocket server (Websockets), and explores the sum of them.            *)
(***************************************************************************)
EXTENDS MCMicroCode, MCAssembler, Editor, Collapse, Sexpr, Websockets, MCDirector

-----------------------------------------------------------------------------
(***************************************************************************)
(* Modules to be collapsed, and what a collapsed one is to have kept: the  *)
(* scopes of JavaScript, and what evaluating a statement does.             *)
(***************************************************************************)
V(name) == Node("Identifier", name, <<>>)
TruthLit(name) == Node("Literal", name, <<>>)
Some == Node("Literal", "1", <<>>)
IsMain == Node("ImportMetaMain", "", <<>>)
And(a, b) == Node("&&", "", <<a, b>>)
Or(a, b) == Node("||", "", <<a, b>>)
Not(a) == Node("!", "", <<a>>)
Void(a) == Node("void", "", <<a>>)
TypeofIs(a) == Node("typeof", "", <<a>>)
Calls(f, args) == Node("CallExpression", "", <<f>> \o args)
New(c) == Node("NewExpression", "", <<c>>)
Assign(name, e) == Node("AssignmentExpression", name, <<e>>)
Delete(e) == Node("delete", "", <<e>>)
Lambda(params, body) == Node("ArrowFunctionExpression", "", Append(params, body))
Default(name, e) == Node("AssignmentPattern", name, <<e>>)
Rest(name) == Node("RestElement", name, <<>>)
Array(ps) == Node("ArrayPattern", "", ps)
Object(ps) == Node("ObjectPattern", "", ps)
Elements(es) == Node("ArrayExpression", "", es)
Let(target, inits) == Node("VariableDeclaration", "", <<Node("VariableDeclarator", "", <<target>> \o inits)>>)
Block(ss) == Node("BlockStatement", "", ss)
Gives(e) == Node("ReturnStatement", "", <<e>>)
Do(e) == Node("ExpressionStatement", "", <<e>>)
Cond(test, branches) == Node("IfStatement", "", <<test>> \o branches)
Fun(name, params, body) == Node("FunctionDeclaration", name, Append(params, Block(body)))
Class(name, kids) == Node("ClassDeclaration", name, kids)
Import(names) == Node("ImportDeclaration", "",
                      [i \in DOMAIN names |-> Node("ImportSpecifier", names[i], <<>>)])
Export(s) == Node("ExportNamedDeclaration", "", <<s>>)
ExportDefault(e) == Node("ExportDefaultDeclaration", "", <<e>>)
Lined(ss) == [i \in DOMAIN ss |-> [node |-> ss[i], from |-> 2 * i, to |-> 2 * i + 1]]

MCJsModules == <<
    \* the examples of fold() and of collapse()
    Lined(<<Let(V("a"), <<>>), Let(V("b"), <<V("a")>>), Let(V("d"), <<>>),
            Fun("c", <<>>, <<Gives(And(V("d"), Calls(V("c"), <<>>)))>>), ExportDefault(V("b"))>>),
    Lined(<<Import(<<"t">>), Fun("double", <<>>, <<Gives(Some)>>),
            Fun("test", <<>>, <<Do(Calls(V("t"), <<V("double")>>))>>),
            Cond(IsMain, <<Block(<<Do(Calls(V("test"), <<>>))>>)>>), ExportDefault(V("double"))>>),
    \* what need each other
    Lined(<<Let(V("a"), <<Lambda(<<>>, V("b"))>>), Let(V("b"), <<Lambda(<<>>, V("a"))>>),
            Let(V("c"), <<Lambda(<<>>, V("d"))>>), Let(V("d"), <<Lambda(<<>>, V("c"))>>),
            Export(Let(V("e"), <<V("a")>>))>>),
    \* patterns, defaults and parameters
    Lined(<<Import(<<"p", "q">>), Let(V("x"), <<Some>>), Let(V("y"), <<Some>>),
            Let(Array(<<V("a"), Default("b", V("x")), Object(<<V("c"), Default("d", V("y"))>>)>>), <<V("p")>>),
            Fun("f", <<V("x"), Default("z", V("b")), Object(<<V("y")>>), Rest("q")>>,
                <<Gives(Elements(<<V("x"), V("y"), V("z"), V("q")>>))>>),
            ExportDefault(Elements(<<V("f"), V("d")>>))>>),
    \* scopes within scopes
    Lined(<<Let(V("a"), <<Some>>), Let(V("b"), <<Some>>), Let(V("c"), <<Some>>),
            Export(Fun("f", <<V("b")>>,
                <<Cond(V("b"), <<Block(<<Let(V("a"), <<V("b")>>), Do(V("a"))>>)>>),
                  Gives(Lambda(<<V("x")>>, Elements(<<V("x"), V("c"), V("a")>>)))>>))>>),
    Lined(<<Let(V("a"), <<Some>>), Let(V("b"), <<V("a")>>),
            Export(Fun("f", <<>>, <<Block(<<Let(V("b"), <<Some>>), Do(V("b"))>>), Gives(V("b"))>>))>>),
    \* a name before what it is in the block, a function that calls itself
    Lined(<<Let(V("a"), <<Some>>),
            Fun("g", <<V("n")>>, <<Gives(Calls(V("g"), <<V("n")>>))>>),
            Do(Calls(Lambda(<<>>, Block(<<Do(Calls(V("a"), <<>>)), Let(V("a"), <<Some>>)>>)), <<>>))>>),
    \* what does something, and what does not
    Lined(<<Import(<<>>), Import(<<"a">>), Let(V("b"), <<Node("ImportMetaResolve", "", <<>>)>>),
            Let(V("c"), <<New(V("a"))>>), Do(Assign("c", V("b"))), Let(V("d"), <<Elements(<<V("a")>>)>>),
            Class("k", <<Fun("m", <<>>, <<Do(Calls(V("d"), <<>>))>>)>>), Do(Delete(V("c")))>>),
    \* an operator with an operand that does nothing
    Lined(<<Let(V("a"), <<Void(Some)>>), Let(V("b"), <<TypeofIs(V("a"))>>), Do(Not(V("b"))),
            Cond(Not(V("a")), <<Do(Calls(V("b"), <<>>))>>)>>),
    \* conditions
    Lined(<<Let(V("a"), <<Some>>), Let(V("b"), <<Some>>), Let(V("c"), <<Some>>),
            Cond(And(IsMain, V("a")), <<Do(Calls(V("a"), <<>>))>>),
            Cond(Or(Not(IsMain), V("b")), <<Do(Calls(V("b"), <<>>))>>),
            Cond(Not(Not(IsMain)), <<Do(Assign("c", V("c")))>>),
            Cond(Or(TruthLit("false"), IsMain), <<Do(Some)>>)>>),
    \* several in a line
    <<[node |-> Let(V("a"), <<>>), from |-> 1, to |-> 1], [node |-> Let(V("b"), <<>>), from |-> 1, to |-> 1]>>,
    <<[node |-> Do(Calls(V("b"), <<>>)), from |-> 1, to |-> 2], [node |-> Let(V("a"), <<>>), from |-> 2, to |-> 3],
      [node |-> Let(V("b"), <<>>), from |-> 4, to |-> 4]>>,
    <<[node |-> Let(V("a"), <<>>), from |-> 1, to |-> 2], [node |-> ExportDefault(V("a")), from |-> 2, to |-> 2],
      [node |-> Let(V("b"), <<>>), from |-> 2, to |-> 3], [node |-> Do(New(V("b"))), from |-> 3, to |-> 3]>>
>>

(* Modules that collapse.js collapses wrongly: the alternative of a        *)
(* condition that is false, the left side of a conjunction whose right     *)
(* side is, a name that is only assigned, the rest of an array.            *)
Misfolded == <<
    Lined(<<Import(<<"a">>), Cond(IsMain, <<Block(<<>>), Do(Calls(V("a"), <<>>))>>)>>),
    Lined(<<Import(<<"a">>), Cond(And(Calls(V("a"), <<>>), IsMain), <<Block(<<>>)>>)>>),
    Lined(<<Let(V("a"), <<>>), Export(Fun("f", <<>>, <<Do(Assign("a", Some))>>))>>),
    Lined(<<Import(<<"a">>), Let(Array(<<V("b"), Rest("c")>>), <<V("a")>>), ExportDefault(V("c"))>>)
>>

(* Modules with a call in the operand of a unary operator.                 *)
Negated == <<
    Lined(<<Import(<<"a">>), Do(Not(Calls(V("a"), <<>>))), ExportDefault(Some)>>),
    Lined(<<Import(<<"a">>), Let(V("b"), <<TypeofIs(Calls(V("a"), <<>>))>>), ExportDefault(Some)>>),
    Lined(<<Import(<<"a">>), Cond(Void(New(V("a"))), <<Block(<<>>)>>), ExportDefault(Some)>>)
>>

-----------------------------------------------------------------------------
(* The names that a pattern binds, or that a block or a module declares.   *)
RECURSIVE Bound(_)
Bound(target) ==
    IF target.type \in {"ArrayPattern", "ObjectPattern"} THEN UNION {Bound(p) : p \in ToSet(target.kids)}
    ELSE {target.name}
RECURSIVE Declared(_)
Declared(node) ==
    CASE node.type = "VariableDeclaration" -> UNION {Bound(d.kids[1]) : d \in ToSet(node.kids)}
      [] node.type \in {"FunctionDeclaration", "ClassDeclaration", "ImportSpecifier"} -> {node.name}
      [] node.type \in {"ImportDeclaration"} \cup Exports -> UNION {Declared(k) : k \in ToSet(node.kids)}
      [] OTHER -> {}

(* The names that a node uses, when each scope is all of its block.        *)
RECURSIVE Used(_)
Used(node) ==
    LET inside == UNION {Used(k) : k \in ToSet(node.kids)}
    IN  CASE node.type = "Identifier" -> {node.name}
          [] node.type \in {"ArrayPattern", "ObjectPattern"} ->
                UNION {Used(p) : p \in {q \in ToSet(node.kids) : q.type # "Identifier"}}
          [] node.type = "AssignmentExpression" -> {node.name} \cup inside
          [] node.type = "VariableDeclarator" -> inside \ Bound(node.kids[1])
          [] node.type = "BlockStatement" -> inside \ UNION {Declared(k) : k \in ToSet(node.kids)}
          [] node.type \in Functions -> inside \ UNION {Bound(p) : p \in ToSet(Front(node.kids))}
          [] OTHER -> inside

RECURSIVE Names(_)
Names(node) == {node.name} \cup UNION {Names(k) : k \in ToSet(node.kids)}

(* What an expression is when it can be told, and whether evaluating a     *)
(* node can do something.                                                  *)
RECURSIVE Truth(_)
Truth(node) ==
    CASE node.type = "Literal" -> {node.name = "true"}
      [] node.type = "!" -> {~ t : t \in Truth(node.kids[1])}
      [] node.type = "&&" -> {s /\ t : s \in Truth(node.kids[1]), t \in Truth(node.kids[2])}
      [] node.type = "||" -> {s \/ t : s \in Truth(node.kids[1]), t \in Truth(node.kids[2])}
      [] OTHER -> BOOLEAN
RECURSIVE Acts(_)
Acts(node) ==
    CASE node.type \in {"CallExpression", "NewExpression", "AssignmentExpression", "delete"} -> TRUE
      [] node.type = "ImportDeclaration" -> node.kids = <<>>
      [] node.type \in Functions \cup {"ClassDeclaration"} -> FALSE
      [] node.type = "IfStatement" ->
            \/ Acts(node.kids[1])
            \/ Truth(node.kids[1]) # {FALSE} /\ Acts(node.kids[2])
            \/ Truth(node.kids[1]) # {TRUE} /\ Len(node.kids) = 3 /\ Acts(node.kids[3])
      [] OTHER -> \E k \in ToSet(node.kids) : Acts(k)

(* A statement that pure() finds to be without effect has none (comment at *)
(* src/lib/collapse.js:105, "Returns true if the node is known to be side  *)
(* effect free."): the code does not keep this, since it looks into no     *)
(* operand of a unary operator.                                            *)
PureIsPure ==
    \A i \in DOMAIN statements : folding # "bind" /\ Pure(statements[i].node) => ~ Acts(statements[i].node)

(* What a module does and exports is kept, with the statements that define *)
(* the names it uses; what is kept does something, is exported, or is      *)
(* mentioned by another that is kept; and no line is commented out that    *)
(* holds, further on, what is kept (collapse.js).  No module here has a    *)
(* call or an assignment where pure() does not look: for those of Negated  *)
(* and Misfolded it does not hold.                                         *)
Collapsed ==
    LET all == DOMAIN statements
        Of(i) == statements[i].node
        Needed(i) == Of(i).type \in Exports \/ Acts(Of(i))
        Reaches(S) == S \cup {i \in all : \E j \in S : Declared(Of(i)) \cap Names(Of(j)) # {}}
        reached == FoldLeft(LAMBDA S, i : Reaches(S), {i \in all : Needed(i)}, Numbers(statements))
    IN  /\ folding = "collapsed" =>
              /\ \A i \in all : Needed(i) => i \in rooted
              /\ \A i \in rooted, j \in all : Used(Of(i)) \cap Declared(Of(j)) # {} => j \in rooted
              /\ rooted \subseteq reached
              /\ \A i \in rooted, j \in all \ rooted :
                    j < i => statements[i].from > statements[j].to
        /\ folding = "refused" => \E i \in all : statements[i].to - statements[i].from # 1

-----------------------------------------------------------------------------
(***************************************************************************)
(* Values to be printed and read again, and texts that mean something, or  *)
(* nothing, to the reader of s-expressions.                                *)
(***************************************************************************)
ListOf(nodes) == FoldRight(LAMBDA node, tail : Pair(node, tail), nodes, NilLit)
DottedList(nodes, end) == FoldRight(LAMBDA node, tail : Pair(node, tail), nodes, end)
A == Symbol("", "a")
B == Symbol("", "b")
Quoting(name, node) == ListOf(<<Symbol("", name), node>>)

(* Atoms that are read as they are printed, and values made of them.       *)
Atoms == {Numeral(0), Numeral(-1), Str(<<>>), Str(<<"a", ".", "b", ";", "#t", "(">>), A,
          Symbol("std", "a"), Literal("undef"), NilLit, Literal("false"), Literal("true"), TypeOf("#pair_t")}
Shapes(x, y) == {x, ListOf(<<x>>), ListOf(<<x, y>>), Pair(x, y), ListOf(<<A, x, ListOf(<<y>>)>>),
                 DottedList(<<x, B>>, y), Pair(Pair(x, y), Pair(y, x)), Quoting("quote", x)}
Values == UNION {Shapes(x, y) : x \in Atoms, y \in Atoms}

(* What texts mean, and those that are refused, with the error.            *)
Meant(chars, nodes) == [text |-> chars, means |-> nodes, error |-> "read"]
Senseless(chars, nodes, error) == [text |-> chars, means |-> nodes, error |-> error]
PrintedOf(nodes, between) ==
    Meant(between \o FlattenSeq([i \in DOMAIN nodes |-> ToScheme(nodes[i]) \o between]), nodes)
WrittenTexts == {
    Meant(<<"'", "a", " ", "(", "backquote", "(", "a", " ", ",", "b", " ", ",", "@", "a", ")", ")">>,
          <<Quoting("quote", A),
            ListOf(<<Quoting("quasiquote", ListOf(<<A, Quoting("unquote", B), Quoting("unquote-splicing", A)>>))>>)>>),
    Meant(<<"(", "a", ";", "(", "b", "\r", "\n", "b", ";", "\"", "\r", ".", ";", ")", "\n", "1", ")", ";", "a">>,
          <<DottedList(<<A, B>>, Numeral(1))>>),
    Meant(<<"(", "#t", "#f", "(", "\"", "a", "\"", "\"", "b", "\"", ")", "a", "'", "b", ")", "#nil", "\t", "#?">>,
          <<ListOf(<<Literal("true"), Literal("false"), ListOf(<<Str(<<"a">>), Str(<<"b">>)>>), A,
                     Quoting("quote", B)>>), NilLit, Literal("undef")>>),
    Meant(<<"(", "a", " ", ".", "(", "b", " ", ".", "'", "a", ")", ")", "1", ";", "\r", "b">>,
          <<DottedList(<<A, B>>, Quoting("quote", A)), Numeral(1), B>>),
    Meant(<<"a", ".", "b", "\n", "(", ")", "(", "(", ")", ".", "#actor_t", ")">>,
          <<Symbol("a", "b"), NilLit, Pair(NilLit, TypeOf("#actor_t"))>>),
    Meant(<<>>, <<>>), Meant(<<";", "a">>, <<>>),
    Senseless(<<"a", "(", ".", " ", "b", ")">>, <<A>>, "unexpected dot"),
    Senseless(<<"'", ".">>, <<>>, "unexpected dot"),
    Senseless(<<"(", "a", " ", ".", "a", " ", "b", ")", "a">>, <<>>, "expected ')'"),
    Senseless(<<"(", "(", "a", " ", ".", "a", " ", "b", " ", ".", "b", ")", ")">>, <<>>, "expected ')'"),
    Senseless(<<"1", "(", "a", " ", "(", "b", ")", "'">>, <<Numeral(1)>>, "end of input"),
    Senseless(<<"(", "a", " ", ";", ")">>, <<>>, "end of input"),
    Senseless(<<"a", ".", "b", ".", "a">>, <<>>, "invalid namespace"),
    Senseless(<<"(", "#t", "a", ")">>, <<>>, "unknown literal"),
    Senseless(<<"#unknown">>, <<>>, "unknown literal")}

(* What to_scheme() prints, between blanks or comments, and the others.    *)
MCSchemeTexts ==
    {PrintedOf(<<v>>, <<" ">>) : v \in Values}
    \cup {PrintedOf(<<x, y, x>>, between) : x \in Atoms, y \in Shapes(A, B),
              between \in {<<"\n">>, <<" ", ";", "(", "\r", "\n">>, <<";", "\r">>}} \cup WrittenTexts
MCIntegral == {-1, 0, 1}

(* What was printed is read as the value it was, also next to others and   *)
(* to comments, a written text is read as what it means, and a text that   *)
(* means nothing is an error, after what precedes it was read.             *)
SexprsRead == reading # "reading" =>
    /\ sexprs = sourceText.means
    /\ reading = sourceText.error

(***************************************************************************)
(* The texts, the clipboards and the selections of the editor.             *)
(***************************************************************************)
MCFirst == {<<>>, <<"sp", "x", "nl", "x">>}
MCPasted == {<<>>, <<"x">>}
MCCursors == {<<0, 0>>, <<1, 1>>, <<4, 1>>}

-----------------------------------------------------------------------------
(***************************************************************************)
(* Clients of a WebSocket server and what they are to see.                 *)
(***************************************************************************)
FrameOf(fin, opcode, payload, mask) == [fin |-> fin, opcode |-> opcode, payload |-> payload, mask |-> mask]
Ones(n) == [i \in 1..n |-> 1]
Mixed(n) == [i \in 1..n |-> i % 2]
MCUploads == {
    \* every form of the length
    <<FrameOf(TRUE, TextFrame, <<>>, <<1, 0>>), FrameOf(TRUE, BinaryFrame, <<0>>, <<1, 1>>),
      FrameOf(TRUE, TextFrame, <<1, 0>>, <<0, 1>>)>>,
    <<FrameOf(TRUE, BinaryFrame, Mixed(3), <<1, 0>>), FrameOf(TRUE, TextFrame, Ones(4), <<0, 1>>),
      FrameOf(TRUE, BinaryFrame, Mixed(5), <<1, 1>>)>>,
    \* fragments, and pings between them
    <<FrameOf(FALSE, TextFrame, <<1>>, <<1, 0>>), FrameOf(TRUE, Ping, <<0, 1>>, <<1, 1>>),
      FrameOf(FALSE, Continuation, <<>>, <<0, 0>>), FrameOf(TRUE, Continuation, <<0>>, <<0, 1>>),
      FrameOf(TRUE, BinaryFrame, <<>>, <<0, 0>>)>>,
    <<FrameOf(FALSE, BinaryFrame, Ones(4), <<0, 1>>), FrameOf(TRUE, Continuation, <<0>>, <<1, 1>>),
      FrameOf(FALSE, TextFrame, <<>>, <<1, 1>>), FrameOf(TRUE, Continuation, <<1>>, <<0, 1>>)>>,
    <<FrameOf(TRUE, Ping, Mixed(4), <<1, 0>>), FrameOf(TRUE, Ping, <<>>, <<1, 0>>), FrameOf(TRUE, TextFrame, <<1>>, <<1, 1>>)>>,
    \* a continuation of nothing
    <<FrameOf(TRUE, TextFrame, <<1>>, <<1, 0>>), FrameOf(TRUE, Ping, <<0>>, <<1, 1>>),
      FrameOf(TRUE, Continuation, <<1>>, <<1, 0>>), FrameOf(TRUE, TextFrame, <<0>>, <<1, 0>>)>>,
    \* the end
    <<FrameOf(TRUE, TextFrame, <<1>>, <<1, 0>>), FrameOf(TRUE, 8, <<>>, <<1, 0>>)>>}
MCDownloads == {<<>>, Mixed(3)}

(* What a client means by its frames: messages, and pings in between.      *)
DataFrames(frames) == SelectSeq(frames, LAMBDA f : f.opcode \in {TextFrame, BinaryFrame, Continuation})
Begins(frames, i) == Max({j \in 1..i : frames[j].opcode # Continuation})
Messages(frames) ==
    FlattenSeq([i \in DOMAIN frames |->
        IF ~ frames[i].fin THEN <<>>
        ELSE <<<<frames[Begins(frames, i)].opcode = TextFrame,
                 FlattenSeq([j \in 1..(i - Begins(frames, i) + 1) |-> frames[Begins(frames, i) + j - 1].payload])>>>>])

(* The frames of which every byte has arrived.                             *)
Bytes(frames) == FlattenSeq([i \in DOMAIN frames |-> FrameBytes(frames[i])])
Arrived == SubSeq(upload, 1, Max({k \in 0..Len(upload) :
                      Len(Bytes(SubSeq(upload, 1, k))) <= Len(Bytes(upload)) - Len(wire)}))

(* What a client makes of bytes of the server.                             *)
LengthOf(b) == CASE b[2] = 126 -> FromBigEndian(SubSeq(b, 3, 4))
                 [] b[2] = 127 -> FromBigEndian(SubSeq(b, 3, 2 + WideBytes))
                 [] OTHER -> b[2]
HeaderOf(b) == CASE b[2] = 126 -> 4 [] b[2] = 127 -> 2 + WideBytes [] OTHER -> 2
RECURSIVE Seen(_)
Seen(b) ==
    IF b = <<>> THEN <<>>
    ELSE <<<<b[1] - 128, SubSeq(b, HeaderOf(b) + 1, HeaderOf(b) + LengthOf(b))>>>>
         \o Seen(SubSeq(b, HeaderOf(b) + LengthOf(b) + 1, Len(b)))

(* A continuation with nothing before it to be continued.                  *)
Orphan(frames, i) ==
    frames[i].opcode = Continuation /\ \A j \in 1..(i - 1) : frames[j].fin \/ frames[j].opcode = Ping

(* However the bytes arrive, the server has been given each message whose  *)
(* last byte arrived, whole, unmasked and in order, and nothing else; the  *)
(* client can read all that was written, where each ping that arrived was  *)
(* answered in its turn with its payload; and the connection is closed     *)
(* once, with the reason if there was an error.  The server ends only when *)
(* a client continues what it has not begun.                               *)
WebsocketRight ==
    IF socket = "crashed" THEN \E i \in DOMAIN Arrived : Orphan(Arrived, i) ELSE
    /\ connection.received = Messages(DataFrames(Arrived))
    /\ Seen(connection.written) = sentMessages
    /\ SelectSeq(sentMessages, LAMBDA m : m[1] = Pong)
           = FlattenSeq([i \in DOMAIN Arrived |->
                IF Arrived[i].opcode = Ping THEN <<<<Pong, Arrived[i].payload>>>> ELSE <<>>])
    /\ closes \in {<<>>, <<closeReason>>}
    /\ (Len(Arrived) = Len(upload) /\ \E i \in DOMAIN upload : upload[i].opcode = 8) => socket # "open"

-----------------------------------------------------------------------------
VARIABLE part
tools == <<part, micro, asm, editor, collapse, sexpr, websocket, director>>

(* The variables of the parts a run does not consider.                     *)
IdleMicro ==
    /\ which = 0 /\ text = <<>> /\ pos = 0 /\ phase = "none" /\ prog = <<>>
    /\ ctrlCtx = <<>> /\ tailCtx = "none" /\ words = <<>>
    /\ pc = 0 /\ dstack = <<>> /\ rstack = <<>> /\ cells = <<>>
    /\ typed = <<>> /\ readQueue = <<>> /\ rxData = 0
    /\ writeQueue = <<>> /\ writing = FALSE /\ shown = <<>> /\ lost = FALSE
IdleAsm ==
    /\ source = 0 /\ lines = <<>> /\ at = 0 /\ ctx = "none" /\ first = FALSE /\ open = <<>>
    /\ define = <<>> /\ imports = {} /\ exports = <<>> /\ refs = {} /\ types = {} /\ errors = {}
IdleEditor ==
    /\ highlight = FALSE /\ element = <<>> /\ selection = <<>> /\ changed = FALSE
    /\ composing = FALSE /\ revisions = <<>> /\ revisionNr = 0 /\ lastKnown = <<>>
    /\ now = 0 /\ acts = 0 /\ base = <<>> /\ skewed = TRUE
IdleCollapse ==
    /\ jsNr = 0 /\ main = FALSE /\ folding = "none" /\ statements = <<>> /\ marked = <<>> /\ rooted = {}
IdleSexpr == sourceText = <<>> /\ pieces = <<>> /\ lexAt = 0 /\ sexprs = <<>> /\ reading = "none"
IdleWebsocket ==
    /\ upload = <<>> /\ wire = <<>> /\ connection = <<>> /\ sentMessages = <<>>
    /\ socket = "none" /\ closeReason = "none" /\ closes = <<>>
IdleDirector == directed = <<>> /\ dirTokens = <<>> /\ dirTree = <<>> /\ dirPhase = "none"

InitTools ==
    /\ part \in {"micro", "asm", "editor", "collapse", "sexpr", "websocket", "director"}
    /\ IF part = "micro" THEN InitMicro ELSE IdleMicro
    /\ IF part = "asm" THEN InitAsm ELSE IdleAsm
    /\ IF part = "editor" THEN InitEditor ELSE IdleEditor
    /\ IF part = "collapse" THEN InitCollapse ELSE IdleCollapse
    /\ IF part = "sexpr" THEN InitSexpr ELSE IdleSexpr
    /\ IF part = "websocket" THEN InitWebsocket ELSE IdleWebsocket
    /\ IF part = "director" THEN InitDirector ELSE IdleDirector

NextTool ==
    /\ UNCHANGED part
    /\ \/ part = "micro" /\ NextMicro /\ UNCHANGED <<asm, editor, collapse, sexpr, websocket, director>>
       \/ part = "asm" /\ NextAsm /\ UNCHANGED <<micro, editor, collapse, sexpr, websocket, director>>
       \/ part = "editor" /\ NextEditor /\ UNCHANGED <<micro, asm, collapse, sexpr, websocket, director>>
       \/ part = "collapse" /\ NextCollapse /\ UNCHANGED <<micro, asm, editor, sexpr, websocket, director>>
       \/ part = "sexpr" /\ NextSexpr /\ UNCHANGED <<micro, asm, editor, collapse, websocket, director>>
       \/ part = "websocket" /\ NextWebsocket /\ UNCHANGED <<micro, asm, editor, collapse, sexpr, director>>
       \/ part = "director" /\ NextDirector /\ UNCHANGED <<micro, asm, editor, collapse, sexpr, websocket>>

-----------------------------------------------------------------------------
(* What goes into a tool comes out as it is to: microcode does what its    *)
(* program means, what is assembled is what was printed, and the edits of  *)
(* a history lead to the text (MicroRight, AssembledRight, EditsUndone);   *)
(* a collapsed module keeps what it needs (Collapsed), s-expressions are   *)
(* read as what they mean (SexprsRead), messages come whole and in order   *)
(* (WebsocketRight), and the tokens and trees of Director are those that   *)
(* were written (DirectorRight).                                           *)
ToolsRight ==
    /\ part = "micro" => MicroRight
    /\ part = "asm" => AssembledRight
    /\ part = "collapse" => Collapsed
    /\ part = "sexpr" => SexprsRead
    /\ part = "websocket" => WebsocketRight
    /\ part = "director" => DirectorRight
=============================================================================
