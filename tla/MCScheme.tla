------------------------------- MODULE MCScheme -------------------------------
(***************************************************************************)
(* The programs that TLC compiles and runs: expressions over two variables *)
(* in the positions that matter for a compiler, inside the constructs that *)
(* can bind the two.                                                       *)
(***************************************************************************)
EXTENDS Scheme

N(n) == Const(Num(n))
X == Var("x")
Y == Var("y")
T == Const(Bool(TRUE))
F == Const(Bool(FALSE))
Sym(s) == Const(Symbol(s))

(* g is a function of the module, count and rev recur, out of and in tail         *)
(* position, and list shadows the form.                                    *)
Defines ==
    [g |-> Lambda(<<"z">>, "_", <<Form("+", <<Var("z"), N(10)>>)>>),
     pick |-> Lambda(<<"a", "_">>, "r", <<N(7), Form("cons", <<Var("a"), Var("r")>>)>>),
     curry |-> Lambda(<<"a">>, "_", <<Lambda(<<"b">>, "_", <<Lambda(<<>>, "c",
                <<Form("list", <<Var("a"), Var("b"), Var("c")>>)>>)>>)>>),
     count |-> Lambda(<<"l">>, "_", <<Form("if", <<Form("pair?", <<Var("l")>>),
                Form("+", <<App(Var("count"), <<Form("cdr", <<Var("l")>>)>>), N(1)>>), N(0)>>)>>),
     rev |-> Lambda(<<"l", "a">>, "_", <<Cond(<<
                <<Form("null?", <<Var("l")>>), <<Var("a")>>>>,
                <<T, <<App(Var("rev"), <<Form("cdr", <<Var("l")>>),
                    Form("cons", <<Form("car", <<Var("l")>>), Var("a")>>)>>)>>>>>>)>>)]

Data == Const(List(<<List(<<Num(1), Num(2)>>, Nil), Num(3), Symbol("a"), Num(4)>>, Num(5)))

Simple ==
    {X, Y, N(3), F}
    \cup {Form(op, <<a, b>>) : op \in DOMAIN Sums, a \in {X, N(0), N(1)}, b \in {Y}}
    \cup {Form(op, <<X, b>>) : op \in DOMAIN Sums, b \in {N(0), N(1)}}
    \cup {Form(op, <<a, b>>) : op \in DOMAIN Compares \cup {"=", "eq?"}, a \in {X, N(2)}, b \in {Y, N(2)}}
    \cup {Form(op, <<a>>) : op \in DOMAIN Types \cup {"null?", "boolean?"}, a \in {X, Data, F, T, Var("g"), Const(Nil)}}
    \cup {Form(op, <<Data>>) : op \in DOMAIN Paths}
    \cup {Form(op, <<>>) : op \in {"and", "or", "list", "seq"}}

Composed ==
    {Form("if", <<c, a, b>>) : c \in {X, Form("<", <<X, Y>>)}, a \in {Y, App(Var("g"), <<X>>)}, b \in {App(Var("g"), <<Y>>), N(4)}}
    \cup {Form(op, <<a, b, c>>) : op \in {"and", "or", "list", "seq"}, a \in {X, F}, b \in {Form("<", <<X, Y>>), App(Var("g"), <<X>>)}, c \in {Y, T}}
    \cup {Cond(<<<<a, <<X, Y>>>>, <<F, <<X>>>>, <<b, <<App(Var("g"), <<X>>)>>>>>>) : a \in {T, F, Form(">", <<X, Y>>), App(Var("count"), <<Y>>)}, b \in {T, X}}
    \cup {App(Lambda(<<"z">>, "r", <<Form("list", <<X, Var("z"), Y, Var("r")>>)>>), a) : a \in {<<Y>>, <<X, Y, N(3)>>}}
    \cup {Let(<<"x", "z">>, <<Y, App(Var("g"), <<X>>)>>, <<Form("list", <<X, Y, Var("z")>>)>>),
          Let(<<"list">>, <<Lambda(<<"z">>, "_", <<Form("-", <<Var("z"), X>>)>>)>>, <<App(Var("list"), <<N(5)>>)>>),
          App(App(App(Var("curry"), <<X>>), <<Y>>), <<X, Y>>),
          App(Var("pick"), <<X, Y, N(1), Y>>),
          App(Var("count"), <<Form("list", <<X, Y, Form("+", <<X, N(1)>>)>>)>>),
          App(Var("rev"), <<Form("list", <<X, Y, N(8)>>), Const(Nil)>>),
          Let(<<"f">>, <<Lambda(<<"f", "n">>, "_", <<Form("if", <<Form("<", <<Var("n"), N(1)>>), Y,
                Form("+", <<App(Var("f"), <<Var("f"), Form("-", <<Var("n"), N(1)>>)>>), X>>)>>)>>)>>,
              <<App(Var("f"), <<Var("f"), N(2)>>)>>)}

(* In tail position and below a call, in an argument with the others on    *)
(* the stack, as a test, and bound by an inner lambda.                     *)
Positions(e) ==
    {e,
     Form("list", <<X, e, App(Var("g"), <<Y>>)>>),
     Form("list", <<App(Var("g"), <<X>>), N(6), e>>),
     App(Var("pick"), <<e, e, Y>>),
     Form("if", <<e, Form("cons", <<X, e>>), Y>>),
     Let(<<"z">>, <<e>>, <<X, Form("list", <<Var("z"), X, Y>>)>>)}

Bindings(e) ==
    {Let(<<"x", "y">>, <<N(2), N(-1)>>, <<e>>),
     App(Lambda(<<"y", "_", "x">>, "r", <<e>>), <<N(2), N(9), N(4), N(5)>>),
     App(App(Lambda(<<"x">>, "_", <<Lambda(<<"y">>, "_", <<e>>)>>), <<N(-1)>>), <<N(2)>>),
     Let(<<"x">>, <<N(9)>>, <<Let(<<"y", "x">>, <<X, N(2)>>, <<e>>)>>)}

WholePrograms == {[define |-> Defines, boot |-> <<N(0), b>>] :
    b \in UNION {UNION {Bindings(q) : q \in Positions(e)} : e \in Simple \cup Composed}}

(* The forms that the compiler gets wrong.                                 *)
FormPrograms == {[define |-> Defines, boot |-> <<e>>] : e \in
    {Form("not", <<T>>), Form("not", <<F>>), Form("+", <<N(1), N(2)>>)}}
=============================================================================
