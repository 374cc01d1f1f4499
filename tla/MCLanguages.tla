------------------------------- MODULE MCLanguages -------------------------------
(***************************************************************************)
(* What is written, compiled and loaded, for TLC: a run writes and reads a *)
(* value (Oed), compiles and runs a program (Scheme, Humus), sends         *)
(* messages to an actor that was compiled (MetaActor), or imports modules  *)
(* (Loader), and explores the sum of the five.                             *)
(***************************************************************************)
EXTENDS MCScheme, Humus, Oed

CONSTANTS
    Considered,                                         \* what the run considers
    Message, Behavior, None, Mutable, Endings,          \* see MetaActor
    Modules, Worlds                                     \* see Loader

ASSUME MutableAssumption == Mutable \subseteq Behavior

VARIABLES
    part,
    meta, beh, pending, txn, queue, running, used,
    world, promise, exports, rom, wanted

actor == <<meta, beh, pending, txn, queue, running, used>>
loading == <<world, promise, exports, rom, wanted>>
all == <<part, vars, machine, codec, actor, loading>>

Actor == INSTANCE MetaActor
Ir == INSTANCE Loader

(* The variables of the parts a run does not consider.                     *)
IdleScheme ==
    /\ program = "none" /\ code = <<>> /\ stack = <<>> /\ msg = <<>>
    /\ env = <<>> /\ waiting = <<>> /\ answer = <<>>
IdleHumus ==
    /\ source = <<>> /\ module = <<>> /\ ip = <<>> /\ data = <<>> /\ actors = <<>>
    /\ turn = <<>> /\ mail = <<>> /\ prints = <<>>
IdleCodec ==
    /\ writer = "none" /\ value = <<>> /\ octets = <<>>
    /\ reader = "none" /\ cut = 0 /\ result = <<>>
IdleActor ==
    /\ meta = "none" /\ beh = (CHOOSE b \in Behavior : TRUE) /\ pending = <<>> /\ txn = None
    /\ queue = <<>> /\ running = {} /\ used = [m \in Message |-> None]
IdleLoader ==
    /\ world = <<>> /\ promise = [m \in Modules |-> "none"]
    /\ exports = <<>> /\ rom = <<>> /\ wanted = {}

InitParts ==
    /\ part \in Considered
    /\ IF part = "scheme" THEN Init ELSE IdleScheme
    /\ IF part = "humus" THEN InitHumus ELSE IdleHumus
    /\ IF part = "oed" THEN InitCodec ELSE IdleCodec
    /\ IF part = "actor" THEN Actor!Init ELSE IdleActor
    /\ IF part = "loader" THEN Ir!Init ELSE IdleLoader

NextPart ==
    /\ UNCHANGED part
    /\ \/ part = "scheme" /\ Next /\ UNCHANGED <<machine, codec, actor, loading>>
       \/ part = "humus" /\ NextHumus /\ UNCHANGED <<vars, codec, actor, loading>>
       \/ part = "oed" /\ NextCodec /\ UNCHANGED <<vars, machine, actor, loading>>
       \/ part = "actor" /\ Actor!Next /\ UNCHANGED <<vars, machine, codec, loading>>
       \/ part = "loader" /\ Ir!Next /\ UNCHANGED <<vars, machine, codec, actor>>

(* A step of the actor or of the loader, and their fairness.               *)
Steps(A) == part = "actor" /\ A /\ UNCHANGED <<part, vars, machine, codec, loading>>
Loads(A) == part = "loader" /\ A /\ UNCHANGED <<part, vars, machine, codec, actor>>
SpecParts ==
    /\ InitParts /\ [][NextPart]_all
    /\ WF_all(Steps(Actor!Immediate \/ Actor!Begins \/ Actor!Defer \/ Actor!Committed))
    /\ \A m \in Message : WF_all(Steps(\E r \in running : r.msg = m /\ Actor!Body(r)))
    /\ \A m \in Modules :
          /\ WF_all(Loads(Ir!Fetched(m))) /\ WF_all(Loads(Ir!Reject(m)))
          /\ []<>~(part = "loader" /\ Ir!CanLoad(m))

-----------------------------------------------------------------------------
(***************************************************************************)
(* The Humus programs that TLC compiles and runs: expressions over x, y    *)
(* and f in the positions that matter for a compiler, where x, y and f are *)
(* bound in the ways that Humus has, and programs of the claims at the end *)
(* of lib/humus.js.                                                        *)
(***************************************************************************)
I(n) == EConst(Num(n))
x1 == EId("x")
y1 == EId("y")
Apply(f, arg) == EApp(EId(f), arg)
Two(a, b) == EPair(a, b)
Show(e) == SSend(e, EId("println"))
PN(n) == PConst(Num(n))
Def(f, p, e) == SDef(PId(f), EAbs(p, e))
Xy == PPair(PId("x"), PId("y"))

Operands == {x1, I(7), Apply("f", y1)}
Expressions ==
    {x1, Two(y1, Two(x1, I(3))), Apply("f", x1), Apply("g", Apply("f", y1)), Apply("x", y1)}
    \cup {Apply("add", Two(a, b)) : a, b \in Operands}
    \cup {Two(a, Two(b, x1)) : a, b \in Operands}
    \cup {ECase(Two(x1, y1), <<<<PPair(p, PPair(PId("v"), PAny)), EId("v")>>, <<PPair(p, q), Two(y1, x1)>>, <<PAny, x1>>>>) :
            p \in {PVal(y1), PN(2), PId("z")}, q \in {PVal(x1), PN(3)}}
    \cup {ECase(Apply("less", Two(x1, y1)), <<<<PConst(Bool(TRUE)), Apply("f", a)>>, <<PId("z"), Two(EId("z"), x1)>>>>) :
            a \in {x1, Apply("f", x1)}}
    \cup {EIf(PPair(PId("z"), PVal(a)), PPair(PVal(x1), b), Two(EId("z"), y1), Apply("f", x1)) :
            a \in {x1, y1}, b \in {PN(3), PVal(Apply("f", I(2)))}}
    \cup {EApp(EAbs(p, Two(EId("z"), Two(x1, Apply("f", y1)))), Two(y1, I(9))) : p \in {PId("z"), PPair(PId("z"), PAny), PPair(PId("z"), PId("y"))}}
    \cup {EApp(EApp(EAbs(PId("a"), EAbs(PId("b"), Two(EId("b"), Two(EId("a"), y1)))), x1), I(5))}

(* In the tail position, as an argument, below values on the stack, in a   *)
(* closure, and in a block of statements.                                  *)
Places(e) ==
    {e, Apply("g", e), Two(Apply("f", I(1)), Two(e, Apply("f", x1))),
     EApp(EAbs(PAny, Two(e, x1)), I(0)),
     ECase(e, <<<<PPair(PId("w"), PId("v")), Two(EId("v"), EId("w"))>>, <<PId("w"), Two(EId("w"), Two(x1, y1))>>>>)}

(* x, y and f are of the module, the parameters of a function, or defined  *)
(* in a block, around a function, a case, or a behaviour.                  *)
DefF == Def("f", PId("a"), Apply("mul", Two(EId("a"), I(10))))
DefG == Def("g", PId("b"), Two(EId("b"), EId("b")))
Contexts(e) ==
    {<<Show(Apply("h", Two(I(2), I(3)))), Def("h", Xy, e), DefF, DefG>>,
     <<SDef(PId("y"), I(3)), SDef(PId("x"), I(2)), DefF, DefG, Show(e)>>,
     <<SCreate("actor", EAbs(PId("x"), EBlock(<<SLet(PId("y"), PVal(Apply("add", Two(x1, I(1))))), Show(e), DefF>>))),
       SSend(I(2), EId("actor")), DefG>>,
     <<SExpr(EBlock(<<Show(Apply("h", Two(I(8), I(2)))), SDef(Xy, Two(I(7), I(3))),
                      Def("h", PPair(PId("w"), PId("x")), e), DefF>>)), DefG>>,
     <<DefF, DefG, Show(ECase(Two(I(2), I(3)), <<<<PPair(PId("x"), PN(4)), I(1)>>, <<Xy, e>>>>))>>}

(* Recursion, through a name of the module, of a block, and in a tail call.*)
Sum(name, base) ==
    Def(name, Xy, ECase(Apply("less", Two(x1, I(1))),
        <<<<PConst(Bool(TRUE)), base>>,
          <<PAny, Apply(name, Two(Apply("sub", Two(x1, I(1))), Apply("add", Two(x1, y1))))>>>>))
Count(name) ==
    Def(name, PId("x"), EIf(PId("z"), PVal(Apply("less", Two(x1, EId("k")))),
        ECase(EId("z"), <<<<PConst(Bool(TRUE)), I(0)>>, <<PAny, Apply("add", Two(I(1), Apply(name, Apply("sub", Two(x1, I(1))))))>>>>), I(0)))
Recursions ==
    {<<Sum("s", y1), Show(Apply("s", Two(I(3), I(0))))>>,
     <<SDef(PId("k"), I(1)), Count("s"), Show(Apply("s", I(3)))>>,
     <<SExpr(EBlock(<<SDef(PId("k"), I(1)), Show(Two(EId("k"), Apply("s", I(2)))), Count("s")>>))>>,
     <<SExpr(EBlock(<<SDef(PId("k"), I(5)), Sum("s", Two(EId("k"), y1)), Show(Apply("s", Two(I(2), I(0))))>>))>>,
     <<Def("even", PN(0), EConst(Bool(TRUE))), Show(Two(Apply("even", I(0)), Apply("even", I(1))))>>,
     <<Def("p", PId("n"), Apply("q", Apply("sub", Two(EId("n"), I(1))))),
       Def("q", PId("n"), ECase(Apply("less", Two(EId("n"), I(2))),
            <<<<PConst(Bool(TRUE)), EId("n")>>, <<PConst(Bool(FALSE)), Apply("p", EId("n"))>>>>)),
       Show(Apply("p", I(4)))>>}

(* Actors: effects, and transactions that fail after some.                 *)
Forward(to) == EAbs(PId("m"), EBlock(<<SSend(EId("m"), EId(to))>>))
Actors ==
    {<<SCreate("a", Forward("println")), SCreate("b", Forward("a")), SSend(I(4), EId("b")), Show(I(5))>>,
     <<SDef(PId("a"), ENew(EAbs(PId("m"), EBlock(<<Show(EId("m")), SBecome(EAbs(PId("n"), EBlock(<<Show(Two(EId("m"), EId("n")))>>)))>>)))),
       SSend(I(1), EId("a")), SSend(I(1), EId("a"))>>}
    \cup {<<SCreate("a", EAbs(PId("m"), EBlock(<<Show(EId("m")), SBecome(Forward("println")), e>>))),
           SSend(I(1), EId("a")), SSend(I(1), EId("a"))>> :
             e \in {SThrow(I(0)), SDef(PN(1), EId("m")), SDef(PN(2), EId("m")), SExpr(I(3))}}
    \cup {<<SCreate("a", EAbs(PPair(PId("c"), PId("n")), e)), SSend(Two(EId("println"), I(6)), EId("a")), SSend(I(1), EId("a"))>> :
             e \in {EId("n"), EBlock(<<SSend(EId("n"), EId("c")), SSend(ESelf, EId("n"))>>)}}

(* make_claims: "become", "evaluate a block", "calling returned closures", *)
(* "destructured definition", "LET", "forward reference", and some more.   *)
Fib == EAbs(PPair(PId("cust"), PId("n")), EBlock(<<SExpr(
    ECase(Apply("less", Two(EId("n"), EId("m"))), <<
        <<PConst(Bool(FALSE)), EBlock(<<
            SCreate("k_fib", EAbs(PId("a"), EBlock(<<
                SBecome(EAbs(PId("b"), EBlock(<<SSend(Apply("add", Two(EId("a"), EId("b"))), EId("cust"))>>)))>>))),
            SSend(Two(EId("k_fib"), Apply("sub", Two(EId("n"), I(1)))), ESelf),
            SSend(Two(EId("k_fib"), Apply("sub", Two(EId("n"), I(2)))), ESelf)>>)>>,
        <<PAny, EBlock(<<SSend(EId("n"), EId("cust"))>>)>>>>))>>))
Claims ==
    {<<Def("fib_beh", PId("m"), Fib), SCreate("fib", Apply("fib_beh", I(2))),
       SSend(Two(EId("println"), I(3)), EId("fib"))>>,
     <<SDef(PId("not_a_block"), I(777)), SExpr(Apply("make", I(999))), SExpr(EId("not_a_block")),
       Def("make", PId("n"), EBlock(<<SExpr(EId("not_a_block")),
            Show(Two(EId("not_a_block"), Two(EId("local"), EId("n")))), SDef(PId("local"), I(888))>>))>>,
     <<SDef(PId("hof3"), EAbs(PId("a"), EAbs(PPair(PId("b"), PId("c")), EAbs(PId("d"),
            Two(EId("a"), Two(EId("b"), Two(EId("c"), EId("d")))))))),
       Show(EApp(EApp(Apply("hof3", I(1)), Two(I(2), I(3))), I(4)))>>,
     <<SDef(PPair(PPair(PId("a"), PId("b")), PId("c")), Two(Two(I(1), I(2)), I(3))),
       Show(Two(EId("a"), Two(EId("b"), EId("c"))))>>,
     <<SLet(PId("x"), PN(4)),
       SLet(PPair(PId("a"), PPair(PN(2), PId("c"))), PPair(PN(1), PPair(PId("b"), PPair(PN(3), PVal(Two(x1, I(5))))))),
       Show(Two(EId("c"), Two(EId("b"), EId("a"))))>>,
     <<Show(EId("d")), SDef(PId("c"), EIf(PVal(y1), PN(42), Apply("b", I(0)), EConst(Undef))),
       SDef(PId("d"), ECase(EId("c"), <<<<PN(42), Apply("b", I(0))>>, <<PAny, I(1)>>>>)),
       SDef(PId("b"), EAbs(PAny, y1)), SDef(PId("y"), Apply("a", I(42))), Def("a", PId("y"), y1)>>,
     <<SDef(PId("x"), Two(EConst(Bool(TRUE)), EAbs(PId("a"), EId("a")))), SDef(PId("plus"), EId("add")),
       Show(Apply("plus", Two(I(1), I(2)))), Show(Apply("x", I(1))), Show(Apply("and", I(1)))>>,
     <<SSend(I(1), I(2)), Show(Apply("eq", Two(Two(I(1), I(2)), Two(I(1), I(2))))), Show(Apply("compare", Two(I(3), I(2))))>>,
     <<SExpr(EBlock(<<SDef(PId("x"), EAbs(PAny, Apply("not", x1))), Show(Apply("x", I(0)))>>)),
       SDef(PId("x"), EConst(Bool(FALSE)))>>,
     <<SExpr(EApp(EAbs(PPair(PId("a"), PVal(EId("a"))), EBlock(<<Show(EId("a"))>>)), Two(I(2), I(2))))>>,
     <<>>}

Bad ==
    {<<SExpr(EId("maybe"))>>, <<Def("oops", PAny, Apply("neg", x1))>>,
     <<SExpr(EBlock(<<SDef(PId("x"), x1)>>))>>,
     <<SExpr(EBlock(<<SDef(PId("a"), EId("b")), SDef(PId("b"), EId("a"))>>))>>,
     <<SDef(PId("x"), I(1)), SDef(PId("x"), I(2))>>,
     <<SDef(PId("a"), I(1)), SExpr(EBlock(<<SDef(PId("x"), I(1)), SDef(PId("x"), I(2))>>))>>,
     <<SDef(PPair(PId("x"), PId("x")), Two(I(1), I(2)))>>,
     <<Def("foo", PPair(PId("a"), PPair(PId("b"), PId("a"))), I(1))>>,
     <<SExpr(ECase(I(1), <<<<PPair(PId("x"), PId("x")), I(1)>>>>))>>,
     <<SExpr(EBlock(<<SDef(PId("a"), I(1)), SCreate("a", I(1))>>))>>,
     <<SLet(PId("x"), PId("y"))>>}

WellFormed ==
    UNION {UNION {Contexts(p) : p \in Places(e)} : e \in Expressions}
    \cup Recursions \cup Actors \cup Claims
WholeHumus == {[good |-> TRUE, stmts |-> s] : s \in WellFormed}
              \cup {[good |-> FALSE, stmts |-> s] : s \in Bad}

(* Programs whose identifiers the compiler does not find where they are    *)
(* bound: in a function of the name of a parameter; after a block that     *)
(* defines the same name; in a function within one of its name.            *)
K == SDef(PId("k"), Apply("add", Two(I(1), I(2))))
ScopePrograms == {[good |-> TRUE, stmts |-> s] : s \in {
    <<Def("f", PPair(PId("cust"), PId("x")), EBlock(<<
        Def("g", PId("y"), Apply("add", Two(x1, y1))), SSend(Apply("g", I(1)), EId("cust"))>>)),
      SExpr(Apply("f", Two(EId("println"), I(2))))>>,
    <<K, Def("f", PPair(PAny, PId("b")), EId("b")),
      Def("g", PId("a"), Apply("f", Two(EBlock(<<SDef(PId("k"), EId("a")), Show(EId("k"))>>), EId("k")))),
      Show(Apply("g", I(1)))>>,
    <<K, Def("a", PId("p"), ECase(EId("p"), <<
        <<PN(0), EId("k")>>,
        <<PAny, EBlock(<<Def("b", PN(1), Apply("a", I(0))), Show(Two(EId("k"), Apply("b", I(1))))>>)>>>>)),
      SExpr(Apply("a", I(1)))>>}}

-----------------------------------------------------------------------------
(* The values to be written: numbers around the sizes of their encodings,  *)
(* strings in and out of ASCII, lengths of more than one octet, and what   *)
(* these make up.                                                          *)
Numbers ==
    {JsInt(n) : n \in {-65536, -256, -113, -112, -1, 0, 127, 128, 255, 256, 65535, 65536}}
    \cup {Ratio(co, e) : co \in {-257, -3, 1, 3, 255, 257}, e \in {-200, -1, 5}}
LongBlob == Blob([i \in 1..128 |-> 1])
Strings == {Str(s) : s \in {<<>>, <<65>>, <<233, 8364>>, [i \in 1..130 |-> 65]}}
Blobs == {Blob(<<>>), Blob(<<0, 143>>), LongBlob}
Few == {Null, Undefined, JsInt(5), JsInt(128), Ratio(-3, -1),
        Str(<<233>>), Blob(<<7>>)}
Extensions ==
    {Ext(m, d) : m \in {Null, JsInt(300), Obj(<<<<Str(<<110>>), True>>>>)},
                       d \in {<<>>, <<1, 2>>}}
Lists ==
    {Arr(<<>>)} \cup {Arr(<<v>>) : v \in Few}
    \cup {Arr(<<v, w>>) : v, w \in Few \cup {Arr(<<JsInt(1)>>), LongBlob}}
Objects ==
    {Obj(<<>>)}
    \cup {Obj(<<<<Str(<<97>>), v>>, <<Str(<<>>), w>>>>) :
              v, w \in Few \cup {Arr(<<JsInt(1), Null>>)}}
MCValues == {Null, True, False} \cup Numbers \cup Strings \cup Blobs
            \cup Extensions \cup Lists \cup Objects

Atoms == {Undefined, True, False, RawNil, Fix(-1), Fix(1000),
          Cap(0, <<1>>), Cap(2, <<3, 4>>)}
MCRaws == Atoms \cup {RawPair(v, w) : v, w \in Atoms}
          \cup {RawPair(v, RawPair(w, RawNil)) : v, w \in Atoms}

-----------------------------------------------------------------------------
(* Modules: main has three definitions, which refer to each other and to   *)
(* lib in all ways that matter; other imports both.                        *)
Written == INSTANCE Loader WITH Modules <- {}, Worlds <- {}    \* for its notation
Here(n) == Written!Ref("", n)
Cycle == Written!Pair(Here("a"), Written!Pair(Here("b"), Here("c")))
DefsOfA ==
    {Here("b"), Here("c"), Written!Ref("lib", "x"), Written!Pair(Written!Fix(1), Here("b")),
     Written!Instr(Here("b"), Here("c")), Written!Quad(Here("c"), Here("b"))}
DefsOfB ==
    {Written!Fix(1), Here("c"), Here("a"), Written!Ref("lib", "nope"), Cycle,
     Written!Instr(Written!Fix(2), Written!Instr(Here("a"), Written!End)),
     Written!Dict(Written!Fix(3), Here("b")), Written!Quad(Here("c"), Here("a"))}
DefsOfC ==
    {Here("b"), Written!End, Written!Type(1), Written!Dict(Here("a"), Written!Nil), Written!Ref("lib", "x"),
     Written!Pair(Here("c"), Written!Nil)}

Source(imports, export, define) ==
    [ok |-> TRUE, import |-> imports, export |-> export, define |-> define]
NoImports == [n \in {} |-> ""]
Lib == Source(NoImports, {"x"},
              <<<<"y", Here("x")>>, <<"x", Written!Pair(Written!Fix(7), Here("z"))>>,
                <<"z", Written!Fix(8)>>, <<"nope", Written!Fix(9)>>>>)
Main(a, b, c) == Source([n \in {"lib"} |-> "lib"], {"a", "c"}, <<<<"a", a>>, <<"b", b>>, <<"c", c>>>>)
Other == Source([l |-> "lib", m |-> "main"], {"p"},
                <<<<"p", Written!Pair(Written!Ref("m", "a"), Written!Ref("l", "x"))>>>>)

MCModules == {"main", "lib", "other"}
MCWorlds ==
    {[main |-> Main(a, b, c), lib |-> Lib, other |-> Other] : a \in DefsOfA, b \in DefsOfB, c \in DefsOfC}
    \cup {[main |-> [Main(Here("c"), Written!Fix(1), Written!Fix(2)) EXCEPT !.ok = ok],
           lib |-> [Lib EXCEPT !.ok = ok2, !.import = imports], other |-> Other] :
             ok, ok2 \in BOOLEAN, imports \in {NoImports, [m |-> "main"]}}

-----------------------------------------------------------------------------
(* Properties, each of the part it is about.                               *)

(* See Oed.                                                                *)
RoundTrip == part = "oed" => CodecRight

(* Programs compute what they mean; see Scheme and Humus.                  *)
ProgramsRight ==
    /\ part = "scheme" => CompiledRight
    /\ part = "humus" => HumusRight

(* The actor is a serial actor; see MetaActor.                             *)
SerialSpec == Actor!SerialSpec

(* What ROM holds is what the modules say; see Loader.                     *)
RomRight == part = "loader" => Ir!LoadedRight

(* Every message sent to the actor is handled (see MetaActor), and every   *)
(* import of a module that is not circular ends, with the module or with a *)
(* reason (see Loader).                                                    *)
EverythingEnds ==
    /\ part = "actor" => Actor!EveryHandled
    /\ \A m \in Modules :
         (part = "loader" /\ m \in wanted /\ ~Ir!Circular(m)) ~> Ir!Settled(m)
=============================================================================
