--------------------------------- MODULE Humus ---------------------------------
(***************************************************************************)
(* The Humus compiler of lib/humus.js, and its code run by the core with   *)
(* the routines of lib/hum.asm.                                            *)
(*                                                                         *)
(* Code is generated from its end: an operator of the code generator takes *)
(* the record r of the code k that follows, the depth d at which the       *)
(* environment then lies in the stack, and what was generated before, and  *)
(* gives the record for the code that starts with its own.                 *)
(***************************************************************************)
EXTENDS CoreData, FiniteSets, Functions, SequencesExt

CONSTANT HumusPrograms      \* a set of [good, stmts]

VARIABLES
    source,     \* the program
    module,     \* what was compiled and loaded
    ip, data,   \* the instructions left, and the stack, the top first
    actors,     \* the closure that is the state of each actor
    turn,       \* the transaction: its actor and effects, or <<>>
    mail,       \* the event queue
    prints      \* what the debug device received

machine == <<source, module, ip, data, actors, turn, mail, prints>>

(* The syntax: patterns, expressions and statements.                       *)
PAny == <<"any">>
PId(x) == <<"ident", x>>
PConst(v) == <<"const", v>>
PPair(h, t) == <<"pair", h, t>>
PVal(e) == <<"value", e>>
EConst(v) == <<"const", v>>
EId(x) == <<"ident", x>>
EPair(h, t) == <<"pair", h, t>>
EAbs(p, b) == <<"abs", p, b>>
EApp(f, a) == <<"app", f, a>>
ECase(e, choices) == <<"case", e, choices>>         \* of <<pattern, expression>>
EIf(l, r, e, next) == <<"if", l, r, e, next>>
EBlock(stmts) == <<"block", stmts>>
ENew(e) == <<"new", e>>
ESelf == <<"self">>
SDef(p, e) == <<"def", p, e>>
SLet(l, r) == <<"let", l, r>>
SCreate(x, e) == <<"create", x, e>>
SSend(m, to) == <<"send", m, to>>
SBecome(e) == <<"become", e>>
SExpr(e) == <<"expr", e>>
SThrow(e) == <<"throw", e>>

Primitives == {"eq", "not", "and", "or", "is_boolean", "is_number", "is_function",
    "is_actor", "is_pair", "neg", "add", "sub", "mul", "compare",
    "less", "less_equal", "greater", "greater_equal"}

-----------------------------------------------------------------------------
(* Analysis.                                                               *)
RECURSIVE Flattened(_), Evaluable(_), ToExpr(_), PatternIdents(_)
Flattened(ast) == IF ast[1] = "pair" THEN <<ast[2]>> \o Flattened(ast[3]) ELSE <<ast>>

Evaluable(e) ==
    \/ e[1] \in {"abs", "const", "ident"}
    \/ e[1] = "pair" /\ Evaluable(e[2]) /\ Evaluable(e[3])
Definable(stmt) == stmt[1] = "def" /\ stmt[2][1] = "ident" /\ Evaluable(stmt[3])

(* analyze_idents: an identifier is free unless the scope it is met in, or *)
(* one around it, has defined it before.  A block does not open a scope.   *)
Scope == [define |-> {}, free |-> <<>>]
Freed(xs, s) ==
    [s EXCEPT !.free = @ \o SelectSeq(xs, LAMBDA x : x \notin s.define \cup ToSet(s.free))]

RECURSIVE Idents(_, _), IdentsOfPattern(_, _), IdentsOfStmt(_, _)
IdentsOfPattern(p, s) ==
    CASE p[1] = "ident" -> [s EXCEPT !.define = @ \cup {p[2]}]
      [] p[1] = "pair" -> IdentsOfPattern(p[3], IdentsOfPattern(p[2], s))
      [] p[1] = "value" -> Idents(p[2], s)
      [] OTHER -> s

Idents(e, s) ==
    CASE e[1] = "ident" -> Freed(<<e[2]>>, s)
      [] e[1] = "pair" -> Idents(e[3], Idents(e[2], s))
      [] e[1] = "app" -> Idents(e[3], Idents(e[2], s))
      [] e[1] = "new" -> Idents(e[2], s)
      [] e[1] = "abs" -> Freed(Idents(e[3], IdentsOfPattern(e[2], Scope)).free, s)
      [] e[1] = "case" ->
            FoldLeft(LAMBDA t, c : Freed(Idents(c[2], IdentsOfPattern(c[1], Scope)).free, t),
                     Idents(e[2], s), e[3])
      [] e[1] = "if" ->
            Idents(e[5], Freed(Idents(e[4],
                IdentsOfPattern(e[3], IdentsOfPattern(e[2], Scope))).free, s))
      [] e[1] = "block" -> FoldLeft(LAMBDA t, stmt : IdentsOfStmt(stmt, t), s, e[2])
      [] OTHER -> s

IdentsOfStmt(stmt, s) ==
    CASE stmt[1] = "def" -> Idents(stmt[3], IdentsOfPattern(stmt[2], s))
      [] stmt[1] = "let" -> IdentsOfPattern(stmt[3], IdentsOfPattern(stmt[2], s))
      [] stmt[1] = "create" -> Idents(stmt[3], IdentsOfPattern(PId(stmt[2]), s))
      [] stmt[1] = "send" -> Idents(stmt[3], Idents(stmt[2], s))
      [] OTHER -> Idents(stmt[2], s)

(* sort_stmts: Kahn's algorithm; the statement that became independent     *)
(* last is taken first.  Cyclic statements stay in their order.            *)
Dependencies(stmts) ==
    LET met == [i \in DOMAIN stmts |-> IdentsOfStmt(stmts[i], Scope)]
    IN  [i \in DOMAIN stmts |->
            {j \in DOMAIN stmts \ {i} : met[j].define \cap ToSet(met[i].free) # {}}]

RECURSIVE Kahn(_, _, _)
Kahn(depends, independents, sorted) ==
    IF independents = <<>> THEN sorted
    ELSE LET a == Last(independents)
             left == [i \in DOMAIN depends |-> depends[i] \ {a}]
             freed == SelectSeq([i \in 1..Len(depends) |-> i],
                                LAMBDA i : a \in depends[i] /\ left[i] = {})
         IN  Kahn(left, Front(independents) \o freed, Append(sorted, a))

SortStmts(stmts) ==
    LET depends == Dependencies(stmts)
        sorted == Kahn(depends, SelectSeq([i \in 1..Len(stmts) |-> i],
                                          LAMBDA i : depends[i] = {}), <<>>)
    IN  IF Len(sorted) = Len(stmts) THEN [i \in DOMAIN stmts |-> stmts[sorted[i]]] ELSE stmts

(* to_expr and solve give a set of one solution, or none.                  *)
ToExpr(p) ==
    CASE p[1] = "const" -> {EConst(p[2])}
      [] p[1] = "pair" -> {EPair(h, t) : h \in ToExpr(p[2]), t \in ToExpr(p[3])}
      [] p[1] = "value" -> {p[2]}
      [] OTHER -> {}

RECURSIVE Solve(_, _)
Solve(left, right) ==
    IF left[1] = "pair" /\ right[1] = "pair"
    THEN {<<PPair(h[1], t[1]), EPair(h[2], t[2])>> :
            h \in Solve(left[2], right[2]), t \in Solve(left[3], right[3])}
    ELSE IF ToExpr(right) # {} THEN {<<left, e>> : e \in ToExpr(right)}
    ELSE {<<right, e>> : e \in ToExpr(left)}

(***************************************************************************)
(* Static environments are patterns.  The environment of a named function  *)
(* is <<"abs", pattern, array, label>>: a reference to one of the names in *)
(* the array, which may be shared, is a closure of the label.  A parameter *)
(* at the end of a module's function is <<"param", x>>, as it is one       *)
(* object, which r.param marks in the same way.                            *)
(***************************************************************************)
Names(node, r) ==
    CASE node[1] = "abs" -> r.arrays[node[3]]
      [] node[1] = "param" /\ r.param # <<>> -> r.arrays[r.param[1]]
      [] OTHER -> {}
LabelOf(node, r) ==
    CASE node[1] = "abs" -> node[4]
      [] node[1] = "param" /\ r.param # <<>> -> r.param[2]
      [] OTHER -> 0
Bare(node) == IF node[1] = "abs" THEN node[2] ELSE node

RECURSIVE Search(_, _, _), NodeAt(_, _), NodeNth(_, _)
(* One path, or none.  Steps along the tail are squashed into one.         *)
Squash(path) ==
    IF path = <<>> THEN <<-1>> ELSE [path EXCEPT ![1] = IF @ < 0 THEN @ - 1 ELSE @ + 1]
Search(node, x, r) ==
    LET bare == Bare(node)
    IN  IF x \in Names(node, r) \/ bare \in {<<"ident", x>>, <<"param", x>>} THEN {<<>>}
        ELSE IF bare[1] # "pair" THEN {}
        ELSE LET head == Search(bare[2], x, r)
             IN  IF head # {} THEN {<<1>> \o path : path \in head}
                 ELSE {Squash(path) : path \in Search(bare[3], x, r)}

NodeNth(node, n) ==
    IF n = 0 THEN node
    ELSE IF n = 1 THEN Bare(node)[2]
    ELSE NodeNth(Bare(node)[3], IF n > 0 THEN n - 1 ELSE n + 1)
NodeAt(node, path) == FoldLeft(NodeNth, node, path)

IsTail(path) == path = <<>> \/ path[1] < 0
Decomposed(path) ==     \* decompose_path, to the end
    FlattenSeq([i \in DOMAIN path |->
        IF path[i] > 0 THEN [j \in 1..path[i] |-> IF j = path[i] THEN 1 ELSE -1]
        ELSE [j \in 1..-path[i] |-> -1]])
PathContains(a, b) == IsPrefix(Decomposed(a), Decomposed(b))

(* compact: the paths to what the identifiers need, the inherited          *)
(* environment last, or none.                                              *)
Compact(env, xs, r) ==
    LET found == SelectSeq([i \in DOMAIN xs |-> Search(env, xs[i], r)], LAMBDA s : s # {})
        inherited == FoldLeft(LAMBDA best, s :
                        IF \E path \in s : /\ IsTail(path)
                                           /\ \A b \in best : PathContains(path, b)
                        THEN s ELSE best, {}, found)
    IN  Append(SelectSeq(found, LAMBDA s :
                   \A b \in inherited, path \in s : ~PathContains(b, path)), inherited)

-----------------------------------------------------------------------------
(* Code generation.  A code is a sequence of instructions; the last may go *)
(* on at a label or in a routine of hum.asm.                               *)
Fresh == [k |-> <<>>, d |-> 0, defs |-> <<>>, arrays |-> <<>>, param |-> <<>>, errors |-> {}, pure |-> {}]
Goto(routine) == <<<<"goto", routine>>>>
AbsReturn == Goto("return")
Cont(k) == <<"cont", k>>
Routine(name) == <<"routine", name>>
Wrong(error, r) == [r EXCEPT !.errors = @ \cup {error}]

(* stack_delta.                                                            *)
Delta(op, imm) ==
    CASE op \in {"push", "pick", "self"} -> 1
      [] op \in {"end", "if", "jump", "create"} -> -1
      [] op \in {"send", "become"} -> -2
      [] op \in {"dup", "part"} -> imm
      [] op \in {"drop", "pair"} -> -imm
      [] op \in {"eq", "nth", "roll", "typeq"} -> 0

(* Op of a record that is computed once.                                   *)
With(r, Op(_)) == CHOOSE v \in {Op(s) : s \in {r}} : TRUE

(* record_stack_effect: the depth is followed backwards.                   *)
Instr(op, imm, r) == [r EXCEPT !.k = <<<<op, imm>>>> \o @, !.d = @ - Delta(op, imm)]
Instrs(code, r) ==
    [r EXCEPT !.k = code \o @,
              !.d = @ - FoldLeft(LAMBDA sum, i : sum + Delta(i[1], i[2]), 0, code)]
Fudge(delta, r) == [r EXCEPT !.d = @ - delta]
EnvAt(op, sign, r) ==       \* an instruction with env_at, or env_to
    IF r.d <= 0 THEN Wrong("depth", r)
    ELSE [r EXCEPT !.k = <<<<op, sign * r.d>>>> \o @]
PickEnv(r) == With(Fudge(1, r), LAMBDA s : EnvAt("pick", 1, s))
Depth(r, d) == [r EXCEPT !.d = d]
WithCode(r, k) == [r EXCEPT !.k = k]

(* A call of a routine, which takes args and returns to k.                 *)
Calls(routine, args, returns, r) ==
    With(r, LAMBDA s : Instrs(<<<<"push", Cont(s.k)>>, <<"push", Routine(routine)>>>>, Fudge(returns - args - 1, Instr("jump", 0, WithCode(s, <<>>)))))

(* intern: a label for the code, for more than one reference to it.        *)
Labelled(r) ==
    IF Len(r.k) = 1 /\ r.k[1][1] \in {"goto", "ref"} THEN r
    ELSE [r EXCEPT !.defs = Append(@, r.k), !.k = <<<<"ref", Len(r.defs) + 1>>>>]
Intern(r) == With(r, Labelled)

(* ir_if_instr: the branches are to agree on the depth, unless one aborts. *)
Agree(t, f, r) ==
    IF t.d # f.d /\ f.errors = {} THEN Wrong("mismatch", r) ELSE r
Joined(t, f, aborts) ==
    Agree(IF aborts THEN f ELSE t, f,
        Depth(WithCode(f, <<<<"if", t.k, f.k>>>>), (IF aborts THEN t.d ELSE f.d) - Delta("if", 0)))
IfInstr(True(_), False(_), aborts, r) ==
    With(r, LAMBDA s : With(True(s), LAMBDA t :
        With(False(Depth(WithCode(t, s.k), s.d)), LAMBDA f : Joined(t, f, aborts))))

NthInstrs(path, r) == FoldRight(LAMBDA n, s : Instr("nth", n, s), path, r)
ReplaceFalse(r) == Instrs(<<<<"drop", 1>>, <<"push", Bool(FALSE)>>>>, r)

(* ir_compact: the environment of the closure, in place of the whole one.  *)
CompactInstrs(paths, r) ==
    FoldLeft(LAMBDA s, found :
                 IF found = {} THEN Instr("push", Undef, s)
                 ELSE PickEnv(NthInstrs(CHOOSE path \in found : TRUE, s)),
             Instrs(<<<<"pair", Len(paths) - 1>>, <<"roll", -2>>, <<"drop", 1>>>>, r), paths)

(* redefinition_check.                                                     *)
PatternIdents(p) ==
    CASE p[1] = "ident" -> <<p[2]>>
      [] p[1] = "pair" -> PatternIdents(p[2]) \o PatternIdents(p[3])
      [] OTHER -> <<>>
CheckedPattern(p, r) == IF IsInjective(PatternIdents(p)) THEN r ELSE Wrong("defined", r)

(* What a statement defines, and the definitions in scope after the first  *)
(* statements of a block, the latest first.                                *)
DefPatterns(stmt) ==
    CASE stmt[1] = "def" -> {stmt[2]}
      [] stmt[1] = "let" -> {s[1] : s \in Solve(stmt[2], stmt[3])}
      [] stmt[1] = "create" -> {PId(stmt[2])}
      [] OTHER -> {}
RECURSIVE Definitions(_)
Definitions(stmts) ==
    IF stmts = <<>> THEN PAny
    ELSE LET before == Definitions(Front(stmts))
             new == DefPatterns(Last(stmts))
         IN  IF new = {} THEN before ELSE PPair(CHOOSE p \in new : TRUE, before)
Redefines(stmts, r) ==
    \E i \in DOMAIN stmts : \E p \in DefPatterns(stmts[i]) :
        \E x \in ToSet(PatternIdents(p)) : Search(Definitions(SubSeq(stmts, 1, i - 1)), x, r) # {}

NoPattern == <<"none">>     \* no def_ptrn

(* generate, of an expression, of the match of a pattern, of a procedure,  *)
(* of the statements of a block, or of what is left of the choices of a    *)
(* case.                                                                   *)
RECURSIVE Generate(_, _, _, _)
Match(p) == <<"match", p>>
Procedure(p, body) == <<"procedure", p, body>>
BlockStmts(stmts) == <<"statements", stmts>>
ChoicesOf(choices) == <<"choices", choices>>
GenPtrnMatch(p, env, def, r) == Generate(Match(p), env, def, r)

(* gen_ptrn_match.                                                         *)
Matching(p, env, def, r) ==
    CASE p[1] \in {"any", "ident"} -> Instrs(<<<<"drop", 1>>, <<"push", Bool(TRUE)>>>>, r)
      [] p[1] = "pair" ->
            Instrs(<<<<"dup", 1>>, <<"typeq", "pair">>>>, IfInstr(
                LAMBDA s : Instr("part", 1, GenPtrnMatch(p[2], env, def, IfInstr(
                    LAMBDA u : GenPtrnMatch(p[3], env, def, u), ReplaceFalse, FALSE, s))),
                ReplaceFalse, FALSE, Intern(r)))
      [] p[1] = "const" -> Instr("eq", p[2], r)
      [] p[1] = "value" -> Generate(p[2], env, def, Calls("eq", 2, 1, r))

(* gen_abs_expr.  The label is taken before, the code put there after, the *)
(* body is generated.                                                      *)
Reserved(r) == [r EXCEPT !.defs = Append(@, <<>>)]
Defined(label, code, r) ==
    With(code, LAMBDA c : [c EXCEPT !.defs[label] = c.k, !.k = r.k, !.d = r.d])

Unflattened(nodes) ==
    IF Len(nodes) = 1 THEN nodes[1] ELSE FoldRight(PPair, Front(nodes), Last(nodes))
Kept(env, paths) ==
    Unflattened([i \in DOMAIN paths |->
        IF paths[i] = {} THEN PAny ELSE NodeAt(env, CHOOSE path \in paths[i] : TRUE)])

(* The name is added to the array of the inherited environment, if it has  *)
(* one, and the label is that of a copy; else to a new array.              *)
Adds(x, array, r) == [r EXCEPT !.arrays[array] = @ \cup {x}]
NewArray(x, r) == [r EXCEPT !.arrays = Append(@, {x})]
NamedEnv(node, label, r) ==
    CASE node[1] = "abs" -> <<"abs", node[2], node[3], label>>
      [] node[1] = "param" /\ r.param # <<>> -> <<"abs", <<"ident", node[2]>>, r.param[1], label>>
      [] node[1] = "param" /\ r.param = <<>> -> node
      [] OTHER -> <<"abs", node, Len(r.arrays) + 1, label>>
NamedArrays(node, x, label, r) ==
    CASE node[1] = "abs" -> Adds(x, node[3], r)
      [] node[1] = "param" /\ r.param # <<>> -> Adds(x, r.param[1], r)
      [] node[1] = "param" /\ r.param = <<>> ->
            [NewArray(x, r) EXCEPT !.param = <<Len(r.arrays) + 1, label>>]
      [] OTHER -> NewArray(x, r)

(* args k env                                                              *)
ClosureCode(p, body, env, r) ==
    Instrs(<<<<"roll", 3>>, <<"pair", 1>>, <<"dup", 1>>, <<"nth", 1>>>>, GenPtrnMatch(p, env, NoPattern, IfInstr(
            LAMBDA s : Generate(body, env, NoPattern, s),
            LAMBDA s : Instr("push", Undef, s), FALSE, Depth(WithCode(r, AbsReturn), 2))))
MadeClosure(label, paths, r) ==
    Instr("push", <<"label", label>>, PickEnv(CompactInstrs(paths, Calls("make_closure", 2, 1, r))))

GenLabelled(p, body, node, def, label, paths, r) ==
    With(IF def[1] # "ident"
         THEN Defined(label, ClosureCode(p, body, PPair(p, node), r), r)
         ELSE Defined(label, ClosureCode(p, body, PPair(p, NamedEnv(node, label, r)),
                                         NamedArrays(node, def[2], label, r)), r),
         LAMBDA s : MadeClosure(label, paths, s))
GenKept(p, body, env, def, paths, r) ==
    With(Reserved(r), LAMBDA s :
        GenLabelled(p, body, Kept(env, paths), def, Len(r.defs) + 1, paths, s))
GenAbs(p, body, env, def, r) ==
    GenKept(p, body, env, def, Compact(env, Idents(EAbs(p, body), Scope).free, r),
            CheckedPattern(p, r))

(* gen_app_expr: a tail call, of a function the environment belongs to, or *)
(* of another; else a call that returns to k.                              *)
GenApp(f, arg, env, def, r) ==
    LET found == IF f[1] = "ident" THEN Search(env, f[2], r) ELSE {}
        own == {path \in found : IsTail(path) /\ LabelOf(NodeAt(env, path), r) # 0}
    IN  IF r.k = AbsReturn /\ own # {}
        THEN LET path == CHOOSE path \in own : TRUE
             IN  Instr("dup", 1, NthInstrs(path,
                     Instr("push", <<"label", LabelOf(NodeAt(env, path), r)>>,
                     Generate(arg, env, def, Fudge(-2, WithCode(r, Goto("self_tail_call")))))))
        ELSE IF r.k = AbsReturn
        THEN Generate(f, env, def, Generate(arg, env, def, Fudge(-1, WithCode(r, Goto("tail_call")))))
        ELSE Generate(arg, env, def, Instr("push", Cont(r.k),
                 Generate(f, env, def, Fudge(-2, WithCode(r, Goto("call"))))))

(* gen_case_choice_expr: env ... value                                     *)
GenChoiceExpr(p, e, env, r) ==
    Depth(Instrs(<<<<"pick", r.d>>, <<"roll", 2>>, <<"pair", 1>>>>, Generate(e, PPair(p, env), NoPattern,
            Instrs(<<<<"roll", 2>>, <<"drop", 1>>>>, Depth(r, 1)))), r.d)
GenCaseChoice(choices, env, def, r) ==
    IF choices = <<>> THEN Instrs(<<<<"drop", 1>>, <<"push", Undef>>>>, r)
    ELSE LET p == choices[1][1]
         IN  Instr("dup", 1, GenPtrnMatch(p, env, def, IfInstr(
                 LAMBDA s : GenChoiceExpr(p, choices[1][2], env, s),
                 LAMBDA s : Generate(ChoicesOf(Tail(choices)), env, def, s),
                 FALSE, Intern(CheckedPattern(p, r)))))
GenCase(e, choices, env, def, r) ==
    Generate(e, env, def, Generate(ChoicesOf(choices), env, def, r))

(* gen_ident_expr: the environment, the module, the primitives.  The name  *)
(* of a function around is a closure made on demand.                       *)
GenIdent(x, env, r) ==
    LET found == Search(env, x, r)
    IN  IF found = {} /\ x \in r.pure THEN Instr("push", <<"definition", x>>, r)
        ELSE IF found = {} /\ x \in Primitives THEN Instr("push", <<"instr", "primitive", x>>, r)
        ELSE IF found = {} THEN Wrong("undefined", r)
        ELSE LET path == CHOOSE path \in found : TRUE
                 label == LabelOf(NodeAt(env, path), r)
             IN  IF IsTail(path) /\ label # 0
                 THEN Instr("push", <<"label", label>>,
                          PickEnv(NthInstrs(path, Calls("make_closure", 2, 1, r))))
                 ELSE PickEnv(NthInstrs(path, r))

(* gen_if_expr, of an equation solved: the pattern is in scope in e.       *)
GenThen(p, e, env, outer) ==
    With(outer, LAMBDA s :
        Depth(Instr("pair", 1, Generate(e, PPair(p, env), NoPattern, Depth(s, 2))), s.d))
GenIf(solved, e, next, env, def, r) ==
    IF solved = {} THEN Wrong("equation", r)
    ELSE LET p == (CHOOSE s \in solved : TRUE)[1]
             value == (CHOOSE s \in solved : TRUE)[2]
         IN  PickEnv(Generate(value, env, def, Instr("dup", 1, GenPtrnMatch(p, env, def, IfInstr(
                 LAMBDA s : GenThen(p, e, env, Instrs(<<<<"roll", -2>>, <<"drop", 1>>>>, s)),
                 LAMBDA s : Instr("drop", 2, Generate(next, env, def, s)),
                 FALSE, CheckedPattern(p, r))))))

(* gen_pair_expr: the patterns of a definition go with the elements.       *)
RECURSIVE GenElements(_, _, _, _, _)
GenElements(n, elements, patterns, env, r) ==
    IF n > Len(elements) THEN r
    ELSE GenElements(n + 1, elements, patterns, env, Generate(elements[n], env,
             IF n \in DOMAIN patterns THEN patterns[n] ELSE NoPattern, r))
GenPair(elements, patterns, env, r) ==
    GenElements(1, elements, patterns, env, Instr("pair", Len(elements) - 1, r))

GenNew(e, env, def, r) ==
    Generate(e, env, def, Instrs(<<<<"push", Routine("beh")>>, <<"create", 0>>>>, r))

(* env ... rest value,scope                                                *)
ExtendEnv(r) ==
    Instrs(<<<<"pair", 1>>, <<"pair", 1>>>>, EnvAt("roll", 1, Instr("drop", 1, EnvAt("roll", -1, r))))

GenDefStmt(p, e, env, r) ==
    PickEnv(Instr("part", 1, Generate(e, env, p, Instr("dup", 1, GenPtrnMatch(p, env, p, IfInstr(
        ExtendEnv,
        LAMBDA s : Instrs(<<<<"drop", 3>>, <<"push", Undef>>, <<"end", "abort">>>>, WithCode(s, <<>>)),
        TRUE, CheckedPattern(p, r)))))))
GenLetStmt(solved, env, r) ==
    IF solved = {} THEN Wrong("equation", r)
    ELSE LET s == CHOOSE s \in solved : TRUE
         IN  GenDefStmt(s[1], s[2], env, r)
GenCreateStmt(e, env, r) ==
    PickEnv(Instr("part", 1, GenNew(e, env, NoPattern, ExtendEnv(r))))
GenSendStmt(m, to, env, r) ==
    Generate(m, env, NoPattern, Generate(to, env, NoPattern,
        Instrs(<<<<"dup", 1>>, <<"typeq", "actor">>>>, IfInstr(
            LAMBDA s : Instr("send", 0, s), LAMBDA s : Instr("drop", 2, s), FALSE, r))))
GenBecomeStmt(e, env, r) ==
    Generate(e, env, NoPattern, Instrs(<<<<"push", Routine("beh")>>, <<"become", 0>>>>, r))
GenExprStmt(e, env, r) == Generate(e, env, NoPattern, Calls("execute_block", 1, 0, r))
GenThrowStmt(e, env, r) == Generate(e, env, NoPattern, Instr("end", "abort", WithCode(r, <<>>)))

GenStmt(stmt, env, r) ==
    CASE stmt[1] = "def" -> GenDefStmt(stmt[2], stmt[3], env, r)
      [] stmt[1] = "let" -> GenLetStmt(Solve(stmt[2], stmt[3]), env, r)
      [] stmt[1] = "create" -> GenCreateStmt(stmt[3], env, r)
      [] stmt[1] = "send" -> GenSendStmt(stmt[2], stmt[3], env, r)
      [] stmt[1] = "become" -> GenBecomeStmt(stmt[2], env, r)
      [] stmt[1] = "expr" -> GenExprStmt(stmt[2], env, r)
      [] stmt[1] = "throw" -> GenThrowStmt(stmt[2], env, r)

(* gen_stmt_pair, from the last statement to the first.  A definition is   *)
(* not in scope in itself, nor before it.                                  *)
RECURSIVE GenStmts(_, _, _)
GenStmts(stmts, env, r) ==
    IF stmts = <<>> THEN r
    ELSE GenStmts(Front(stmts), env,
             With(<<r, PPair(Definitions(Front(stmts)), env)>>,
                  LAMBDA v : GenStmt(Last(stmts), v[2], v[1])))

(* gen_block_code: k env                                                   *)
BlockCode(stmts, env, r) ==
    Instrs(<<<<"push", Undef>>, <<"pair", 1>>>>, GenStmts(stmts, env,
        Instrs(<<<<"drop", 1>>, <<"jump", 0>>>>, Depth(WithCode(r, <<>>), -1))))
GenBlockCode(stmts, env, r) ==
    With(SortStmts(stmts), LAMBDA sorted :
        BlockCode(sorted, env, IF Redefines(sorted, r) THEN Wrong("defined", r) ELSE r))
MadeBlock(code, r) ==
    With(code, LAMBDA c : PickEnv(Instr("push", Cont(c.k),
        Calls("make_block", 2, 1, Depth(WithCode(c, r.k), r.d)))))

(* args k                                                                  *)
ProcedureCode(p, body, env, r) ==
    Instrs(<<<<"roll", 2>>, <<"dup", 1>>>>, GenPtrnMatch(p, env, NoPattern, IfInstr(
        LAMBDA s : Generate(body, env, NoPattern, s),
        LAMBDA s : Instr("push", Undef, s), FALSE, Depth(WithCode(r, AbsReturn), 2))))

Generating(e, env, def, r) ==
    CASE e[1] = "const" -> Instr("push", e[2], r)
      [] e[1] = "ident" -> GenIdent(e[2], env, r)
      [] e[1] = "pair" ->
            GenPair(Flattened(e), IF def = NoPattern THEN <<>> ELSE Flattened(def), env, r)
      [] e[1] = "abs" -> GenAbs(e[2], e[3], env, def, r)
      [] e[1] = "app" -> GenApp(e[2], e[3], env, def, r)
      [] e[1] = "case" -> GenCase(e[2], e[3], env, def, r)
      [] e[1] = "if" -> GenIf(Solve(e[2], e[3]), e[4], e[5], env, def, r)
      [] e[1] = "block" -> MadeBlock(Generate(BlockStmts(e[2]), env, NoPattern, r), r)
      [] e[1] = "new" -> GenNew(e[2], env, def, r)
      [] e[1] = "self" -> Instr("self", 0, r)
      [] e[1] = "match" -> Matching(e[2], env, def, r)
      [] e[1] = "procedure" -> ProcedureCode(e[2], e[3], env, r)
      [] e[1] = "statements" -> GenBlockCode(e[2], env, r)
      [] e[1] = "choices" -> GenCaseChoice(e[2], env, def, r)

Generate(e, env, def, r) ==
    With(<<r, env>>, LAMBDA s : Generating(e, s[2], def, s[1]))

(* codegen.  The statements of the module that are pure.  The others are   *)
(* the block of boot, those that only seemed to be pure the last.          *)
RECURSIVE Culled(_), CompileDefs(_, _, _), Marked(_), EvalExpr(_, _, _)
DefName(stmt) == stmt[2][2]
Culled(pure) ==
    LET names == {DefName(pure[i]) : i \in DOMAIN pure} \cup Primitives
        impure == SelectInSeq(pure, LAMBDA stmt :
                    ~(ToSet(IdentsOfStmt(stmt, Scope).free) \subseteq names))
    IN  IF impure = 0 THEN [pure |-> pure, culled |-> <<>>]
        ELSE LET more == Culled(RemoveAt(pure, impure))
             IN  [more EXCEPT !.culled = <<pure[impure]>> \o @]
BootStmts(stmts) ==
    SelectSeq(stmts, LAMBDA stmt : ~Definable(stmt))
    \o Culled(SelectSeq(stmts, Definable)).culled
PureStmts(stmts) == Culled(SelectSeq(stmts, Definable)).pure

(* The environment of a function of the module is its argument.            *)
Marked(p) ==
    CASE p[1] = "ident" -> <<"param", p[2]>>
      [] p[1] = "pair" -> PPair(p[2], Marked(p[3]))
      [] OTHER -> p
(* eval_expr, to r with the value for its k.                               *)
EvalAbs(label, p, body, r) ==
    WithCode(Defined(label, Generate(Procedure(p, body), Marked(p), NoPattern, [r EXCEPT !.param = <<>>]), r),
         <<"instr", "label", label>>)
EvalExpr(e, pure, r) ==
    CASE e[1] = "const" -> WithCode(r, e[2])
      [] e[1] = "ident" ->
            WithCode(r, IF e[2] \in pure THEN <<"definition", e[2]>> ELSE <<"instr", "primitive", e[2]>>)
      [] e[1] = "pair" ->
            LET h == EvalExpr(e[2], pure, r)
                t == EvalExpr(e[3], pure, h)
            IN  WithCode(t, Pair(h.k, t.k))
      [] e[1] = "abs" -> EvalAbs(Len(r.defs) + 1, e[2], e[3], CheckedPattern(e[2], Reserved(r)))

CompileDefs(stmts, values, r) ==
    IF stmts = <<>> THEN [r EXCEPT !.k = values]
    ELSE LET one == EvalExpr(stmts[1][3], r.pure, r)
         IN  CompileDefs(Tail(stmts), values @@ (DefName(stmts[1]) :> one.k), one)

BootEnv == PPair(PPair(PId("random"), PPair(PId("timer"),
               PPair(PId("println"), PId("system")))), PAny)

(* What is loaded: the values of the module, its code and that of boot.    *)
CheckedModule(stmts, r) ==
    IF IsInjective([i \in DOMAIN SelectSeq(stmts, Definable) |->
                        DefName(SelectSeq(stmts, Definable)[i])])
    THEN r ELSE Wrong("defined", r)
WithBoot(loaded, boot) ==
    With(boot, LAMBDA b :
        [values |-> loaded.k, defs |-> b.defs, boot |-> b.k, errors |-> b.errors])
CompiledModule(stmts, loaded) ==
    WithBoot(loaded, IF stmts = <<>> THEN WithCode(loaded, <<>>)
                     ELSE Generate(BlockStmts(stmts), BootEnv, NoPattern, WithCode(loaded, <<>>)))
CompileHumus(stmts) ==
    With(CompileDefs(PureStmts(stmts), <<>>, CheckedModule(stmts,
             [Fresh EXCEPT !.pure = {DefName(s) : s \in ToSet(PureStmts(stmts))}])),
         LAMBDA loaded : CompiledModule(BootStmts(stmts), loaded))

-----------------------------------------------------------------------------
(* The core.                                                               *)
Act(n) == <<"actor", n>>        \* 0 is the debug device, 1 is boot
System == Pair(Pair(Act(-2), Pair(Act(-1), Pair(Act(0), <<"instr", "primitive", "system">>))), Undef)
Turn(self) == [self |-> self, sends |-> <<>>, next |-> <<>>, before |-> actors]
IsCode(v) == v[1] = "instr"

(* The builtins of hum.asm, of one argument.                               *)
IsBool(v) == v \in {Bool(TRUE), Bool(FALSE)}
Primitive(op, v) ==
    LET a == Nth(v, 1)
        b == Nth(v, -1)
        bools == IsBool(a) /\ IsBool(b)
    IN  CASE op = "eq" -> IF v[1] = "pair" THEN Bool(a = b) ELSE Undef
          [] op = "not" -> IF IsBool(v) THEN Bool(v = Bool(FALSE)) ELSE Undef
          [] op = "and" -> IF bools THEN Bool({a, b} = {Bool(TRUE)}) ELSE Undef
          [] op = "or" -> IF bools THEN Bool(Bool(TRUE) \in {a, b}) ELSE Undef
          [] op = "is_boolean" -> Bool(IsBool(v))
          [] op = "is_number" -> Bool(IsNum(v))
          [] op = "is_function" -> Bool(IsCode(v))
          [] op = "is_actor" -> Bool(v[1] = "actor")
          [] op = "is_pair" -> Bool(v[1] = "pair")
          [] op = "neg" -> Alu("mul", v, Num(-1))
          [] op \in {"add", "sub", "mul"} -> Alu(op, a, b)
          [] op = "compare" ->
                IF a = b THEN Num(0)
                ELSE IF Cmp("lt", b, a) = Bool(TRUE) THEN Num(1)
                ELSE IF Cmp("gt", b, a) = Bool(TRUE) THEN Num(-1) ELSE Undef
          [] op = "less" -> Cmp("gt", b, a)
          [] op = "less_equal" -> Cmp("ge", b, a)
          [] op = "greater" -> Cmp("lt", b, a)
          [] op = "greater_equal" -> Cmp("le", b, a)

(* The values of the module's definitions.                                 *)
RECURSIVE Loaded(_, _)
Loaded(v, values) ==
    CASE v[1] = "definition" -> Loaded(values[v[2]], values)
      [] v[1] = "pair" -> Pair(Loaded(v[2], values), Loaded(v[3], values))
      [] OTHER -> v

InitHumus ==
    /\ source \in HumusPrograms
    /\ module = CompileHumus(source.stmts)
    /\ actors = <<Undef>> /\ mail = <<>> /\ prints = <<>>
    /\ data = <<System, Cont(Goto("commit"))>>
    /\ IF module.errors = {} /\ module.boot # <<>>
       THEN ip = module.boot /\ turn = Turn(1)
       ELSE ip = <<>> /\ turn = <<>>

Item(i) == IF i \in DOMAIN data THEN data[i] ELSE Undef
Below(n) == SubSeq(data, n + 1, Len(data))
Rolled(n) ==
    IF n > 0 THEN <<data[n]>> \o RemoveAt(data, n) ELSE InsertAt(Below(1), -n, data[1])
Executes(op) == ip # <<>> /\ ip[1][1] = op
HumImm == ip[1][2]
Puts(s) == data' = s /\ ip' = Tail(ip) /\ UNCHANGED <<source, module, actors, turn, mail, prints>>

StackOp(op) ==
    /\ Executes(op)
    /\ CASE op = "push" -> Puts(<<Loaded(HumImm, module.values)>> \o data)
         [] op = "self" -> Puts(<<Act(turn.self)>> \o data)
         [] op = "pick" -> Puts(<<Item(HumImm)>> \o data)
         [] op = "dup" -> Puts(SubSeq(data, 1, HumImm) \o data)
         [] op = "drop" -> Puts(Below(HumImm))
         [] op = "roll" -> Puts(Rolled(HumImm))
         [] op = "pair" -> Puts(<<List(SubSeq(data, 1, HumImm), Item(HumImm + 1))>> \o Below(HumImm + 1))
         [] op = "part" -> Puts(<<Nth(Item(1), 1), Nth(Item(1), -1)>> \o Below(1))
         [] op = "nth" -> Puts(<<Nth(Item(1), HumImm)>> \o Below(1))
         [] op = "eq" -> Puts(<<Bool(Item(1) = HumImm)>> \o Below(1))
         [] op = "typeq" -> Puts(<<Bool(Item(1)[1] = HumImm)>> \o Below(1))
StackOps == {"push", "self", "pick", "dup", "drop", "roll", "pair", "part", "nth", "eq", "typeq"}

(* jump: to a continuation, a routine, a label, or a procedure, which      *)
(* finds its arguments under the continuation; a closure pushes its        *)
(* environment first.                                                      *)
Jumps(v, s) ==
    /\ UNCHANGED <<source, module, actors, turn, mail, prints>>
    /\ CASE v[1] = "cont" -> ip' = v[2] /\ data' = s
         [] v[1] = "routine" -> ip' = Goto(v[2]) /\ data' = s
         [] v[1] = "instr" /\ v[2] = "label" -> ip' = module.defs[v[3]] /\ data' = s
         [] v[1] = "instr" /\ v[2] = "closure" -> ip' = module.defs[v[3]] /\ data' = <<v[4]>> \o s
         [] v[1] = "instr" /\ v[2] = "primitive" ->
                ip' = s[1][2] /\ data' = <<Primitive(v[3], s[2])>> \o SubSeq(s, 3, Len(s))
         [] OTHER -> ip' = <<>> /\ data' = s       \* E_NOT_EXE

Jump == Executes("jump") /\ Jumps(Item(1), Below(1))
Ref == Executes("ref") /\ Jumps(<<"instr", "label", HumImm>>, data)
If ==
    /\ Executes("if")
    /\ ip' = IF Falsy(Item(1)) THEN ip[1][3] ELSE ip[1][2]
    /\ data' = Below(1)
    /\ UNCHANGED <<source, module, actors, turn, mail, prints>>

(* The routines of hum.asm, each in one step.                              *)
At_(routine) == Executes("goto") /\ HumImm = routine
MakeClosure ==      \* code env k
    At_("make_closure") /\ Jumps(Item(1), <<<<"instr", "closure", Item(3)[2], Item(2)>>>> \o Below(3))
ReturnValue ==      \* k env' rv
    At_("return") /\ Jumps(Item(3), <<Item(1)>> \o Below(3))
CallProcedure(procedure, k, args, s) ==
    IF IsCode(procedure) THEN Jumps(procedure, <<k, args>> \o s) ELSE Jumps(k, <<Undef>> \o s)
CallValue ==        \* args k procedure
    At_("call") /\ CallProcedure(Item(1), Item(2), Item(3), Below(3))
TailCallValue ==    \* k env procedure args
    At_("tail_call") /\ CallProcedure(Item(2), Item(4), Item(1), Below(4))
SelfTailCall ==     \* k env env' code args
    /\ At_("self_tail_call")
    /\ Jumps(<<"instr", "label", Item(2)[2]>>, <<Item(3), Item(5), Item(1)>> \o Below(5))
MakeBlock ==        \* env code k
    At_("make_block") /\ Jumps(Item(1), <<<<"block", Item(2), Item(3)>>>> \o Below(3))
ExecuteBlock ==     \* value k
    /\ At_("execute_block")
    /\ IF Item(2)[1] = "block" THEN Jumps(Item(2)[2], <<Item(2)[3], Item(1)>> \o Below(2))
       ELSE Jumps(Item(1), Below(2))
EqualValues ==      \* b a k
    At_("eq") /\ Jumps(Item(1), <<Bool(Item(2) = Item(3))>> \o Below(3))

(* beh_end: the behaviour of an actor is to give a block.                  *)
BehEnd ==           \* commit rv
    /\ At_("beh_end")
    /\ IF Item(1)[1] = "block" THEN Jumps(Item(1)[2], <<Item(1)[3]>> \o Below(1))
       ELSE /\ ip' = <<<<"end", "abort">>>>
            /\ UNCHANGED <<source, module, data, actors, turn, mail, prints>>

(* The effects of the transaction.                                         *)
Create ==
    /\ Executes("create")
    /\ actors' = Append(actors, Item(2))
    /\ data' = <<Act(Len(actors) + 1)>> \o Below(2)
    /\ ip' = Tail(ip) /\ UNCHANGED <<source, module, turn, mail, prints>>
Send ==
    /\ Executes("send")
    /\ turn' = [turn EXCEPT !.sends = Append(@, <<Item(1)[2], Item(2)>>)]
    /\ data' = Below(2) /\ ip' = Tail(ip) /\ UNCHANGED <<source, module, actors, mail, prints>>
Become ==
    /\ Executes("become")
    /\ turn' = [turn EXCEPT !.next = <<Item(2)>>]
    /\ data' = Below(2) /\ ip' = Tail(ip) /\ UNCHANGED <<source, module, actors, mail, prints>>

EndTurn == ip' = <<>> /\ data' = <<>> /\ turn' = <<>> /\ UNCHANGED <<source, module, prints>>
EndCommit ==
    /\ At_("commit") /\ EndTurn
    /\ mail' = mail \o turn.sends
    /\ actors' = IF turn.next = <<>> THEN actors ELSE [actors EXCEPT ![turn.self] = turn.next[1]]
EndAbort ==
    /\ Executes("end") /\ EndTurn
    /\ actors' = turn.before /\ UNCHANGED mail

(* The next event: the debug device, another device, or beh.               *)
Dispatch ==
    /\ turn = <<>> /\ mail # <<>>
    /\ mail' = Tail(mail)
    /\ LET to == mail[1][1]
       IN  IF to <= 0
           THEN /\ prints' = IF to = 0 THEN Append(prints, mail[1][2]) ELSE prints
                /\ UNCHANGED <<source, module, ip, data, actors, turn>>
           ELSE /\ ip' = <<<<"jump", 0>>>>
                /\ data' = <<actors[to], Cont(Goto("beh_end")), mail[1][2], Cont(Goto("commit"))>>
                /\ turn' = Turn(to)
                /\ UNCHANGED <<source, module, actors, prints>>

NextHumus ==
    \/ \E op \in StackOps : StackOp(op)
    \/ Jump \/ Ref \/ If
    \/ MakeClosure \/ ReturnValue \/ CallValue \/ TailCallValue \/ SelfTailCall
    \/ MakeBlock \/ ExecuteBlock \/ EqualValues \/ BehEnd
    \/ Create \/ Send \/ Become \/ EndCommit \/ EndAbort \/ Dispatch
SpecHumus == InitHumus /\ [][NextHumus]_machine
HumusDone == turn = <<>> /\ mail = <<>>

-----------------------------------------------------------------------------
(***************************************************************************)
(* The meaning of a program, without code, stacks or environments of       *)
(* positions.  w is the state of a transaction: the value v of the         *)
(* expression just evaluated, the actors, the messages sent, the behaviour *)
(* to become, and whether it failed.                                       *)
(***************************************************************************)
EmptyScope == [x \in {} |-> Undef]
Fun(p, body, scope, name) == <<"instr", "function", p, body, scope, name>>
Started(self, acts) ==
    [self |-> self, v |-> Undef, actors |-> acts, sends |-> <<>>, next |-> <<>>, failed |-> FALSE]
Gives(w, v) == [w EXCEPT !.v = v]
Fails(w) == [w EXCEPT !.failed = TRUE]

(* What a pattern binds in a value, if it matches.                         *)
RECURSIVE Binds(_, _)
Binds(p, v) ==
    CASE p[1] = "ident" -> p[2] :> v
      [] p[1] = "pair" -> Binds(p[2], Nth(v, 1)) @@ Binds(p[3], Nth(v, -1))
      [] OTHER -> EmptyScope

(* The name of a function is in scope in it.                               *)
RECURSIVE Naming(_, _, _)
Naming(p, e, v) ==
    CASE p[1] = "ident" /\ e[1] = "abs" -> Fun(v[3], v[4], v[5], p[2])
      [] p[1] = "pair" /\ e[1] = "pair" ->
            Pair(Naming(p[2], e[2], Nth(v, 1)), Naming(p[3], e[3], Nth(v, -1)))
      [] OTHER -> v

RECURSIVE Value(_, _, _, _), Matches(_, _, _, _, _), Applied(_, _, _, _), Chosen(_, _, _, _, _),
    Executed(_, _, _, _, _), GlobalValue(_, _)
Matches(p, v, scope, w, g) ==
    CASE p[1] \in {"any", "ident"} -> TRUE
      [] p[1] = "const" -> v = p[2]
      [] p[1] = "pair" -> /\ v[1] = "pair"
                          /\ Matches(p[2], v[2], scope, w, g) /\ Matches(p[3], v[3], scope, w, g)
      [] p[1] = "value" -> Value(p[2], scope, w, g).v = v

(* The definitions of the module, which are pure.                          *)
GlobalValue(x, g) ==
    IF x \in DOMAIN g
    THEN Naming(PId(x), g[x], Value(g[x], EmptyScope, Started(0, <<>>), g).v)
    ELSE <<"instr", "primitive", x>>

Applied(f, arg, w, g) ==
    IF ~IsCode(f) THEN Gives(w, Undef)
    ELSE IF f[2] = "primitive" THEN Gives(w, Primitive(f[3], arg))
    ELSE LET scope == Binds(f[3], arg) @@ (f[6] :> f) @@ f[5]
         IN  IF Matches(f[3], arg, scope, w, g) THEN Value(f[4], scope, w, g) ELSE Gives(w, Undef)

Chosen(choices, v, scope, w, g) ==
    IF choices = <<>> THEN Gives(w, Undef)
    ELSE IF Matches(choices[1][1], v, scope, w, g)
    THEN Value(choices[1][2], Binds(choices[1][1], v) @@ scope, w, g)
    ELSE Chosen(Tail(choices), v, scope, w, g)

Both(w1, e, scope, g, Op(_, _, _)) ==
    LET w2 == Value(e, scope, w1, g) IN Op(w1.v, w2.v, w2)
PairOf(v1, v2, w) == Gives(w, Pair(v1, v2))
CreateActor(w) == [w EXCEPT !.actors = Append(@, w.v), !.v = Act(Len(w.actors) + 1)]
ChosenOf(w, choices, scope, g) == Chosen(choices, w.v, scope, w, g)
IfMatches(p, w, e, next, scope, g) ==
    IF Matches(p, w.v, scope, w, g) THEN Value(e, Binds(p, w.v) @@ scope, w, g)
    ELSE Value(next, scope, w, g)

Value(e, scope, w, g) ==
    CASE e[1] = "const" -> Gives(w, e[2])
      [] e[1] = "ident" ->
            Gives(w, IF e[2] \in DOMAIN scope THEN scope[e[2]] ELSE GlobalValue(e[2], g))
      [] e[1] = "pair" -> Both(Value(e[2], scope, w, g), e[3], scope, g, PairOf)
      [] e[1] = "abs" -> Gives(w, Fun(e[2], e[3], scope, "_"))
      [] e[1] = "app" ->
            Both(Value(e[2], scope, w, g), e[3], scope, g,
                 LAMBDA f, arg, u : Applied(f, arg, u, g))
      [] e[1] = "case" -> ChosenOf(Value(e[2], scope, w, g), e[3], scope, g)
      [] e[1] = "if" ->
            LET s == CHOOSE s \in Solve(e[2], e[3]) : TRUE
            IN  IfMatches(s[1], Value(s[2], scope, w, g), e[4], e[5], scope, g)
      [] e[1] = "block" -> Gives(w, <<"block", e[2], scope>>)
      [] e[1] = "new" -> CreateActor(Value(e[2], scope, w, g))
      [] e[1] = "self" -> Gives(w, Act(w.self))

(* A statement gives the scope and the state after it.                     *)
After(scope, w) == [scope |-> scope, w |-> w]
BlockOf(w, scope, g) ==
    After(scope, IF w.v[1] = "block" THEN Executed(w.v[2], {}, w.v[3], w, g) ELSE w)
DefOf(p, e, w, scope, g) ==
    IF Matches(p, w.v, scope, w, g)
    THEN After(Binds(p, Naming(p, e, w.v)) @@ scope, w)
    ELSE After(scope, Fails(w))
SendOf(m, to, w) ==
    IF to[1] = "actor" THEN [w EXCEPT !.sends = Append(@, <<to[2], m>>)] ELSE w
CreateOf(x, w, scope) == After((x :> w.v) @@ scope, w)

Effect(stmt, scope, w, g) ==
    CASE stmt[1] = "def" -> DefOf(stmt[2], stmt[3], Value(stmt[3], scope, w, g), scope, g)
      [] stmt[1] = "let" ->
            LET s == CHOOSE s \in Solve(stmt[2], stmt[3]) : TRUE
            IN  DefOf(s[1], s[2], Value(s[2], scope, w, g), scope, g)
      [] stmt[1] = "create" -> CreateOf(stmt[2], CreateActor(Value(stmt[3], scope, w, g)), scope)
      [] stmt[1] = "send" ->
            After(scope, Both(Value(stmt[2], scope, w, g), stmt[3], scope, g, SendOf))
      [] stmt[1] = "become" ->
            After(scope, LET u == Value(stmt[2], scope, w, g) IN [u EXCEPT !.next = <<u.v>>])
      [] stmt[1] = "expr" -> BlockOf(Value(stmt[2], scope, w, g), scope, g)
      [] stmt[1] = "throw" -> After(scope, Fails(Value(stmt[2], scope, w, g)))

(* The identifiers that an expression, or a statement, needs.              *)
RECURSIVE Needs(_), NeedsOfPattern(_), NeedsOfStmt(_)
Bound1(p) == ToSet(PatternIdents(p))
DefinedBy(stmt) == UNION {Bound1(p) : p \in DefPatterns(stmt)}
NeedsOfPattern(p) ==
    CASE p[1] = "value" -> Needs(p[2])
      [] p[1] = "pair" -> NeedsOfPattern(p[2]) \cup NeedsOfPattern(p[3])
      [] OTHER -> {}
Needs(e) ==
    CASE e[1] = "ident" -> {e[2]}
      [] e[1] \in {"pair", "app"} -> Needs(e[2]) \cup Needs(e[3])
      [] e[1] = "new" -> Needs(e[2])
      [] e[1] = "abs" -> (Needs(e[3]) \cup NeedsOfPattern(e[2])) \ Bound1(e[2])
      [] e[1] = "case" -> Needs(e[2]) \cup UNION {(Needs(c[2]) \ Bound1(c[1])) \cup NeedsOfPattern(c[1]) : c \in ToSet(e[3])}
      [] e[1] = "if" -> NeedsOfPattern(e[2]) \cup NeedsOfPattern(e[3]) \cup Needs(e[5])
                        \cup (Needs(e[4]) \ (Bound1(e[2]) \cup Bound1(e[3])))
      [] e[1] = "block" -> UNION {NeedsOfStmt(s) : s \in ToSet(e[2])}
                           \ UNION {DefinedBy(s) : s \in ToSet(e[2])}
      [] OTHER -> {}
NeedsOfStmt(stmt) ==
    CASE stmt[1] = "def" -> (Needs(stmt[3]) \ Bound1(stmt[2])) \cup NeedsOfPattern(stmt[2])
      [] stmt[1] = "let" -> NeedsOfPattern(stmt[2]) \cup NeedsOfPattern(stmt[3])
      [] stmt[1] = "create" -> Needs(stmt[3]) \ {stmt[2]}
      [] stmt[1] = "send" -> Needs(stmt[2]) \cup Needs(stmt[3])
      [] OTHER -> Needs(stmt[2])

(* The statements of a block take effect in their order, but none before   *)
(* what it needs is defined.                                               *)
Proceeds(stmts, done, after, g) == Executed(stmts, done, after.scope, after.w, g)
Executed(stmts, done, scope, w, g) ==
    LET left == DOMAIN stmts \ done
        ready == {i \in left : \A j \in left \ {i} :
                    DefinedBy(stmts[j]) \cap NeedsOfStmt(stmts[i]) = {}}
        i == CHOOSE i \in ready : \A j \in ready : i <= j
    IN  IF left = {} \/ w.failed THEN w
        ELSE Proceeds(stmts, done \cup {i}, Effect(stmts[i], scope, w, g), g)

(* A transaction, to the actors and messages after it; then the next.      *)
Settled(w, acts, queue) ==
    IF w.failed THEN [actors |-> acts, mail |-> queue]
    ELSE [actors |-> IF w.next = <<>> THEN w.actors ELSE [w.actors EXCEPT ![w.self] = w.next[1]],
          mail |-> queue \o w.sends]
Behaves(w, g) == IF w.v[1] = "block" THEN Executed(w.v[2], {}, w.v[3], w, g) ELSE Fails(w)

RECURSIVE Printed(_, _)
Printed(world, g) ==
    IF world.mail = <<>> THEN <<>>
    ELSE LET to == world.mail[1][1]
             content == world.mail[1][2]
             rest == Tail(world.mail)
         IN  IF to <= 0
             THEN (IF to = 0 THEN <<content>> ELSE <<>>) \o Printed([world EXCEPT !.mail = rest], g)
             ELSE Printed(Settled(Behaves(Applied(world.actors[to], content,
                                      Started(to, world.actors), g), g),
                                  world.actors, rest), g)

BootScope == "println" :> Act(0) @@ "timer" :> Act(-1) @@ "random" :> Act(-2)
Meaning(stmts) ==
    LET pure == PureStmts(stmts)
        g == [x \in {DefName(s) : s \in ToSet(pure)} |->
                (CHOOSE s \in ToSet(pure) : DefName(s) = x)[3]]
    IN  Printed(Settled(Executed(BootStmts(stmts), {}, BootScope, Started(1, <<Undef>>), g),
                        <<Undef>>, <<>>), g)

Counts(s) == [v \in ToSet(s) |-> Cardinality({i \in DOMAIN s : s[i] = v})]

(***************************************************************************)
(* The compiler accepts the programs that are well formed, and the core    *)
(* then prints what they mean: every identifier is found where it was      *)
(* bound, at any depth of functions, blocks, cases and calls, and a        *)
(* transaction that fails in the middle leaves nothing behind.             *)
(***************************************************************************)
HumusRight ==
    /\ (module.errors = {}) = source.good
    /\ ip = <<>> /\ (turn = <<>> => mail = <<>>) /\ source.good =>
            HumusDone /\ Counts(prints) = Counts(Meaning(source.stmts))
=============================================================================
