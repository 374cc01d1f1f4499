--------------------------------- MODULE Scheme ---------------------------------
(***************************************************************************)
(* The compiler of lib/scheme.js, and the code it makes, run by the        *)
(* instructions of the core with the procedures new_2, gather, spread and  *)
(* continuation of lib/scm.asm.                                            *)
(*                                                                         *)
(* A program is a record of defines, which bind lambdas in the module      *)
(* environment, and the expressions that boot evaluates, of which it sends *)
(* the last to the debug device.  Every call of a closure creates an       *)
(* actor; a call that is not in tail position makes the caller wait, its   *)
(* stack in its state, until the actor answers.                            *)
(***************************************************************************)
EXTENDS CoreData, Functions, SequencesExt

CONSTANT Programs

VARIABLES
    program,
    code,       \* the instructions left: the IP
    stack,      \* the top first
    msg, env,   \* the message, and the messages of the enclosing lambdas
    waiting,    \* the actors that became a continuation, the latest last
    answer      \* what the debug device received

vars == <<program, code, stack, msg, env, waiting, answer>>

Closure(c, e) == <<"closure", c, e>>

(***************************************************************************)
(* Expressions.  Quoted data are constants; a form is an application whose *)
(* operator is a symbol that is not bound.                                 *)
(***************************************************************************)
Const(v) == <<"const", v>>
Var(x) == <<"var", x>>
App(f, args) == <<"app", f, args>>
Form(op, args) == App(Var(op), args)
Lambda(formals, rest, body) == <<"lambda", formals, rest, body>>
Let(names, exprs, body) == <<"let", names, exprs, body>>
Cond(clauses) == <<"cond", clauses>>        \* of <<test, body>>

IsConst(e) == e[1] = "const"
IsNumber(e) == IsConst(e) /\ IsNum(e[2])

-----------------------------------------------------------------------------
(* The compiler.  Code is a sequence of instructions, k what follows.      *)
CustSend == <<<<"cust_send">>>>     \* std.cust_send, the tail position
Push(v) == <<"push", v>>

(* The number of each formal in the message, after the customer.           *)
PatternToMap(formals, rest) ==
    [x \in (ToSet(formals) \cup {rest}) \ {"_"} |->
        IF x = rest THEN -(Len(formals) + 1)
        ELSE 1 + SelectLastInSeq(formals, LAMBDA f : f = x)]

Bound(ctx, x) == \E i \in DOMAIN ctx : x \in DOMAIN ctx[i]

(* A message variable, a state variable, or one of the module.  The first  *)
(* of ctx is the map of the message, the others those of the state.        *)
Variable(ctx, x) ==
    IF ~Bound(ctx, x) THEN <<<<"ref", x>>>>
    ELSE LET i == SelectInSeq(ctx, LAMBDA map : x \in DOMAIN map)
         IN  IF i = 1 THEN <<<<"msg", ctx[1][x]>>>>
             ELSE <<<<"state", i>>, <<"nth", ctx[i][x]>>>>

Paths ==    \* car .. cadddr, as numbers for nth
    [car |-> <<1>>, cdr |-> <<-1>>, cadr |-> <<2>>, caar |-> <<1, 1>>, cdar |-> <<1, -1>>,
     cddr |-> <<-2>>, caddr |-> <<3>>, cadar |-> <<1, -1, 1>>, cdddr |-> <<-3>>, cadddr |-> <<4>>]
Types == "pair?" :> "pair" @@ "number?" :> "fixnum" @@ "actor?" :> "actor"
         @@ "symbol?" :> "symbol" @@ "procedure?" :> "closure" @@ "behavior?" :> "behavior"
Compares == "<" :> "lt" @@ "<=" :> "le" @@ ">=" :> "ge" @@ ">" :> "gt"
Sums == "+" :> "add" @@ "-" :> "sub" @@ "*" :> "mul"

RECURSIVE Interpret(_, _, _), InterpretSeq(_, _, _), InterpretArgs(_, _, _),
    XlatCond(_, _, _), XlatAndOr(_, _, _, _)

InterpretSeq(ctx, body, k) ==
    IF body = <<>> THEN <<Push(Undef)>> \o k
    ELSE IF Len(body) = 1 THEN Interpret(ctx, body[1], k)
    ELSE Interpret(ctx, body[1], <<<<"drop">>>> \o InterpretSeq(ctx, Tail(body), k))

(* The arguments are evaluated from the last to the first.                 *)
InterpretArgs(ctx, args, k) ==
    IF args = <<>> THEN k
    ELSE InterpretArgs(ctx, Tail(args), Interpret(ctx, args[1], k))

(* new_lambda_ctx: the message of the parent is added to the state.        *)
CompileClosure(ctx, f) ==
    InterpretSeq(<<PatternToMap(f[2], f[3])>> \o ctx, f[4], CustSend)

(* xlat_invoke of a closure.  "call" is all from `call new_2` to the       *)
(* continuation that starts with k, "tail_call" the same up to send_msg.   *)
Invoke(ctx, f, args, k) ==
    <<Push(Nil)>> \o InterpretArgs(ctx, args,
        IF k = CustSend
        THEN <<<<"msg", 1>>, <<"pair", Len(args) + 1>>>>
             \o Interpret(ctx, f, <<<<"tail_call">>>>)
        ELSE <<<<"self">>, <<"pair", Len(args) + 1>>>>
             \o Interpret(ctx, f, <<<<"call">>>> \o k))

XlatIf(ctx, args, k) ==
    Interpret(ctx, args[1], <<<<"if", Interpret(ctx, args[2], k), Interpret(ctx, args[3], k)>>>>)

XlatCond(ctx, clauses, k) ==
    IF clauses = <<>> THEN <<Push(Undef)>> \o k
    ELSE LET test == clauses[1][1]
             body == clauses[1][2]
         IN  IF test = Const(Bool(TRUE)) THEN InterpretSeq(ctx, body, k)
             ELSE IF test = Const(Bool(FALSE)) THEN XlatCond(ctx, Tail(clauses), k)
             ELSE Interpret(ctx, test,
                     <<<<"if", InterpretSeq(ctx, body, k), XlatCond(ctx, Tail(clauses), k)>>>>)

(* xlat_and for unit TRUE, xlat_or for unit FALSE.                         *)
XlatAndOr(unit, ctx, args, k) ==
    IF args = <<>> THEN <<Push(Bool(unit))>> \o k
    ELSE LET more == IF Len(args) = 1 THEN k
                     ELSE <<<<"drop">>>> \o XlatAndOr(unit, ctx, Tail(args), k)
         IN  Interpret(ctx, args[1],
                 <<<<"dup">>, <<"if", IF unit THEN more ELSE k, IF unit THEN k ELSE more>>>>)

(* Both branches push what they have found, not its opposite.              *)
XlatNot(ctx, args, k) ==
    Interpret(ctx, args[1],
        <<<<"if", <<Push(Bool(TRUE))>> \o k, <<Push(Bool(FALSE))>> \o k>>>>)

XlatBoolean(ctx, args, k) ==
    Interpret(ctx, args[1],
        <<<<"dup">>, <<"eq", Bool(TRUE)>>,
          <<"if", k, <<<<"eq", Bool(FALSE)>>,
                      <<"if", <<Push(Bool(TRUE))>> \o k, <<Push(Bool(FALSE))>> \o k>>>>>>>>)

(* eq? and =, with the constants folded.                                   *)
XlatEq(ctx, args, k) ==
    CASE IsConst(args[1]) /\ IsConst(args[2]) -> <<Push(Bool(args[1] = args[2]))>> \o k
      [] IsConst(args[1]) /\ ~IsConst(args[2]) ->
            Interpret(ctx, args[2], <<<<"eq", args[1][2]>>>> \o k)
      [] ~IsConst(args[1]) /\ IsConst(args[2]) ->
            Interpret(ctx, args[1], <<<<"eq", args[2][2]>>>> \o k)
      [] OTHER ->
            Interpret(ctx, args[1], Interpret(ctx, args[2], <<<<"cmp", "eq">>>> \o k))

XlatCompare(op, ctx, args, k) ==
    Interpret(ctx, args[1], Interpret(ctx, args[2], <<<<"cmp", Compares[op]>>>> \o k))

(* The sum of two constants is computed, and k is left out.                *)
XlatSum(op, ctx, args, k) ==
    LET unit == Const(Num(IF op = "*" THEN 1 ELSE 0))
    IN  IF IsNumber(args[1]) /\ IsNumber(args[2])
        THEN <<Push(Alu(Sums[op], args[1][2], args[2][2]))>>
        ELSE IF args[1] = unit /\ op # "-" THEN Interpret(ctx, args[2], k)
        ELSE IF args[2] = unit THEN Interpret(ctx, args[1], k)
        ELSE Interpret(ctx, args[1], Interpret(ctx, args[2], <<<<"alu", Sums[op]>>>> \o k))

XlatPath(op, ctx, args, k) ==
    Interpret(ctx, args[1], [i \in DOMAIN Paths[op] |-> <<"nth", Paths[op][i]>>] \o k)

XlatType(op, ctx, args, k) == Interpret(ctx, args[1], <<<<"typeq", Types[op]>>>> \o k)

XlatNull(ctx, args, k) == Interpret(ctx, args[1], <<<<"eq", Nil>>>> \o k)

XlatList(ctx, args, k) ==
    <<Push(Nil)>> \o InterpretArgs(ctx, args, <<<<"pair", Len(args)>>>> \o k)

XlatCons(ctx, args, k) ==
    Interpret(ctx, args[2], Interpret(ctx, args[1], <<<<"pair", 1>>>> \o k))

XlatForm(op, ctx, args, k) ==
    CASE op \in DOMAIN Paths -> XlatPath(op, ctx, args, k)
      [] op \in DOMAIN Types -> XlatType(op, ctx, args, k)
      [] op \in DOMAIN Compares -> XlatCompare(op, ctx, args, k)
      [] op \in DOMAIN Sums -> XlatSum(op, ctx, args, k)
      [] op \in {"eq?", "="} -> XlatEq(ctx, args, k)
      [] op = "null?" -> XlatNull(ctx, args, k)
      [] op = "boolean?" -> XlatBoolean(ctx, args, k)
      [] op = "list" -> XlatList(ctx, args, k)
      [] op = "cons" -> XlatCons(ctx, args, k)
      [] op = "if" -> XlatIf(ctx, args, k)
      [] op \in {"and", "or"} -> XlatAndOr(op = "and", ctx, args, k)
      [] op = "not" -> XlatNot(ctx, args, k)
      [] op = "seq" -> InterpretSeq(ctx, args, k)

Forms == DOMAIN Paths \cup DOMAIN Types \cup DOMAIN Compares \cup DOMAIN Sums
    \cup {"eq?", "=", "null?", "boolean?", "list", "cons", "if", "and", "or", "not", "seq"}

XlatLambda(ctx, f, k) == <<<<"lambda", CompileClosure(ctx, f)>>>> \o k

(* A let is the application of a function of its names.                    *)
RewriteLet(e) == App(Lambda(e[2], "_", e[4]), e[3])

Interpret(ctx, e, k) ==
    CASE e[1] = "const" -> <<Push(e[2])>> \o k
      [] e[1] = "var" -> Variable(ctx, e[2]) \o k
      [] e[1] = "lambda" -> XlatLambda(ctx, e, k)
      [] e[1] = "let" -> Interpret(ctx, RewriteLet(e), k)
      [] e[1] = "cond" -> XlatCond(ctx, e[2], k)
      [] e[1] = "app" ->
            IF e[2][1] = "var" /\ e[2][2] \in Forms /\ ~Bound(ctx, e[2][2])
            THEN XlatForm(e[2][2], ctx, e[3], k)
            ELSE Invoke(ctx, e[2], e[3], k)

(* The code of boot: the expressions, and the report to the device.        *)
RECURSIVE CompileModule(_)
CompileModule(exprs) ==
    IF exprs = <<>> THEN <<<<"debug">>>>
    ELSE Interpret(<<>>, exprs[1], CompileModule(Tail(exprs)))

(* eval_define: a closure with an empty environment.                       *)
ModuleEnv(p, x) ==
    IF x \in DOMAIN p.define THEN Closure(CompileClosure(<<>>, p.define[x]), <<>>)
    ELSE Undef

-----------------------------------------------------------------------------
(* The core.                                                               *)
Init ==
    /\ program \in Programs
    /\ code = CompileModule(program.boot)
    /\ stack = <<>> /\ msg = Nil /\ env = <<>>
    /\ waiting = <<>> /\ answer = <<>>

Running == code # <<>> /\ answer = <<>>
Op == code[1][1]
Imm == code[1][2]
Self == <<"actor", Len(waiting) + 1>>

(* stack_pop of an empty stack gives #?.                                   *)
At(i) == IF i \in DOMAIN stack THEN stack[i] ELSE Undef
Popped(n) == [i \in 1..n |-> At(i)]
Drop(n) == SubSeq(stack, n + 1, Len(stack))
To(s) == stack' = s /\ code' = Tail(code) /\ UNCHANGED <<program, msg, env, waiting, answer>>

Compute ==
    /\ Running
    /\ CASE Op = "push" -> To(<<Imm>> \o stack)
         [] Op = "ref" -> To(<<ModuleEnv(program, Imm)>> \o stack)
         [] Op = "self" -> To(<<Self>> \o stack)
         [] Op = "msg" -> To(<<Nth(msg, Imm)>> \o stack)
         [] Op = "state" -> To(<<env[Imm - 1]>> \o stack)
         [] Op = "lambda" -> To(<<Closure(Imm, <<msg>> \o env)>> \o stack)
         [] Op = "nth" -> To(<<Nth(At(1), Imm)>> \o Drop(1))
         [] Op = "pair" -> To(<<List(Popped(Imm), At(Imm + 1))>> \o Drop(Imm + 1))
         [] Op = "eq" -> To(<<Bool(At(1) = Imm)>> \o Drop(1))
         [] Op = "typeq" -> To(<<Bool(At(1)[1] = Imm)>> \o Drop(1))
         [] Op = "cmp" -> To(<<Cmp(Imm, At(2), At(1))>> \o Drop(2))
         [] Op = "alu" -> To(<<Alu(Imm, At(2), At(1))>> \o Drop(2))
         [] Op = "dup" -> To(<<At(1)>> \o stack)
         [] Op = "drop" -> To(Drop(1))
         [] OTHER -> FALSE

Branch ==
    /\ Running /\ Op = "if"
    /\ code' = IF Falsy(At(1)) THEN code[1][3] ELSE code[1][2]
    /\ stack' = Drop(1)
    /\ UNCHANGED <<program, msg, env, waiting, answer>>

(* The actor that new_2 creates for the closure on top of the stack gets   *)
(* the message below it.  What is no closure has no code to run.           *)
Enter == LET f == At(1)
         IN  /\ code' = IF f[1] = "closure" THEN f[2] ELSE <<>>
             /\ env' = IF f[1] = "closure" THEN f[3] ELSE <<>>
             /\ msg' = At(2) /\ stack' = <<>>
             /\ UNCHANGED <<program, answer>>

TailCall == Running /\ Op = "tail_call" /\ Enter /\ UNCHANGED waiting

(* Mutant of Call: the stack below the call is not gathered.               *)
CallLosesStack ==
    /\ Running /\ Op = "call" /\ Enter
    /\ waiting' = Append(waiting, [code |-> Tail(code), stack |-> <<>>, msg |-> msg, env |-> env])

Call ==
    /\ Running /\ Op = "call" /\ Enter
    /\ waiting' = Append(waiting, [code |-> Tail(code), stack |-> Drop(2), msg |-> msg, env |-> env])

(* cust_send, and the continuation: the customer is the latest to wait.    *)
Return ==
    /\ Running /\ Op = "cust_send" /\ waiting # <<>>
    /\ Nth(msg, 1) = <<"actor", Len(waiting)>>
    /\ LET k == Last(waiting)
       IN  /\ code' = k.code /\ msg' = k.msg /\ env' = k.env
           /\ stack' = <<At(1)>> \o k.stack
    /\ waiting' = Front(waiting)
    /\ UNCHANGED <<program, answer>>

Report ==
    /\ Running /\ Op = "debug"
    /\ answer' = <<At(1)>>
    /\ UNCHANGED <<program, code, stack, msg, env, waiting>>

Next == Compute \/ Branch \/ TailCall \/ Call \/ Return \/ Report
Spec == Init /\ [][Next]_vars

-----------------------------------------------------------------------------
(* The meaning of an expression, without code, stacks or messages.         *)
RECURSIVE Eval(_, _, _), EvalBody(_, _, _), EvalApply(_, _, _)

EvalBody(body, scope, p) ==
    IF body = <<>> THEN Undef ELSE Eval(Last(body), scope, p)

(* A closure is applied to the values of the arguments.                    *)
EvalApply(f, args, p) ==
    LET n == Len(f[2][2])
        new == [x \in (ToSet(f[2][2]) \cup {f[2][3]}) \ {"_"} |->
                    IF x = f[2][3] THEN List(SubSeq(args, n + 1, Len(args)), Nil)
                    ELSE LET i == SelectLastInSeq(f[2][2], LAMBDA y : y = x)
                         IN  IF i <= Len(args) THEN args[i] ELSE Undef]
    IN  EvalBody(f[2][4], new @@ f[3], p)

EvalForm(op, v) ==
    CASE op \in DOMAIN Paths -> FoldLeft(Nth, v[1], Paths[op])
      [] op \in DOMAIN Types -> Bool(v[1][1] = Types[op])
      [] op \in DOMAIN Compares -> Cmp(Compares[op], v[1], v[2])
      [] op \in DOMAIN Sums -> Alu(Sums[op], v[1], v[2])
      [] op \in {"eq?", "="} -> Bool(v[1] = v[2])
      [] op = "null?" -> Bool(v[1] = Nil)
      [] op = "boolean?" -> Bool(v[1] \in {Bool(TRUE), Bool(FALSE)})
      [] op = "list" -> List(v, Nil)
      [] op = "cons" -> Pair(v[1], v[2])
      [] op = "not" -> Bool(Falsy(v[1]))
      [] op = "seq" -> IF v = <<>> THEN Undef ELSE Last(v)

RECURSIVE EvalChain(_, _, _, _)
EvalChain(stop, args, scope, p) ==      \* and, or: up to a value that decides
    IF args = <<>> THEN Bool(~stop)
    ELSE LET v == Eval(args[1], scope, p)
         IN  IF Len(args) = 1 \/ Falsy(v) # stop THEN v
             ELSE EvalChain(stop, Tail(args), scope, p)

Eval(e, scope, p) ==
    CASE e[1] = "const" -> e[2]
      [] e[1] = "var" ->
            IF e[2] \in DOMAIN scope THEN scope[e[2]]
            ELSE <<"closure", p.define[e[2]], <<>>>>
      [] e[1] = "lambda" -> <<"closure", e, scope>>
      [] e[1] = "let" ->
            EvalApply(<<"closure", Lambda(e[2], "_", e[4]), scope>>,
                      [i \in DOMAIN e[3] |-> Eval(e[3][i], scope, p)], p)
      [] e[1] = "cond" ->
            LET hit == SelectInSeq(e[2], LAMBDA c : ~Falsy(Eval(c[1], scope, p)))
            IN  IF hit = 0 THEN Undef ELSE EvalBody(e[2][hit][2], scope, p)
      [] e[1] = "app" ->
            LET op == e[2][2]
                form == e[2][1] = "var" /\ op \in Forms \ DOMAIN scope
                v == [i \in DOMAIN e[3] |-> Eval(e[3][i], scope, p)]
            IN  IF form /\ op = "if"
                THEN Eval(e[3][IF Falsy(Eval(e[3][1], scope, p)) THEN 3 ELSE 2], scope, p)
                ELSE IF form /\ op \in {"and", "or"} THEN EvalChain(op = "or", e[3], scope, p)
                ELSE IF form THEN EvalForm(op, v)
                ELSE EvalApply(Eval(e[2], scope, p), v, p)

(***************************************************************************)
(* The core stops with the value of the last expression at the debug       *)
(* device: the code of a form leaves one value on the stack and what was   *)
(* below it as it was, a variable is found in the message or the state of  *)
(* the actor that runs its lambda, at any depth and after any call, and    *)
(* the answer of a call meets the stack, the message and the environment   *)
(* it was made with.                                                       *)
(***************************************************************************)
CompiledRight ==
    ~ENABLED Next =>
        answer = <<EvalBody(program.boot, [x \in {} |-> Undef], program)>>
=============================================================================
