-------------------------------- MODULE CoreData --------------------------------
(***************************************************************************)
(* The values of the core that compiled programs handle, and what the      *)
(* instructions nth, alu and cmp of core.rs compute with them.             *)
(***************************************************************************)
EXTENDS Integers, Sequences

(* Values.                                                                 *)
Lit(name) == <<"literal", name>>
Undef == Lit("#?")
Nil == Lit("#nil")
Bool(b) == Lit(IF b THEN "#t" ELSE "#f")
Num(n) == <<"fixnum", n>>
Symbol(name) == <<"symbol", name>>
Pair(h, t) == <<"pair", h, t>>
IsNum(v) == v[1] = "fixnum"
Falsy(v) == v \in {Undef, Nil, Bool(FALSE), Num(0)}

RECURSIVE Nth(_, _), List(_, _)
List(s, tail) == IF s = <<>> THEN tail ELSE Pair(s[1], List(Tail(s), tail))
Nth(v, n) ==
    IF n = 0 THEN v
    ELSE IF v[1] # "pair" THEN Undef
    ELSE IF n = 1 THEN v[2]
    ELSE Nth(v[3], IF n < 0 THEN n + 1 ELSE n - 1)

Alu(op, n, m) ==
    IF ~(IsNum(n) /\ IsNum(m)) THEN Undef
    ELSE Num(CASE op = "add" -> n[2] + m[2]
               [] op = "sub" -> n[2] - m[2]
               [] op = "mul" -> n[2] * m[2])
Cmp(op, n, m) ==
    IF op = "eq" THEN Bool(n = m)
    ELSE IF ~(IsNum(n) /\ IsNum(m)) THEN Undef
    ELSE Bool(CASE op = "lt" -> n[2] < m[2]
                [] op = "le" -> n[2] <= m[2]
                [] op = "ge" -> n[2] >= m[2]
                [] op = "gt" -> n[2] > m[2])
=============================================================================
