--------------------------------- MODULE Collapse ---------------------------------
(***************************************************************************)
(* The removal of dead code from a JavaScript module (src/lib/collapse.js):*)
(* import.meta.main is replaced by whether the module is the main one, and *)
(* the statements that neither do something nor are needed by others that  *)
(* do are commented out.                                                   *)
(*                                                                         *)
(* A node of the syntax tree has a type, a name where the type has one,    *)
(* and the nodes in it, in the order in which acorn-walk visits them.  A   *)
(* statement of the module also has the lines that it starts and ends in.  *)
(***************************************************************************)
EXTENDS Naturals, Sequences, SequencesExt, FiniteSetsExt, TLC

CONSTANT JsModules                  \* sequence of sequences of statements

VARIABLES
    jsNr, main, folding, statements,
    marked, rooted                  \* numbers of statements: a queue, a set

collapse == <<jsNr, main, folding, statements, marked, rooted>>

Node(type, name, kids) == [type |-> type, name |-> name, kids |-> kids]

-----------------------------------------------------------------------------
(* Each import.meta.main is replaced.                                      *)
RECURSIVE BindMain(_, _)
BindMain(node, value) ==
    IF node.type = "ImportMetaMain" THEN Node("Literal", IF value THEN "true" ELSE "false", <<>>)
    ELSE [node EXCEPT !.kids = [i \in DOMAIN @ |-> BindMain(@[i], value)]]

(* What is known of a condition: "true", "false", or nothing.              *)
RECURSIVE Boolify(_)
Boolify(node) ==
    CASE node.type = "Literal" /\ node.name \in {"true", "false"} -> node.name
      [] node.type = "&&" ->
            LET known == {Boolify(node.kids[1]), Boolify(node.kids[2])}
            IN  IF known = {"true"} THEN "true" ELSE IF "false" \in known THEN "false" ELSE ""
      [] node.type = "||" -> IF \E i \in 1..2 : Boolify(node.kids[i]) = "true" THEN "true" ELSE ""
      [] node.type = "!" ->
            LET operand == Boolify(node.kids[1])
            IN  IF operand = "true" THEN "false" ELSE IF operand = "false" THEN "true" ELSE ""
      [] OTHER -> ""

Functions == {"ArrowFunctionExpression", "FunctionExpression", "FunctionDeclaration"}
Operators == {"!", "void", "typeof"}        \* unary, other than delete

(* What is pure is not looked into, and neither is the operand of a unary  *)
(* operator: whatever it calls, the expression is pure.                    *)
RECURSIVE Pure(_)
Pure(node) ==
    \/ node.type \in Functions \cup Operators \cup {"ClassDeclaration", "Identifier", "ImportMetaResolve"}
    \/ node.type = "IfStatement" /\ Boolify(node.kids[1]) = "false"
    \/ /\ node.type \notin {"AssignmentExpression", "CallExpression", "NewExpression", "delete"}
       /\ ~ (node.type = "ImportDeclaration" /\ node.kids = <<>>)
       /\ \A i \in DOMAIN node.kids : Pure(node.kids[i])

-----------------------------------------------------------------------------
(* The identifiers that a statement defines, and those that are free in it,*)
(* in a walk that keeps a stack of scopes.                                 *)
EnterScope(scopes) == <<[define |-> {}, free |-> {}]>> \o scopes
DefineIn(scopes, name) == [scopes EXCEPT ![1].define = @ \cup {name}]

(* If only the innermost scope had it free.                                *)
MentionHere(scopes, name) ==
    IF name \in scopes[1].define THEN scopes ELSE [scopes EXCEPT ![1].free = @ \cup {name}]

(* The scopes up to the one that defines it have it free.                  *)
Mention(scopes, name) ==
    LET owners == {d \in DOMAIN scopes : name \in scopes[d].define}
    IN  [d \in DOMAIN scopes |->
            IF \A o \in owners : d < o THEN [scopes[d] EXCEPT !.free = @ \cup {name}] ELSE scopes[d]]

RECURSIVE Walk(_, _)
WalkAll(scopes, nodes) == FoldLeft(Walk, scopes, nodes)

(* What is bound: a name, a name with a default, or a pattern.             *)
Bind(scopes, target) ==
    CASE target.type = "Identifier" -> DefineIn(scopes, target.name)
      [] target.type = "AssignmentPattern" -> WalkAll(DefineIn(scopes, target.name), target.kids)
      [] OTHER -> Walk(scopes, target)
BindParameter(scopes, target) ==
    IF target.type = "RestElement" THEN DefineIn(scopes, target.name) ELSE Bind(scopes, target)

Walk(scopes, node) ==
    CASE node.type = "Identifier" -> Mention(scopes, node.name)
      [] node.type \in {"ArrayPattern", "ObjectPattern"} -> FoldLeft(Bind, scopes, node.kids)
      [] node.type = "BlockStatement" -> Tail(WalkAll(EnterScope(scopes), node.kids))
      [] node.type \in Functions ->
            LET outer == IF node.type = "FunctionDeclaration" THEN DefineIn(scopes, node.name) ELSE scopes
                inner == FoldLeft(BindParameter, EnterScope(outer), Front(node.kids))
            IN  Tail(Walk(inner, Last(node.kids)))
      [] node.type = "VariableDeclarator" -> WalkAll(Bind(scopes, Head(node.kids)), Tail(node.kids))
      [] node.type \in {"ClassDeclaration", "ImportSpecifier"} ->
            WalkAll(DefineIn(scopes, node.name), node.kids)
      [] OTHER -> WalkAll(scopes, node.kids)

AnalyzeIdents(statement) == Head(Walk(EnterScope(<<>>), statement))

-----------------------------------------------------------------------------
Numbers(seq) == [i \in DOMAIN seq |-> i]
Exports == {"ExportDefaultDeclaration", "ExportNamedDeclaration", "ExportAllDeclaration"}

(* collapse(): the text is parsed again once import.meta.main is replaced. *)
BindModule ==
    /\ folding = "bind" /\ folding' = "fold"
    /\ statements' = [i \in DOMAIN JsModules[jsNr] |->
                         [JsModules[jsNr][i] EXCEPT !.node = BindMain(@, main)]]
    /\ UNCHANGED <<jsNr, main, marked, rooted>>

FindRoots ==
    /\ folding = "fold" /\ folding' = "mark"
    /\ marked' = SelectSeq(Numbers(statements),
                           LAMBDA i : statements[i].node.type \in Exports \/ ~ Pure(statements[i].node))
    /\ UNCHANGED <<jsNr, main, statements, rooted>>

(* The first that is marked is rooted, and those that it needs are marked. *)
MarkNeeded ==
    /\ folding = "mark" /\ marked # <<>>
    /\ LET nr == Head(marked)
           free == AnalyzeIdents(statements[nr].node).free
           Needed(other) ==
               /\ other # nr /\ other \notin rooted'
               /\ free \cap AnalyzeIdents(statements[other].node).define # {}
       IN  /\ rooted' = rooted \cup {nr}
           /\ marked' = Tail(marked) \o SelectSeq(Numbers(statements), Needed)
    /\ UNCHANGED <<jsNr, main, folding, statements>>

(* A statement is commented out line by line, so that the next must not    *)
(* begin in the line it ends in.                                           *)
Sweep ==
    /\ folding = "mark" /\ marked = <<>>
    /\ LET Crowded(i) == i + 1 \in DOMAIN statements /\ statements[i + 1].from = statements[i].to
       IN  folding' = IF \E i \in DOMAIN statements \ rooted : Crowded(i) THEN "refused" ELSE "collapsed"
    /\ UNCHANGED <<jsNr, main, statements, marked, rooted>>

InitCollapse ==
    /\ jsNr \in DOMAIN JsModules /\ main \in BOOLEAN
    /\ folding = "bind" /\ statements = <<>> /\ marked = <<>> /\ rooted = {}
NextCollapse == BindModule \/ FindRoots \/ MarkNeeded \/ Sweep
=============================================================================
