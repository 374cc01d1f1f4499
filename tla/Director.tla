------------------------------- MODULE Director -------------------------------
(***************************************************************************)
(* Director: its tokenizer (lib/dir_tokenize.js), and the parser of its    *)
(* expressions.  Tokenize maps a text to its tokens, the last of which is  *)
(* "end".                                                                  *)
(*                                                                         *)
(* A text is a sequence of characters; "newline", "return", "tab" and      *)
(* "grave" are named, and so is "wide", which stands for a character that  *)
(* is not ASCII.  Error messages are reduced to the fact of an error, and  *)
(* the lists of literals and keywords to a few of each.                    *)
(***************************************************************************)
EXTENDS Integers, Sequences, SequencesExt

Ascii ==
  << " ", "!", "\"", "#", "$", "%", "&", "'", "(", ")", "*", "+", ",", "-", ".", "/",
     "0", "1", "2", "3", "4", "5", "6", "7", "8", "9", ":", ";", "<", "=", ">", "?",
     "@", "A", "B", "C", "D", "E", "F", "G", "H", "I", "J", "K", "L", "M", "N", "O",
     "P", "Q", "R", "S", "T", "U", "V", "W", "X", "Y", "Z", "[", "\\", "]", "^", "_",
     "grave", "a", "b", "c", "d", "e", "f", "g", "h", "i", "j", "k", "l", "m", "n", "o",
     "p", "q", "r", "s", "t", "u", "v", "w", "x", "y", "z", "{", "|", "}", "~" >>

Printable == {Ascii[i] : i \in 1 .. Len(Ascii)}
CodeOf ==
  [c \in Printable |-> 31 + CHOOSE i \in 1 .. Len(Ascii) : Ascii[i] = c]
    @@ ("tab" :> 9 @@ "newline" :> 10 @@ "return" :> 13 @@ "wide" :> 233)

From(a, b) == {c \in Printable : CodeOf[a] <= CodeOf[c] /\ CodeOf[c] <= CodeOf[b]}
IsDigit == From("0", "9")
IsHex == IsDigit \cup From("A", "F")
IsNameHead == From("A", "Z") \cup From("a", "z") \cup {"_"}
IsNameTail == IsNameHead \cup IsDigit
IsPunctuation == (DOMAIN CodeOf) \ (IsNameTail \cup {"?", "@", "wide"})

Literals == {"?", "True", "eq", "add"}
Keywords == {"let", "be", "if"}
DirectiveWords == {"import", "export"}

(***************************************************************************)
(* The scanner: text[end + 1] is the next character, "" at the end of the  *)
(* text; tok is the token that is being made.                              *)
(***************************************************************************)
Char(z) == IF z.end < Len(z.text) THEN z.text[z.end + 1] ELSE ""
NextChar(z) == IF Char(z) = "" THEN z ELSE [z EXCEPT !.end = @ + 1, !.column = @ + 1]
AtEol(z) == Char(z) \in {"", "newline", "return"}
Enough(z) == Char(z) = "" \/ Char(z) \in IsPunctuation

Kind(z, kind) == [z EXCEPT !.tok.kind = kind]
Context(z, context) == [z EXCEPT !.tok.context = context]
Worth(z, value) == [z EXCEPT !.tok.value = value]

(* Past the characters of S. *)
RECURSIVE Past(_, _)
Past(z, S) == IF Char(z) \in S THEN Past(NextChar(z), S) ELSE z

(* error(): the character after the token belongs to it, whatever it is. *)
BadToken(z) == NextChar(Context(z, "error"))
Invalid(z) == BadToken(Past(NextChar(z), (DOMAIN CodeOf) \ IsPunctuation))

SliceOf(z) == FoldLeft(LAMBDA s, c : s \o c, "", SubSeq(z.text, z.tok.start + 1, z.end))

(* track_indentation(): shift is how many levels of 4 the line is further in. *)
Levels(n) == (n + 3) \div 4
TrackIndentation(z, depth) ==
  IF z.tok.column # 1 THEN z
  ELSE LET shift == IF depth > z.indentation THEN Levels(depth - z.indentation)
                    ELSE - Levels(z.indentation - depth)
           indentation == z.indentation + 4 * shift
       IN  [z EXCEPT !.indentation = indentation,
                     !.tok.shift = shift, !.tok.indentation = indentation]

SpaceToken(z) ==
  LET y == Past(z, {" "})
  IN  TrackIndentation(Kind(y, "space"), y.end - y.tok.start)

NextLine(z) == [z EXCEPT !.line = @ + 1, !.column = 1]

NewlineToken(z) == NextLine(NextChar(Kind(z, "newline")))
CarriageReturn(z) ==
  LET y == NextChar(Kind(z, "newline"))
  IN  NextLine(IF Char(y) = "newline" THEN NextChar(y) ELSE y)

Operator(z) == NextChar(Kind(z, "operator"))
Solidus(z) ==
  IF Char(NextChar(z)) = "/"
    THEN Past(Kind(NextChar(z), "comment"), (DOMAIN CodeOf) \ {"newline", "return"})
    ELSE Operator(z)

QuestionMark(z) == NextChar(Context(Kind(z, "name"), "literal"))
AtSign(z) == LET y == QuestionMark(z) IN IF Char(y) = "@" THEN NextChar(y) ELSE y
OperMaybeEqual(z) == LET y == Operator(z) IN IF Char(y) = "=" THEN NextChar(y) ELSE y
Doubled(z) == LET y == Operator(z) IN IF Char(y) = Char(z) THEN NextChar(y) ELSE BadToken(y)

NameToken(z) ==
  LET y == Past(NextChar(Kind(z, "name")), IsNameTail)
      word == SliceOf(y)
      context == CASE word \in DirectiveWords -> "directive"
                   [] word \in Literals -> "literal"
                   [] word \in Keywords -> "keyword"
                   [] OTHER -> "none"
  IN  IF Enough(y) THEN TrackIndentation(Context(y, context), 0) ELSE Invalid(y)

-----------------------------------------------------------------------------
(* Numbers *)

DigitOf(c) == CodeOf[c] - CodeOf["0"]

(* integer(): the digits, each with an underscore after it or not. *)
RECURSIVE Integer(_, _)
Integer(z, amount) ==
  IF Char(z) \notin IsDigit THEN [z |-> z, n |-> amount]
  ELSE LET y == NextChar(z)
       IN  Integer(IF Char(y) = "_" THEN NextChar(y) ELSE y, 10 * amount + DigitOf(Char(z)))

(* The digit c of a number with this base, or -1; letters are only for bases above 10. *)
Increment(c, base) ==
  LET letter == base > 10 /\ CodeOf[c] > CodeOf["9"]
      n == IF ~ letter THEN DigitOf(c)
           ELSE 10 + CodeOf[c] - CodeOf[IF CodeOf[c] < CodeOf["a"] THEN "A" ELSE "a"]
  IN  IF n >= (IF letter THEN 10 ELSE 0) /\ n < base THEN n ELSE -1

(***************************************************************************)
(* based(): v is <<base, exponent, significand>>.  At the end of the text  *)
(* the character after a dot or an underscore is no number (NaN), which is *)
(* neither less nor greater than anything, and is taken for a digit.       *)
(***************************************************************************)
RECURSIVE Based(_, _, _)
Based(z, v, dot) ==
  IF AtEol(z) THEN [z |-> z, v |-> v]
  ELSE
    LET isDot == Char(z) = "." /\ ~ dot
        y == IF Char(z) = "_" \/ isDot THEN NextChar(z) ELSE z
        past == dot \/ isDot
        nan == Char(y) = ""
        d == IF nan THEN 0 ELSE Increment(Char(y), v[1])
    IN  IF ~ nan /\ d < 0 THEN [z |-> y, v |-> v]
        ELSE Based(NextChar(y),
                   <<v[1], v[2] - (IF past THEN 1 ELSE 0),
                     IF nan THEN <<"NaN">> ELSE <<"int", v[1] * v[3][2] + d>> >>, past)

SignedBy(sign, n) == IF n[1] = "NaN" THEN n ELSE <<"int", sign * n[2]>>
PlainNumber(base, exponent, n) == <<base, exponent, <<"int", n>> >>

NumberEnd(z) == IF Enough(z) THEN z ELSE Invalid(z)

BasedNumber(z, sign, base, exponent) ==
  LET b == Based(z, <<base, exponent, <<"int", 0>> >>, FALSE)
  IN  NumberEnd(Worth(b.z, <<b.v[1], b.v[2], SignedBy(sign, b.v[3])>>))

(* n:d, or the label n of a member; z is at the colon. *)
Ratio(z, sign, n) ==
  LET y == NextChar(z)
      d == Integer(y, 0)
  IN  CASE Char(y) = " " -> Worth(z, PlainNumber(10, 0, sign * n))
        [] Char(y) \in IsDigit -> NumberEnd(Worth(d.z, PlainNumber(d.n, -1, sign * n)))
        [] OTHER -> Invalid(Worth(y, PlainNumber(10, 0, sign * n)))

NumberToken(start, sign) ==
  LET z == Worth(Kind(start, "number"), <<10, 0, <<"none">> >>)
      amount == Integer(z, 0)
      a == amount.z
      minus == Char(NextChar(a)) = "-"
      digits == IF minus THEN NextChar(NextChar(a)) ELSE NextChar(a)
      power == Integer(digits, 0)
      raised == Char(a) = "^"
      b == IF raised THEN power.z ELSE a
      exponent == IF ~ raised THEN 0 ELSE IF minus THEN - power.n ELSE power.n
  IN  CASE Char(a) = "." -> BasedNumber(z, sign, 10, 0)
        [] Char(a) = ":" -> Ratio(a, sign, amount.n)
        [] raised /\ Char(digits) \notin IsDigit -> Invalid(digits)
        [] Char(a) \notin {".", ":"} /\ (raised => Char(digits) \in IsDigit) ->
             IF Char(b) = "#" THEN BasedNumber(NextChar(b), sign, amount.n, exponent)
             ELSE NumberEnd(Worth(b, PlainNumber(10, exponent, sign * amount.n)))

(* plus(), minus() *)
Sign(z, sign) == IF Char(NextChar(z)) \in IsDigit THEN NumberToken(NextChar(z), sign) ELSE Operator(z)

-----------------------------------------------------------------------------
(* Texts *)

HexOf(c) == IF CodeOf[c] < CodeOf["A"] THEN DigitOf(c) ELSE 10 + CodeOf[c] - CodeOf["A"]

(* c << 4, of a number of 32 bits. *)
Shift(c) ==
  LET low == c % 268435456
  IN  16 * (IF low >= 134217728 THEN low - 268435456 ELSE low)

(* The digits of \u{...}: z is at one of them, or at what ends them. *)
RECURSIVE Unicode(_, _)
Unicode(z, c) ==
  IF Char(z) \notin IsHex THEN [z |-> z, n |-> c]
  ELSE Unicode(NextChar(z), Shift(c) + HexOf(Char(z)))

Escapes == "\"" :> 34 @@ "\\" :> 92 @@ "b" :> 8 @@ "n" :> 10 @@ "r" :> 13 @@ "t" :> 9

(* z is at the character after the backslash: the last one of the escape, or an error. *)
Escape(z) ==
  LET c == Char(z)
      y == NextChar(z)
      x == NextChar(y)
      wide == Unicode(x, 0)
  IN  CASE c \in DOMAIN Escapes -> [ok |-> TRUE, z |-> z, n |-> Escapes[c]]
        [] c = "x" /\ Char(y) \in IsHex /\ Char(x) \in IsHex ->
             [ok |-> TRUE, z |-> x, n |-> 16 * HexOf(Char(y)) + HexOf(Char(x))]
        [] c = "x" -> [ok |-> FALSE, z |-> IF Char(y) \in IsHex THEN x ELSE y, n |-> 0]
        [] c = "u" /\ Char(y) # "{" -> [ok |-> FALSE, z |-> y, n |-> 0]
        [] c = "u" /\ Char(y) = "{" ->
             [ok |-> Char(wide.z) = "}" /\ wide.n <= 1114111, z |-> wide.z, n |-> wide.n]
        [] c \notin (DOMAIN Escapes) \cup {"x", "u"} -> [ok |-> FALSE, z |-> z, n |-> 0]

(* z is at the quote, or at the last character of an item. *)
RECURSIVE QuotedText(_, _)
QuotedText(z, u) ==
  LET y == NextChar(z)
      e == Escape(NextChar(y))
  IN  CASE Char(y) = "\"" -> NextChar(Worth(y, u))
        [] AtEol(y) -> BadToken(y)
        [] Char(y) = "\\" -> IF e.ok THEN QuotedText(e.z, Append(u, e.n)) ELSE BadToken(e.z)
        [] OTHER -> QuotedText(y, Append(u, CodeOf[Char(y)]))

Quote(z) == QuotedText(Kind(z, "text"), <<>>)

-----------------------------------------------------------------------------
(* The tokens *)

Dispatch(z) ==
  LET c == Char(z)
  IN  CASE c = " " -> SpaceToken(z)
        [] c = "newline" -> NewlineToken(z)
        [] c = "return" -> CarriageReturn(z)
        [] c = "/" -> Solidus(z)
        [] c = "?" -> QuestionMark(z)
        [] c = "@" -> AtSign(z)
        [] c = "+" -> Sign(z, 1)
        [] c = "-" -> Sign(z, -1)
        [] c \in {"*", "^", ":", ".", ",", "(", ")", "[", "]", "{", "}"} -> Operator(z)
        [] c \in {"&", "|", "="} -> Doubled(z)
        [] c \in {"!", "<", ">"} -> OperMaybeEqual(z)
        [] c = "\"" -> Quote(z)
        [] c \in IsNameHead -> NameToken(z)
        [] c \in IsDigit -> NumberToken(z, 1)
        [] OTHER -> BadToken(z)

NewToken(z, kind) ==
  [kind |-> kind, context |-> "none", line |-> z.line, column |-> z.column, start |-> z.end,
   end |-> z.end, value |-> <<>>, shift |-> 0, indentation |-> -1]

RECURSIVE Scan(_, _)
Scan(z, tokens) ==
  IF Char(z) = "" THEN Append(tokens, NewToken(z, "end"))
  ELSE LET y == Dispatch([z EXCEPT !.tok = NewToken(z, "error")])
       IN  Scan(y, Append(tokens, [y.tok EXCEPT !.end = y.end]))

Start(text) == [text |-> text, end |-> 0, line |-> 1, column |-> 1, indentation |-> 0, tok |-> <<>>]
Tokenize(text) == Scan([Start(text) EXCEPT !.tok = NewToken(Start(text), "error")], <<>>)

-------------------------------------------------------------------------------
(***************************************************************************)
(* The expression parser of Director (lib/dir_parse.js): a Pratt parser    *)
(* over the tokens of Director, which demands one space around an infix    *)
(* operator and none around "." and before "[".                            *)
(*                                                                         *)
(* A token is mutated by the parser: it gets arguments, which are tokens,  *)
(* or is marked as an error.  So the state p of a parse holds the tokens   *)
(* as nodes, and an expression is the number of a node.                    *)
(***************************************************************************)
CONSTANT DirectorTexts      \* records with a field text
VARIABLES
    directed,       \* the text, in a record of DirectorTexts
    dirTokens,      \* its tokens, when it was tokenized
    dirTree,        \* <<its tree>>, or <<>> if there is none
    dirPhase        \* "text", "tokens" or "tree"
director == <<directed, dirTokens, dirTree, dirPhase>>

TokenNode(token, text) ==
  [kind |-> token.kind, text |-> text, size |-> token.end - token.start, context |-> token.context,
   args |-> <<>>]

Nodes(text, tokens) ==
  FoldLeft(LAMBDA nodes, token :
             Append(nodes, TokenNode(token, SubSeq(text, token.start + 1, token.end))),
           <<>>, tokens)

TokenAt(p) == p.nodes[p.at]
Advance(p) == IF TokenAt(p).kind = "end" THEN p ELSE [p EXCEPT !.at = @ + 1]
IsOperator(p, s) == TokenAt(p).kind = "operator" /\ TokenAt(p).text = s

(* The spaces at p, and past them. *)
SpaceAt(p) == IF TokenAt(p).kind = "space" THEN TokenAt(p).size ELSE 0
PastSpace(p) == IF TokenAt(p).kind = "space" THEN Advance(p) ELSE p

(* What the parser returns: node n. *)
Result(p, n) == [p |-> p, n |-> n]

(* error(): the current token is marked, and is the result. *)
Error(p) == Result([p EXCEPT !.nodes[p.at].context = "error"], p.at)
WithArgs(p, t, args) == Result([p EXCEPT !.nodes[t].args = args], t)

Infix ==
  << "|", "|" >> :> 20 @@ << "&", "&" >> :> 30 @@ << "=", "=" >> :> 40 @@ << "!", "=" >> :> 40
    @@ << "<" >> :> 40 @@ << "<", "=" >> :> 40 @@ << ">" >> :> 40 @@ << ">", "=" >> :> 40
    @@ << "+" >> :> 50 @@ << "-" >> :> 50 @@ << "*" >> :> 60 @@ << "/" >> :> 60
    @@ << "^" >> :> 70 @@ << "." >> :> 90 @@ << "[" >> :> 90

Lbp(p) ==
  IF TokenAt(p).kind = "operator" /\ TokenAt(p).text \in DOMAIN Infix THEN Infix[TokenAt(p).text] ELSE 0

(* The binding power of the right argument. *)
BindingRight(op) == IF op = << "^" >> THEN Infix[op] - 1 ELSE Infix[op]

Xsp(op) == IF op \in {<< "." >>, << "[" >>} THEN 0 ELSE 1

RECURSIVE DirExpression(_, _), HeadOf(_, _), Loop(_, _, _), Led(_, _, _, _),
          Items(_, _), Item(_, _, _), Members(_, _), Key(_, _, _), Member(_, _, _, _),
          Separated(_, _, _, _)

(* expression(rbp): p is at its first token. *)
DirExpression(p, rbp) ==
  Loop(HeadOf(PastSpace(Advance(p)), p.at), rbp, SpaceAt(Advance(p)))

(* The spaces that the operator op must have before and after it. *)
Spaced(op, before, after) == before = Xsp(op) /\ after = Xsp(op)

(***************************************************************************)
(* while (rbp < lbp(token)), with lsp spaces before the token: those       *)
(* before it after the head, and then those after the last operator.       *)
(***************************************************************************)
Loop(left, rbp, lsp) ==
  LET p == left.p
      op == TokenAt(p).text
      rsp == SpaceAt(Advance(p))
  IN  IF rbp >= Lbp(p) THEN left
      ELSE IF Spaced(op, lsp, rsp)
        THEN Loop(Led(PastSpace(Advance(p)), p.at, op, left.n), rbp, rsp)
      ELSE Error(IF lsp # Xsp(op) THEN p ELSE PastSpace(Advance(p)))

(* infix_op(), infixr_op() *)
Binary(right, t, left) == WithArgs(right.p, t, <<left, right.n>>)

(* A "[" after an expression: a new token "." has it and the list for arguments. *)
Subscript(list, t, left) ==
  LET nodes == list.p.nodes
      access == [nodes[t] EXCEPT !.text = << "." >>, !.args = <<left, list.n>>]
  IN  Result([list.p EXCEPT !.nodes = Append(nodes, access)], Len(nodes) + 1)

(* tail(): the operator t, with the text op, after the node left. *)
Led(p, t, op, left) ==
  IF op = << "[" >> THEN Subscript(Items(p, t), t, left)
  ELSE Binary(DirExpression(p, BindingRight(op)), t, left)

Prefix(right, t) == WithArgs(right.p, t, <<right.n>>)
Paren(inner) ==
  IF IsOperator(inner.p, << ")" >>) THEN Result(Advance(inner.p), inner.n) ELSE Error(inner.p)

(* head(): the token t, and p is past the spaces after it. *)
HeadOf(p, t) ==
  LET op == IF p.nodes[t].kind = "operator" THEN p.nodes[t].text ELSE <<>>
  IN  CASE p.nodes[t].kind \in {"name", "number", "text"} -> Result(p, t)
        [] op \in {<< "!" >>, << "-" >>} -> Prefix(DirExpression(p, 80), t)
        [] op = << "(" >> -> Paren(DirExpression(p, 0))
        [] op = << "[" >> -> Items(p, t)
        [] op = << "{" >> -> Members(p, t)
        [] OTHER -> Error(p)

(* After an item: the close, or a comma and one space, and then more. *)
Separated(p, t, args, close) ==
  CASE IsOperator(p, close) -> WithArgs(Advance(p), t, args)
    [] IsOperator(p, << "," >>) ->
         IF SpaceAt(Advance(p)) # 1 THEN Error(PastSpace(Advance(p)))
         ELSE IF close = << "]" >> THEN Item(DirExpression(PastSpace(Advance(p)), 0), t, args)
         ELSE Key(DirExpression(PastSpace(Advance(p)), 0), t, args)
    [] OTHER -> Error(p)

Failed(r) == r.p.nodes[r.n].kind = "error"

(* list_op() *)
Items(p, t) ==
  IF IsOperator(p, << "]" >>) THEN WithArgs(Advance(p), t, <<>>) ELSE Item(DirExpression(p, 0), t, <<>>)
Item(item, t, args) ==
  IF Failed(item) THEN item ELSE Separated(item.p, t, Append(args, item.n), << "]" >>)

(* A dictionary: a member is its colon, with the key and the value. *)
Members(p, t) ==
  IF IsOperator(p, << "}" >>) THEN WithArgs(Advance(p), t, <<>>) ELSE Key(DirExpression(p, 0), t, <<>>)
Key(key, t, args) ==
  CASE Failed(key) -> key
    [] ~ Failed(key) /\ ~ IsOperator(key.p, << ":" >>) -> Error(key.p)
    [] ~ Failed(key) /\ IsOperator(key.p, << ":" >>) ->
         IF SpaceAt(Advance(key.p)) # 1 THEN Error(PastSpace(Advance(key.p)))
         ELSE Member(DirExpression(PastSpace(Advance(key.p)), 0), t, args, key)
Member(value, t, args, key) ==
  IF Failed(value) THEN value
  ELSE Separated([value.p EXCEPT !.nodes[key.p.at].args = <<key.n, value.n>>], t,
                 Append(args, key.p.at), << "}" >>)

-----------------------------------------------------------------------------
(***************************************************************************)
(* The tree of an expression, if there is one: strip_ast() overflows the   *)
(* stack on a token that is an argument of itself.                         *)
(***************************************************************************)
RECURSIVE Deep(_, _, _)
Deep(nodes, n, path) ==
  \/ n \in path
  \/ nodes[n].kind = "operator"
     /\ \E i \in 1 .. Len(nodes[n].args) : Deep(nodes, nodes[n].args[i], path \cup {n})

RECURSIVE StripAst(_, _)
StripAst(nodes, n) ==
  [text |-> nodes[n].text, error |-> nodes[n].context = "error",
   args |-> IF nodes[n].kind # "operator" THEN <<>>
            ELSE [i \in 1 .. Len(nodes[n].args) |-> StripAst(nodes, nodes[n].args[i])]]

Parse(text, tokens) == DirExpression([nodes |-> Nodes(text, tokens), at |-> 1], 0)

(* What parse() has for the root, if strip_ast() returns. *)
Root(r) == IF Deep(r.p.nodes, r.n, {}) THEN <<>> ELSE <<StripAst(r.p.nodes, r.n)>>

-----------------------------------------------------------------------------
TokenizeText ==
  /\ dirPhase = "text" /\ dirPhase' = "tokens"
  /\ dirTokens' = Tokenize(directed.text)
  /\ UNCHANGED <<directed, dirTree>>

ParseTokens ==
  /\ dirPhase = "tokens" /\ dirPhase' = "tree"
  /\ dirTree' = Root(Parse(directed.text, dirTokens))
  /\ UNCHANGED <<directed, dirTokens>>

InitDirector ==
  /\ directed \in DirectorTexts
  /\ dirTokens = <<>> /\ dirTree = <<>> /\ dirPhase = "text"
NextDirector == TokenizeText \/ ParseTokens
===============================================================================
