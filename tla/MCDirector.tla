------------------------------- MODULE MCDirector -------------------------------
(***************************************************************************)
(* Texts of Director whose tokens or trees are known, for TLC.             *)
(***************************************************************************)
EXTENDS Director, FiniteSets

Kinds(pieces) == [i \in DOMAIN pieces |-> pieces[i][1]]
PiecesText(pieces) == FlattenSeq([i \in DOMAIN pieces |-> pieces[i][2]])

Blank1 == <<"space", <<" ">> >>
Break == <<"newline", <<"newline">> >>
(* Tokens of all kinds, that end where a space or the end of a line follows. *)
Pieces == <<
  <<"name", <<"a", "b", "_", "1">> >>, <<"name", <<"?">> >>, <<"name", <<"@", "@">> >>, <<"name", <<"@">> >>,
  <<"number", <<"-", "1", "_", "0">> >>, <<"number", <<"1", "6", "#", "f", "F">> >>,
  <<"text", <<"\"", " ", "\\", "\"", "\"">> >>, <<"text", <<"\"", "\"">> >>, <<"operator", <<"=", "=">> >>,
  <<"operator", <<"<", "=">> >>, <<"operator", <<"!">> >>, <<"operator", <<"|", "|">> >>,
  <<"operator", <<"+">> >>, <<"operator", <<"/">> >>,
  <<"newline", <<"newline">> >>, <<"newline", <<"return", "newline">> >>, <<"newline", <<"return">> >> >>
Lines == {<<"/", "/", " ", "a", "\"">>, <<"/", "/">>}
Tokens(pieces) == [text |-> PiecesText(pieces), means |-> <<"tokens", Kinds(pieces)>>]
PieceTexts ==
  {Tokens(<<p, Blank1, q, Blank1, Break, p, Blank1>>) : p \in Range(Pieces), q \in Range(Pieces)}
    \cup {Tokens(<<p, Blank1, <<"comment", line>>, Break, p>>) : p \in Range(Pieces), line \in Lines}

(***************************************************************************)
(* Numbers: the digits before and after the dot, a base that is written or *)
(* not, and an exponent.                                                   *)
(***************************************************************************)
Lower == <<"0", "1", "2", "3", "4", "5", "6", "7", "8", "9", "a", "b", "c", "d", "e", "f">>
Upper == [Lower EXCEPT ![11] = "A", ![12] = "B", ![15] = "E", ![16] = "F"]
Amount(base, digits) == FoldLeft(LAMBDA n, d : base * n + d, 0, digits)
Spell(letters, digits) ==
  FlattenSeq([i \in DOMAIN digits |->
                IF i > 1 /\ i % 2 = 0 THEN <<"_", letters[digits[i] + 1]>> ELSE <<letters[digits[i] + 1]>>])
Decimal(n) == Spell(Lower, IF n < 10 THEN <<n>> ELSE <<n \div 10, n % 10>>)
Minus(sign) == IF sign = 1 THEN <<>> ELSE <<"-">>
Power(exponent) == IF exponent = 0 THEN <<>> ELSE <<"^">> \o Minus(IF exponent < 0 THEN -1 ELSE 1) \o
                                                    Decimal(IF exponent < 0 THEN - exponent ELSE exponent)
NumberText(text, base, exponent, n) ==
  [text |-> text, means |-> <<"number", <<base, exponent, <<"int", n>> >>>>]

BasedText(base, exponent, sign, letters, whole, part) ==
  NumberText(Minus(sign) \o Decimal(base) \o Power(exponent) \o <<"#">> \o Spell(letters, whole)
               \o (IF part = <<>> THEN <<>> ELSE <<".">> \o Spell(letters, part)),
             base, exponent - Len(part), sign * Amount(base, whole \o part))
DecimalText(sign, whole, part) ==
  NumberText(Minus(sign) \o Spell(Lower, whole) \o (IF part = <<>> THEN <<>> ELSE <<".">> \o Spell(Lower, part)),
             10, - Len(part), sign * Amount(10, whole \o part))
IntegerText(sign, whole, exponent) ==
  NumberText(Minus(sign) \o Spell(Lower, whole) \o Power(exponent), 10, exponent, sign * Amount(10, whole))
RatioText(sign, n, d) ==
  NumberText(Minus(sign) \o Spell(Lower, n) \o <<":">> \o Spell(Lower, d),
             Amount(10, d), -1, sign * Amount(10, n))

Signs == {1, -1}
Wholes == {<<0>>, <<7>>, <<0, 9, 1>>}
Fractions == {<<>>, <<0>>, <<1, 0, 5>>}
NumberTexts ==
  {DecimalText(s, w, f) : s \in Signs, w \in Wholes, f \in Fractions}
    \cup {IntegerText(s, w, e) : s \in Signs, w \in Wholes, e \in {3, -12}}
    \cup {RatioText(s, n, d) : s \in Signs, n \in Wholes, d \in Wholes}
    \cup {BasedText(b, e, s, l, w, f) : b \in {2, 8}, e \in {0, 2, -1}, s \in Signs, l \in {Lower},
              w \in {<<1>>, <<1, 0, 1>>}, f \in {<<>>, <<0, 1>>}}
    \cup {BasedText(16, e, s, l, w, f) : e \in {0, 10}, s \in Signs, l \in {Lower, Upper},
              w \in {<<10>>, <<15, 0, 11>>}, f \in {<<>>, <<9, 14>>}}

(* Texts, of items and their codes. *)
TextItems == << << <<"a">>, 97>>, << <<"\\", "n">>, 10>>, << <<"\\", "\\">>, 92>>, << <<"\\", "\"">>, 34>>,
  << <<"\\", "x", "7", "F">>, 127>>, << <<"\\", "u", "{", "1", "F", "6", "0", "0", "}">>, 128512>>,
  << <<"\\", "u", "{", "0", "0", "A", "}">>, 10>>, << <<"/">>, 47>>, << <<"wide">>, 233>> >>
TextText(items) ==
  [text |-> <<"\"">> \o FlattenSeq([i \in DOMAIN items |-> items[i][1]]) \o <<"\"">>,
   means |-> <<"text", [i \in DOMAIN items |-> items[i][2]]>>]
ItemTexts == {TextText(<<a, b, c>>) : a \in Range(TextItems), b \in Range(TextItems), c \in Range(TextItems)}

(* Lines that are further in or out by a number of levels. *)
Deeper(d) == [i \in 1 .. 4 * d |-> " "]
IndentedText(depths) ==
  [text |-> FlattenSeq([i \in DOMAIN depths |-> Deeper(depths[i]) \o <<"a", "newline">>]),
   means |-> <<"indented", depths>>]
IndentedTexts == {IndentedText(<<a, b, c>>) : a \in 0 .. 2, b \in 0 .. 2, c \in 0 .. 2}

-----------------------------------------------------------------------------
(***************************************************************************)
(* Expressions: operands <<characters, tree>> with infix operators between *)
(* them.  The tree of a chain is known without a parser: its root is the   *)
(* operator that binds least, the last of them, or the first if it is "^". *)
(***************************************************************************)
Powers == << <<"|", "|">>, <<"&", "&">>, <<"<">>, <<"-">>, <<"*">>, <<"^">> >>
PowerOf(op) == CHOOSE i \in DOMAIN Powers : Powers[i] = op
TreeOf(text, args) == [text |-> text, error |-> FALSE, args |-> args]

RECURSIVE ChainTree(_, _)
ChainTree(operands, ops) ==
  IF ops = <<>> THEN operands[1][2]
  ELSE LET least == {i \in DOMAIN ops : \A j \in DOMAIN ops : PowerOf(ops[i]) <= PowerOf(ops[j])}
           root == IF ops[CHOOSE i \in least : TRUE] = <<"^">> THEN CHOOSE i \in least : \A j \in least : i <= j
                   ELSE CHOOSE i \in least : \A j \in least : j <= i
       IN  TreeOf(ops[root],
                  <<ChainTree(SubSeq(operands, 1, root), SubSeq(ops, 1, root - 1)),
                    ChainTree(SubSeq(operands, root + 1, Len(operands)), SubSeq(ops, root + 1, Len(ops)))>>)
ChainText(operands, ops) ==
  [text |-> operands[1][1] \o FlattenSeq([i \in DOMAIN ops |-> <<" ">> \o ops[i] \o <<" ">> \o operands[i + 1][1]]),
   means |-> <<"tree", ChainTree(operands, ops)>>]

NameOperand(c) == << <<c>>, TreeOf(<<c>>, <<>>)>>
A1 == NameOperand("a")
B1 == NameOperand("b")
NotOperand(x) == << <<"!">> \o x[1], TreeOf(<<"!">>, <<x[2]>>)>>
Negative(x) == << <<"-">> \o x[1], TreeOf(<<"-">>, <<x[2]>>)>>
Access(x, y) == <<x[1] \o <<".">> \o y[1], TreeOf(<<".">>, <<x[2], y[2]>>)>>
ListText(x, y) == << <<"[">> \o x[1] \o <<",", " ">> \o y[1] \o <<"]">>, TreeOf(<<"[">>, <<x[2], y[2]>>)>>
At(x, y) == <<x[1] \o <<"[">> \o y[1] \o <<"]">>,
              TreeOf(<<".">>, <<x[2], TreeOf(<<"[">>, <<y[2]>>)>>)>>
Dict(x, y) == << <<"{">> \o x[1] \o <<":", " ">> \o y[1] \o <<"}">>,
                 TreeOf(<<"{">>, <<TreeOf(<<":">>, <<x[2], y[2]>>)>>)>>
InParens(x) == << <<"(">> \o x[1] \o <<")">>, x[2]>>
Chain(operands, ops) == <<ChainText(operands, ops).text, ChainText(operands, ops).means[2]>>

(* An operand with an operator of its own, and what the operator after it may be. *)
Inner == {A1, Access(A1, B1), NotOperand(A1), Negative(Access(A1, B1))}
Binds(x, op, next) == x = A1 \/ PowerOf(next) < PowerOf(op) \/ (next = op /\ op # <<"^">>)
Middles == {m \in Inner \X Range(Powers) \X Range(Powers) : Binds(m[1], m[2], m[3])}
(* What must be the last operand. *)
Lasts == {
  Access(Access(A1, B1), A1), InParens(Chain(<<A1, B1>>, << <<"|", "|">> >>)), At(A1, Negative(B1)),
  ListText(Chain(<<A1, B1>>, << <<"-">> >>), InParens(B1)), Dict(A1, ListText(A1, B1)), NotOperand(InParens(A1)),
  << <<"[", "]">>, TreeOf(<<"[">>, <<>>)>>, << <<"{", "}">>, TreeOf(<<"{">>, <<>>)>>}
ChainTexts ==
  {ChainText(<<A1, B1, A1, B1>>, <<o, p, q>>) : o \in Range(Powers), p \in Range(Powers), q \in Range(Powers)}
    \cup {ChainText(<<B1, m[1], y>>, <<m[2], m[3]>>) : m \in Middles, y \in Lasts}

MCDirectorTexts == PieceTexts \cup NumberTexts \cup ItemTexts \cup IndentedTexts \cup ChainTexts

-----------------------------------------------------------------------------
(* The positions after the ends of lines in the text. *)
LineStarts(chars) ==
  {0} \cup {i \in DOMAIN chars : chars[i] = "newline"
                \/ (chars[i] = "return" /\ (i = Len(chars) \/ chars[i + 1] # "newline"))}
Place(ends, start) ==
  LET before == {i \in ends : i <= start} IN <<Cardinality(before), start - Max(before) + 1>>

(* Every character is in one token, and a token says where it is. *)
Tiled(tokens, chars, ends) ==
  /\ Last(tokens).kind = "end" /\ Last(tokens).end = Len(chars)
  /\ \A i \in DOMAIN tokens :
       /\ tokens[i].start = IF i = 1 THEN 0 ELSE tokens[i - 1].end
       /\ <<tokens[i].line, tokens[i].column>> = Place(ends, tokens[i].start)

(* The sum of the shifts up to a line is its depth. *)
Shifts(tokens, line) ==
  FoldLeft(LAMBDA n, t : n + (IF t.line <= line THEN t.shift ELSE 0), 0, tokens)

TokensMean(tokens, tag, meaning) ==
  CASE tag = "tokens" -> [i \in 1 .. Len(tokens) - 1 |-> tokens[i].kind] = meaning
    [] tag = "number" -> Len(tokens) = 2 /\ tokens[1].kind = "number" /\ tokens[1].value = meaning
    [] tag = "text" -> Len(tokens) = 2 /\ tokens[1].kind = "text" /\ tokens[1].value = meaning
    [] tag = "indented" -> \A i \in DOMAIN meaning : Shifts(tokens, i) = meaning[i]
    [] tag = "tree" -> TRUE

(* Tokens tile the text and none is an error; a number, a text literal and *)
(* the depth of a line are what was written; an expression whose operators *)
(* have their spaces has the tree that precedence gives it.                *)
DirectorRight ==
  /\ dirPhase # "text" =>
       /\ Tiled(dirTokens, directed.text, LineStarts(directed.text))
       /\ \A i \in DOMAIN dirTokens : dirTokens[i].context # "error"
       /\ TokensMean(dirTokens, directed.means[1], directed.means[2])
  /\ dirPhase = "tree" /\ directed.means[1] = "tree" => dirTree = <<directed.means[2]>>
=================================================================================
