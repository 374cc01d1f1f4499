----------------------------------- MODULE Sexpr -----------------------------------
(***************************************************************************)
(* The reader and the printer of s-expressions of the Scheme compiler      *)
(* (to_scheme(), string_input(), lex_input() and parse() of                *)
(* src/lib/scheme.js).                                                     *)
(*                                                                         *)
(* A text is a sequence of pieces: a character that means something to the *)
(* lexer, or a run of characters that do not, such as a word, a number or  *)
(* what begins with a #.  The backquote is "backquote".                    *)
(***************************************************************************)
EXTENDS Integers, Sequences, SequencesExt, FiniteSetsExt, TLC

CONSTANTS
    SchemeTexts,        \* values to be printed and read, and texts to be read
    Integral            \* the numbers that are printed or read

VARIABLES
    sourceText,         \* one of SchemeTexts
    pieces, lexAt,       \* the text, and the place of lex_in in it
    sexprs,             \* what has been read
    reading             \* "reading", "read", or why not

sexpr == <<sourceText, pieces, lexAt, sexprs, reading>>

-----------------------------------------------------------------------------
Numeral(n) == <<"number", n>>
Str(s) == <<"string", s>>                    \* a sequence of pieces
Symbol(module, name) == <<"symbol", module, name>>
Literal(value) == <<"literal", value>>
TypeOf(name) == <<"type", name>>
Pair(head, tail) == <<"pair", head, tail>>
NilLit == Literal("nil")

LiteralNames == ("#?" :> "undef") @@ ("#nil" :> "nil") @@ ("#f" :> "false") @@ ("#t" :> "true")
TypesRead == {"#literal_t", "#fixnum_t", "#type_t", "#pair_t", "#dict_t", "#instr_t",
              "#sponsor_t", "#actor_t"}
QuoteNames == ("'" :> "quote") @@ ("backquote" :> "quasiquote") @@ ("," :> "unquote") @@ (",@" :> "unquote-splicing")

-----------------------------------------------------------------------------
(* The printer.  A string is printed as JSON is.                           *)
Escaped(s) == FlattenSeq([i \in DOMAIN s |-> IF s[i] \in {"\"", "\\"} THEN <<"\\", s[i]>> ELSE <<s[i]>>])

RECURSIVE ToScheme(_)
RECURSIVE ListItems(_)
ListItems(pair) ==
    ToScheme(pair[2]) \o
    (CASE pair[3][1] = "pair" -> <<" ">> \o ListItems(pair[3])
       [] pair[3] = NilLit -> <<")">>
       [] OTHER -> <<" ", ".", " ">> \o ToScheme(pair[3]) \o <<")">>)
ToScheme(node) ==
    CASE node[1] = "number" -> <<ToString(node[2])>>
      [] node[1] = "string" -> <<"\"">> \o Escaped(node[2]) \o <<"\"">>
      [] node[1] = "symbol" -> IF node[2] = "" THEN <<node[3]>> ELSE <<node[2], ".", node[3]>>
      [] node[1] = "literal" ->
            IF node[2] = "nil" THEN <<"(", ")">>
            ELSE <<CHOOSE p \in DOMAIN LiteralNames : LiteralNames[p] = node[2]>>
      [] node[1] = "type" -> <<node[2]>>
      [] node[1] = "pair" -> <<"(">> \o ListItems(node)

-----------------------------------------------------------------------------
(* The lexer: the token that follows a place, and the place after it.      *)
Blank == {" ", "\t", "\n", "\r"}
Marks == {"(", ")", ".", "'", "backquote"}
Hashed == DOMAIN LiteralNames \cup TypesRead \cup {"#unknown"}
AtEnd(i) == i > Len(pieces)
UpTo(i, Stops(_)) == Min({j \in i..Len(pieces) : Stops(pieces[j])} \cup {Len(pieces) + 1})

SkipComment(i) ==
    LET eol == UpTo(i, LAMBDA p : p \in {"\r", "\n"})
    IN  IF AtEnd(eol) THEN eol
        ELSE IF pieces[eol] = "\r" /\ ~ AtEnd(eol + 1) /\ pieces[eol + 1] = "\n" THEN eol + 2
        ELSE eol + 1
RECURSIVE SkipWhitespace(_)
SkipWhitespace(i) ==
    IF AtEnd(i) THEN i
    ELSE IF pieces[i] = ";" THEN SkipWhitespace(SkipComment(i + 1))
    ELSE IF pieces[i] \in Blank THEN SkipWhitespace(i + 1)
    ELSE i

Token(i, j) == [token |-> SubSeq(pieces, i, j - 1), next |-> j]
NoToken == [token |-> <<>>, next |-> 0]         \* "end of input"
(* A string goes on to the closing quote, if there is no blank before it.  *)
StringToken(i) ==
    LET stop == UpTo(i + 1, LAMBDA p : p = "\"" \/ p \in Blank)
    IN  IF ~ AtEnd(stop) /\ pieces[stop] = "\"" THEN Token(i, stop + 1) ELSE Token(i, stop)
Lex(at) ==
    LET i == SkipWhitespace(at) IN
    CASE AtEnd(i) -> NoToken
      [] ~ AtEnd(i) /\ pieces[i] \in Marks -> Token(i, i + 1)
      [] ~ AtEnd(i) /\ pieces[i] = "," ->
            IF AtEnd(i + 1) THEN NoToken
            ELSE IF pieces[i + 1] = "@" THEN [token |-> <<",@">>, next |-> i + 2]
            ELSE Token(i, i + 1)
      [] ~ AtEnd(i) /\ pieces[i] = "\"" -> StringToken(i)
      [] OTHER -> Token(i, UpTo(i + 1, LAMBDA p :
                       p \in (Marks \ {"."}) \cup Blank \cup Hashed \cup {",", ";", "\""}))

-----------------------------------------------------------------------------
(* The parser.  An error may leave the place after it.                     *)
Read(node, next) == [node |-> node, next |-> next, error |-> ""]
Rejected(error, next) == [node |-> NilLit, next |-> next, error |-> error]

Joined(token) == FoldLeft(LAMBDA acc, p : acc \o p, "", token)
Atom(token, next) ==
    LET dots == {i \in DOMAIN token : token[i] = "."}
        d == Min(dots)
    IN  CASE \E n \in Integral : token = <<ToString(n)>> ->
                Read(Numeral(CHOOSE n \in Integral : token = <<ToString(n)>>), next)
          [] token[1] = "\"" /\ Last(token) = "\"" -> Read(Str(SubSeq(token, 2, Len(token) - 1)), next)
          [] token = <<".">> -> Rejected("unexpected dot", 0)
          [] Joined(token) \in DOMAIN LiteralNames -> Read(Literal(LiteralNames[Joined(token)]), next)
          [] Joined(token) \in TypesRead -> Read(TypeOf(Joined(token)), next)
          [] token[1] \in Hashed -> Rejected("unknown literal", 0)
          [] dots = {} -> Read(Symbol("", Joined(token)), next)
          [] Cardinality(dots) = 1 ->
                Read(Symbol(Joined(SubSeq(token, 1, d - 1)), Joined(SubSeq(token, d + 1, Len(token)))), next)
          [] OTHER -> Rejected("invalid namespace", 0)

RECURSIVE ParseSexpr(_)
RECURSIVE ParseTail(_)
(* An element, and what follows it.                                        *)
ConsOf(head, tail) == IF tail.error # "" THEN tail ELSE Read(Pair(head.node, tail.node), tail.next)
ParseElement(head) == IF head.error # "" THEN head ELSE ConsOf(head, ParseTail(Lex(head.next)))
(* After the dot, the end is looked for also if there was an error, so     *)
(* that one that leaves no place throws.                                   *)
ThenClose(tail, close) ==
    IF close.token # <<")">> THEN Rejected("expected ')'", close.next) ELSE [tail EXCEPT !.next = close.next]
ParseDotted(tail) == IF tail.next = 0 THEN Rejected("thrown", 0) ELSE ThenClose(tail, Lex(tail.next))
ParseTail(lex) ==
    CASE lex = NoToken -> Rejected("end of input", 0)
      [] lex.token = <<")">> -> Read(NilLit, lex.next)
      [] lex.token = <<".">> -> ParseDotted(ParseSexpr(Lex(lex.next)))
      [] OTHER -> ParseElement(ParseSexpr(lex))
ParseList(lex) ==
    IF lex.token = <<".">> THEN Rejected("unexpected dot", 0) ELSE ParseTail(lex)
ParseQuote(name, quoted) ==
    IF quoted.error # "" THEN quoted
    ELSE Read(Pair(Symbol("", name), Pair(quoted.node, NilLit)), quoted.next)
ParseSexpr(lex) ==
    CASE lex = NoToken -> Rejected("end of input", 0)
      [] lex.token = <<"(">> -> ParseList(Lex(lex.next))
      [] Len(lex.token) = 1 /\ lex.token[1] \in DOMAIN QuoteNames ->
            ParseQuote(QuoteNames[lex.token[1]], ParseSexpr(Lex(lex.next)))
      [] OTHER -> Atom(lex.token, lex.next)

-----------------------------------------------------------------------------
(* The loop of parse().                                                    *)
Take(parse) ==
    IF parse.error # "" THEN reading' = parse.error /\ UNCHANGED <<sexprs, lexAt>>
    ELSE sexprs' = Append(sexprs, parse.node) /\ lexAt' = parse.next /\ UNCHANGED reading
ReadSexpr ==
    /\ reading = "reading" /\ Lex(lexAt) # NoToken
    /\ Take(ParseSexpr(Lex(lexAt)))
    /\ UNCHANGED <<sourceText, pieces>>
EndOfInput ==
    /\ reading = "reading" /\ Lex(lexAt) = NoToken /\ reading' = "read"
    /\ UNCHANGED <<sourceText, pieces, lexAt, sexprs>>

InitSexpr ==
    /\ sourceText \in SchemeTexts
    /\ pieces = sourceText.text
    /\ lexAt = 1 /\ sexprs = <<>> /\ reading = "reading"
NextSexpr == ReadSexpr \/ EndOfInput
=============================================================================
