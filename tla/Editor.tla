---------------------------------- MODULE Editor ----------------------------------
(***************************************************************************)
(* The text editor of the playground (src/apps/playground/ed.js, with the  *)
(* keys of ed_indent.js): what is typed, pasted or indented becomes a      *)
(* revision of the history, which can be walked back and forth.            *)
(*                                                                         *)
(* The text is in the text nodes of an element, which the highlighter may  *)
(* split in any way.  The browser edits it first and tells the editor of   *)
(* it afterwards, and tells it later still that the selection changed.     *)
(* While an input method composes, the editor ignores what it is told.     *)
(*                                                                         *)
(* Left out are the scrolling, the coordinates, the callbacks that tell of *)
(* revisions, and the <br> at the end of the element.                      *)
(***************************************************************************)
EXTENDS Integers, Sequences, SequencesExt, FiniteSetsExt, TLC

CONSTANTS
    FirstTexts, Pasted,              \* texts: sequences of characters
    Cursors,                        \* what the user selects
    Newline, Space,                 \* characters
    Indent,                         \* the width of the indentation
    MaxText, MaxRevisions, MaxActs  \* bounds

VARIABLES
    highlight,                      \* whether a highlighter splits the text
    element, selection,             \* the text nodes; <<anchor, focus>> or <<>>
    changed,                        \* the browser is to tell of a selection
    composing,
    revisions, revisionNr, lastKnown,
    now,                            \* the clock, in multiples of the pause
    acts,                           \* what the user did, to bound it
    base, skewed                    \* history: see below

editor == <<highlight, element, selection, changed, composing, revisions, revisionNr, lastKnown,
            now, acts, base, skewed>>

Text == FlattenSeq(element)
Slice(s, from, to) == SubSeq(s, from + 1, Min({to, Len(s)}))
Rangeify(cursor) == <<Min(ToSet(cursor)), Max(ToSet(cursor))>>

-----------------------------------------------------------------------------
(* Alterations: the range from..to is replaced.                            *)
Alteration(from, to, replacement) == [from |-> from, to |-> to, with |-> replacement]
SortAlterations(alterations) ==
    SortSeq(alterations, LAMBDA a, b : a.from < b.from \/ (a.from = b.from /\ a.to < b.to))

AlterString(string, alterations) ==
    LET Alter(acc, a) == [text |-> acc.text \o Slice(string, acc.at, a.from) \o a.with, at |-> a.to]
        done == FoldLeft(Alter, [text |-> <<>>, at |-> 0], SortAlterations(alterations))
    IN  done.text \o Slice(string, done.at, Len(string))

(* The cursor grows to what it overlaps.                                   *)
AlterCursor(cursor, alterations) ==
    LET range == Rangeify(cursor)
        Grows(a) == Len(a.with) - (a.to - a.from)
        Start(acc, a) == acc + (IF range[1] < a.to THEN Min({0, a.from - range[1]}) ELSE Grows(a))
        End(acc, a) == acc + (IF range[2] > a.from THEN Grows(a) + Max({0, a.to - range[2]}) ELSE 0)
        start == FoldLeft(Start, range[1], alterations)
        end == FoldLeft(End, range[2], alterations)
    IN  IF cursor[1] > cursor[2] THEN <<end, start>> ELSE <<start, end>>

(* The same on text nodes.  An alteration that ends in a later node leaves *)
(* the rest of its range to that; those at the end go to the last node.    *)
RECURSIVE AlterNode(_, _, _, _)
AlterNode(value, start, alterations, correction) ==
    LET end == start + Len(value) - correction
        a == Head(alterations)
        to == Min({a.to, end})
        first == a.from - start + correction
        rest == IF a.to > end THEN <<Alteration(end, a.to, <<>>)>> \o Tail(alterations) ELSE Tail(alterations)
    IN  IF alterations = <<>> THEN [value |-> value, left |-> alterations]
        ELSE IF a.from >= end THEN [value |-> value, left |-> alterations]
        ELSE AlterNode(Slice(value, 0, first) \o a.with \o Slice(value, first + to - a.from, Len(value)),
                       start, rest, correction + Len(a.with) - (to - a.from))

(* What is left must be put at the end, or alter_element() throws, which   *)
(* no caller sees to: the element is here this one, and is never to be.    *)
OutOfRange == <<<<"Out of range.">>>>
AlterElement(nodes, alterations) ==
    LET Visit(acc, value) ==
            IF acc.left = <<>> THEN [acc EXCEPT !.nodes = Append(@, value)]
            ELSE LET n == AlterNode(value, acc.at, acc.left, 0)
                 IN  [nodes |-> Append(acc.nodes, n.value), left |-> n.left, at |-> acc.at + Len(value)]
        done == FoldLeft(Visit, [nodes |-> <<>>, left |-> SortAlterations(alterations), at |-> 0], nodes)
        remnant == FlattenSeq([i \in DOMAIN done.left |-> done.left[i].with])
    IN  IF \E i \in DOMAIN done.left : {done.left[i].from, done.left[i].to} # {done.at} THEN OutOfRange
        ELSE IF alterations = <<>> \/ nodes = <<>> THEN <<remnant>> \o nodes
        ELSE IF remnant = <<>> THEN done.nodes
        ELSE Append(Front(done.nodes), Last(done.nodes) \o remnant)

-----------------------------------------------------------------------------
(* Patches: sequences of hunks.                                            *)
ToPatch(alterations, text) ==
    [i \in DOMAIN alterations |->
        [remove |-> Slice(text, alterations[i].from, alterations[i].to),
         insert |-> alterations[i].with, position |-> alterations[i].from]]

Applies(patch, text) ==
    \A i \in DOMAIN patch :
        Slice(text, patch[i].position, patch[i].position + Len(patch[i].remove)) = patch[i].remove
ToAlterations(patch) ==
    [i \in DOMAIN patch |->
        Alteration(patch[i].position, patch[i].position + Len(patch[i].remove), patch[i].insert)]

(* If a hunk were inverted where it was.                                   *)
InvertInPlace(patch) ==
    [i \in DOMAIN patch |->
        [remove |-> patch[i].insert, insert |-> patch[i].remove, position |-> patch[i].position]]

InvertPatch(patch) ==
    LET Offset(i) == FoldLeft(LAMBDA acc, h : acc + Len(h.insert) - Len(h.remove), 0, SubSeq(patch, 1, i - 1))
    IN  [i \in DOMAIN patch |->
            [remove |-> patch[i].insert, insert |-> patch[i].remove,
             position |-> patch[i].position + Offset(i)]]

(* All between the common prefix and the common suffix.                    *)
Diff(a, b) ==
    LET pre == Max({n \in 0..Min({Len(a), Len(b)}) : Slice(a, 0, n) = Slice(b, 0, n)})
        post == Max({n \in 0..(Min({Len(a), Len(b)}) - pre) :
                        Slice(a, Len(a) - n, Len(a)) = Slice(b, Len(b) - n, Len(b))})
    IN  IF a = b THEN <<>> ELSE <<Alteration(pre, Len(a) - post, Slice(b, pre, Len(b) - post))>>

(* The revisions of a flurry that changed the text, from i on.             *)
RECURSIVE Flurry(_, _, _)
Flurry(i, direction, found) ==
    LET next == i + direction
        some == IF revisions[i].patch # <<>> THEN Append(found, i) ELSE found
    IN  IF i \notin DOMAIN revisions THEN found
        ELSE IF next \in DOMAIN revisions /\ revisions[next].time # revisions[i].time /\ some # <<>> THEN some
        ELSE Flurry(next, direction, some)

-----------------------------------------------------------------------------
(* The parts of the handlers.                                              *)
GetCursor == IF selection = <<>> THEN <<>> ELSE Rangeify(selection)
Room == Len(revisions) < MaxRevisions

CommitPatch(patch, cursor) ==
    IF patch # <<>> \/ (cursor # <<>> /\ (revisionNr = 0 \/ revisions[revisionNr].cursor # cursor))
    THEN /\ revisions' = InsertAt(IF patch = <<>> THEN revisions ELSE SubSeq(revisions, 1, revisionNr),
                                  revisionNr + 1, [patch |-> patch, cursor |-> cursor, time |-> now])
         /\ revisionNr' = revisionNr + 1
    ELSE UNCHANGED <<revisions, revisionNr>>

Highlight(nodes) ==
    element' = IF highlight THEN LET text == FlattenSeq(nodes) IN [i \in DOMAIN text |-> <<text[i]>>] ELSE nodes

(* A position that is out of range becomes the first.                      *)
SetCursor(cursor) ==
    LET Caret(position) == IF position <= Len(FlattenSeq(element')) THEN position ELSE 0
    IN  /\ selection' = IF cursor = <<>> THEN <<>> ELSE <<Caret(cursor[1]), Caret(cursor[2])>>
        /\ changed' = (changed \/ selection' # selection)

(* The history: whether a handler other than that of input ran while the   *)
(* text was not the one last known.                                        *)
Skew == skewed' = (skewed \/ lastKnown # Text)

Edit(alterations, cursor) ==
    /\ Room /\ Len(AlterString(Text, alterations)) <= MaxText
    /\ CommitPatch(ToPatch(alterations, Text), cursor)
    /\ lastKnown' = AlterString(lastKnown, alterations)
    /\ Highlight(AlterElement(element, alterations))
    /\ SetCursor(cursor)
    /\ Skew
    /\ UNCHANGED <<highlight, composing, now, base>>

Insert(text) ==
    LET range == Rangeify(GetCursor)
        edge == range[1] + Len(text)
    IN  Edit(<<Alteration(range[1], range[2], text)>>, <<edge, edge>>)

Checkout(to) ==
    LET steps == IF to < revisionNr
                 THEN [i \in 1..(revisionNr - to) |-> InvertPatch(revisions[revisionNr + 1 - i].patch)]
                 ELSE [i \in 1..(to - revisionNr) |-> revisions[revisionNr + i].patch]
        Apply(acc, patch) ==
            IF acc.conflict \/ ~ Applies(patch, acc.text) THEN [acc EXCEPT !.conflict = TRUE]
            ELSE [acc EXCEPT !.text = AlterString(@, ToAlterations(patch)),
                             !.nodes = AlterElement(@, ToAlterations(patch)),
                             !.at = @ + (IF to < revisionNr THEN -1 ELSE 1)]
        done == FoldLeft(Apply, [text |-> Text, nodes |-> element, at |-> revisionNr, conflict |-> FALSE], steps)
    IN  /\ revisionNr' = done.at
        /\ lastKnown' = done.text
        /\ Highlight(done.nodes)
        /\ SetCursor(IF done.at = 0 THEN <<>> ELSE revisions[done.at].cursor)
        /\ Skew
        /\ UNCHANGED <<highlight, composing, revisions, now, base>>

(* What the browser does to the text, and the handler of input.            *)
Replaces(from, to, text) ==
    /\ Len(Text) - (to - from) + Len(text) <= MaxText
    /\ element' = AlterElement(element, <<Alteration(from, to, text)>>)
    /\ selection' = <<from + Len(text), from + Len(text)>>

Input(nodes, cursor) ==
    LET text == FlattenSeq(nodes)
    IN  /\ Room
        /\ CommitPatch(ToPatch(Diff(lastKnown, text), lastKnown), cursor)
        /\ lastKnown' = text
        /\ changed' = TRUE

-----------------------------------------------------------------------------
(* What the user and the browser do.                                       *)
Chosen == selection # <<>>

Type ==
    /\ Chosen /\ ~ composing
    /\ \E text \in Pasted \ {<<>>} : LET r == GetCursor IN
          /\ Replaces(r[1], r[2], text)
          /\ Input(element', selection')
    /\ UNCHANGED <<highlight, composing, now, base, skewed>>

Enter == Chosen /\ Insert(<<Newline>>)
DeleteSelection == Chosen /\ selection[1] # selection[2] /\ Insert(<<>>)

Paste ==
    /\ Chosen
    /\ \E pasted \in Pasted :
          LET r == GetCursor
              original == Slice(Text, r[1], r[2])
              differs == Diff(original, pasted)
              caret == r[2] + Len(pasted) - Len(original)
          IN  Edit([i \in DOMAIN differs |->
                        Alteration(r[1] + differs[i].from, r[1] + differs[i].to, differs[i].with)],
                   <<caret, caret>>)

(* A tab indents a word, or the lines of a block; with shift, out.         *)
LinesOf(text) ==
    LET cuts == SetToSortSeq({0, Len(text) + 1} \cup {i \in DOMAIN text : text[i] = Newline}, <)
    IN  [k \in 1..(Len(cuts) - 1) |-> SubSeq(text, cuts[k] + 1, cuts[k + 1] - 1)]
Leading(line) == Max({n \in 0..Len(line) : \A i \in 1..n : line[i] = Space})
Spaces(n) == [i \in 1..n |-> Space]
LinePre == Last(LinesOf(Slice(Text, 0, GetCursor[1])))
LinePost == Head(LinesOf(Slice(Text, GetCursor[2], Len(Text))))

IndentBlock(shift) ==
    LET r == GetCursor
        picked == LinesOf(Slice(Text, r[1], r[2]))
        from == [picked EXCEPT ![1] = LinePre \o @]
        lines == IF Last(from) # <<>> THEN [from EXCEPT ![Len(from)] = @ \o LinePost] ELSE Front(from)
        Alter(at, line) ==
            IF shift THEN Alteration(at, at + Min({Leading(line), Indent}), <<>>)
            ELSE Alteration(at, at, Spaces(Indent))
        Each(acc, line) ==
            [at |-> acc.at + Len(line) + 1,
             alterations |-> IF line = <<>> THEN acc.alterations
                             ELSE Append(acc.alterations, Alter(acc.at, line))]
        done == FoldLeft(Each, [at |-> r[1] - Len(LinePre), alterations |-> <<>>], lines)
    IN  /\ Len(picked) > 1 \/ shift
        /\ Edit(done.alterations, AlterCursor(GetCursor, done.alterations))

Tab ==
    /\ Chosen
    /\ \/ \E shift \in BOOLEAN : IndentBlock(shift)
       \/ /\ Len(LinesOf(Slice(Text, GetCursor[1], GetCursor[2]))) = 1
          /\ Insert(Spaces(Indent - (Len(LinePre) % Indent)))

(* To the previous tab stop, or else as the browser does.                  *)
Backspace ==
    /\ Chosen /\ selection[1] = selection[2]
    /\ LET at == selection[1]
           excess == IF LinePre = <<>> THEN 1 ELSE Indent - ((Len(LinePre) - 1) % Indent)
           out == Alteration(at - excess, at, <<>>)
       IN  IF LinePre # <<>> /\ IsSuffix(Spaces(excess), LinePre)
           THEN Edit(<<out>>, AlterCursor(GetCursor, <<out>>))
           ELSE /\ at > 0 /\ ~ composing
                /\ Replaces(at - 1, at, <<>>)
                /\ Input(element', selection')
                /\ UNCHANGED <<highlight, composing, now, base, skewed>>

(* Through the history, by flurries or by single revisions.                *)
Undo ==
    LET flurry == Flurry(revisionNr, -1, <<>>)
    IN  \/ flurry # <<>> /\ Checkout(Last(flurry) - 1)
        \/ Checkout(Max({0, revisionNr - 1}))
Redo ==
    LET flurry == Flurry(revisionNr + 1, 1, <<>>)
    IN  \/ flurry # <<>> /\ Checkout(Last(flurry))
        \/ Checkout(Min({Len(revisions), revisionNr + 1}))

(* The selection, and the event that tells of it.                          *)
Select ==
    /\ \E c \in Cursors : ToSet(c) \subseteq 0..Len(Text) /\ c # selection /\ selection' = c
    /\ changed' = TRUE
    /\ UNCHANGED <<highlight, element, composing, revisions, revisionNr, lastKnown, now, base, skewed>>
SelectionChange ==
    /\ changed /\ Room
    /\ CommitPatch(<<>>, GetCursor)
    /\ changed' = FALSE
    /\ Skew
    /\ UNCHANGED <<highlight, element, selection, composing, lastKnown, now, base>>

(* An input method changes the text while it composes; at its end there is *)
(* an event of input, or, in some browsers, there is none.                 *)
Compose ==
    /\ Chosen /\ ~ composing /\ lastKnown = Text
    /\ \E text \in Pasted \ {<<>>} : Replaces(GetCursor[1], GetCursor[2], text)
    /\ composing' = TRUE /\ changed' = TRUE
    /\ UNCHANGED <<highlight, revisions, revisionNr, lastKnown, now, base, skewed>>
Composed ==
    /\ composing /\ composing' = FALSE
    /\ \/ Input(element, GetCursor)
       \/ UNCHANGED <<revisions, revisionNr, lastKnown, changed>>
    /\ UNCHANGED <<highlight, element, selection, now, base, skewed>>

(* The state is taken and given back to the editor.                         *)
Reopen ==
    /\ lastKnown = Text
    /\ Highlight(IF Text = <<>> THEN <<>> ELSE <<Text>>)
    /\ SetCursor(IF revisionNr = 0 THEN <<>> ELSE revisions[revisionNr].cursor)
    /\ UNCHANGED <<highlight, composing, revisions, revisionNr, lastKnown, now, base, skewed>>

Wait ==
    /\ revisions # <<>> /\ Last(revisions).time = now /\ now' = now + 1
    /\ UNCHANGED <<highlight, element, selection, changed, composing, revisions, revisionNr,
                   lastKnown, base, skewed>>

InitEditor ==
    /\ highlight \in BOOLEAN
    /\ base \in FirstTexts /\ lastKnown = base
    /\ element = (IF base = <<>> THEN <<>> ELSE IF highlight THEN [i \in DOMAIN base |-> <<base[i]>>] ELSE <<base>>)
    /\ selection = <<>> /\ changed = FALSE /\ composing = FALSE
    /\ revisions = <<>> /\ revisionNr = 0
    /\ now = 0 /\ acts = 0 /\ skewed = FALSE

(* Once a history is skewed nothing more is said of it.                    *)
NextEditor ==
    /\ ~ skewed
    /\ \/ /\ acts < MaxActs /\ acts' = acts + 1
          /\ \/ Type \/ Enter \/ DeleteSelection \/ Paste \/ Tab \/ Backspace \/ Undo \/ Redo
             \/ Select \/ Compose \/ Reopen \/ Wait
       \/ (SelectionChange \/ Composed) /\ UNCHANGED acts

-----------------------------------------------------------------------------
(* Unless the editor overlooked what an input method composed, the history *)
(* is that of the text: its patches apply one after the other to the first *)
(* text, and inverted, backwards, so that there is never a conflict; they  *)
(* lead to the last text that was known; a cursor is within the text it    *)
(* was noted for; and no alteration is out of the range of the text nodes  *)
(* (commit(), checkout(), alter_element() of ed.js).                       *)
RECURSIVE After(_)
After(i) == IF i = 0 THEN base ELSE AlterString(After(i - 1), ToAlterations(revisions[i].patch))
EditsUndone ==
    ~ skewed =>
        /\ \A i \in DOMAIN revisions :
              LET patch == revisions[i].patch IN
              /\ Applies(patch, After(i - 1)) /\ Applies(InvertPatch(patch), After(i))
              /\ AlterString(After(i), ToAlterations(InvertPatch(patch))) = After(i - 1)
              /\ \A c \in ToSet(revisions[i].cursor) : c \in 0..Len(After(i))
        /\ lastKnown = After(revisionNr)
        /\ element # OutOfRange

=============================================================================
