----------------------------- MODULE CommandScan -----------------------------
(***************************************************************************)
(* How coursers takes a shell command apart (core/src/parse/pipeline.rs):  *)
(* sequential_segments at `&&`, `||` and `;`, pipe_stages at `|`, and the  *)
(* command name of each stage.  A command is a sequence of characters of   *)
(* which a name, whatever its length, is one.  The scanners walk over the  *)
(* bytes with a quote and an index; here the quote is a function of the    *)
(* position, and the operators are the positions that are not quoted.      *)
(***************************************************************************)
EXTENDS Naturals, SequencesExt, FiniteSetsExt

Blank == " "
Single == "'"
Double == "\""
Escape == "\\"
Pipe == "|"
Ampersand == "&"
Semicolon == ";"
Special == {Blank, Single, Double, Escape, Pipe, Ampersand, Semicolon}

\* Mutation of QuoteAfter: an escaped quote ends the string.
QuoteAfterEscape(quote, c) ==
    CASE quote = "none" /\ c = Single -> "single"
      [] quote = "none" /\ c = Double -> "double"
      [] quote = "single" /\ c = Single -> "none"
      [] quote = "double" /\ c = Double -> "none"
      [] OTHER -> quote

\* The quote after a character c that stands in quote.  Only double quotes
\* have an escape.
QuoteAfter(quote, c) ==
    CASE quote = "none" /\ c = Single -> "single"
      [] quote = "none" /\ c = Double -> "double"
      [] quote = "single" /\ c = Single -> "none"
      [] quote = "double" /\ c = Double -> "none"
      [] quote = "double" /\ c = Escape -> "escaped"
      [] quote = "escaped" -> "double"
      [] OTHER -> quote

\* The quote each character of text stands in.
Quotes(text) ==
    LET quote[i \in 1..Len(text)] ==
            IF i = 1 THEN "none" ELSE QuoteAfter(quote[i - 1], text[i - 1])
    IN quote

\* The positions of the first characters of doubled operators, taken from the
\* left: the third of three characters is on its own.
Doubled(text, operators) ==
    LET quote == Quotes(text)
        first[i \in 0..Len(text)] ==
            /\ i > 0 /\ i < Len(text)
            /\ quote[i] = "none"
            /\ text[i] \in operators /\ text[i + 1] = text[i]
            /\ ~first[i - 1]
    IN {i \in 1..Len(text) : first[i]}

\* An operator is a position and how many characters it has there.
SequentialOperators(text) ==
    LET quote == Quotes(text)
    IN {<<i, 2>> : i \in Doubled(text, {Ampersand, Pipe})}
        \cup {<<i, 1>> : i \in {j \in 1..Len(text) : quote[j] = "none" /\ text[j] = Semicolon}}

PipeOperators(text) ==
    LET quote == Quotes(text)
        doubled == Doubled(text, {Pipe})
    IN {<<i, 1>> : i \in {j \in 1..Len(text) : /\ quote[j] = "none" /\ text[j] = Pipe
                                               /\ j \notin doubled
                                               /\ j - 1 \notin doubled}}

\* The positions between cuts: what is not blank, as intervals, without what is
\* empty.
Inked(text, cuts) ==
    [k \in DOMAIN cuts |->
        {i \in (IF k = 1 THEN 1 ELSE cuts[k - 1][1] + cuts[k - 1][2])..(cuts[k][1] - 1) :
            text[i] # Blank}]
Intervals(inked) == [n \in DOMAIN inked |-> [from |-> Min(inked[n]), to |-> Max(inked[n])]]

\* What is between the operators, as intervals of positions: trimmed.
Pieces(text, operators) ==
    LET cuts == SetToSortSeq(operators, LAMBDA a, b : a[1] < b[1])
                    \o <<<<Len(text) + 1, 1>>>>
    IN Intervals(SelectSeq(Inked(text, cuts), LAMBDA positions : positions # {}))

At(text, piece) == SubSeq(text, piece.from, piece.to)
AtEach(text, pieces) == [n \in DOMAIN pieces |-> At(text, pieces[n])]
Parts(text, operators) == AtEach(text, Pieces(text, operators))

SequentialSegments(text) == Parts(text, SequentialOperators(text))
PipeStages(text) == Parts(text, PipeOperators(text))

-----------------------------------------------------------------------------
(* shell_words::split: words end at blanks outside quotes; it fails on an  *)
(* open quote and on a final escape, and unlike the scanners it knows an   *)
(* escape outside quotes.                                                  *)

WordQuoteAfter(quote, c) ==
    CASE quote = "none" /\ c = Single -> "single"
      [] quote = "none" /\ c = Double -> "double"
      [] quote = "none" /\ c = Escape -> "bare"
      [] quote = "single" -> IF c = Single THEN "none" ELSE "single"
      [] quote = "double" /\ c = Double -> "none"
      [] quote = "double" /\ c = Escape -> "escaped"
      [] quote = "escaped" -> "double"
      [] quote = "bare" -> "none"
      [] OTHER -> quote

\* How far the words of a text have been read: those that are complete, and
\* the characters of the one that is open; whether anything was escaped outside
\* quotes.
NoWords == [quote |-> "none", open |-> FALSE, word |-> <<>>, words |-> <<>>, bare |-> FALSE]

WordScan(text) ==
    LET Take(w, c) ==
            LET next == WordQuoteAfter(w.quote, c)
                markup == \/ w.quote = "none" /\ c \in {Single, Double, Escape}
                          \/ w.quote = "single" /\ c = Single
                          \/ w.quote = "double" /\ c \in {Double, Escape}
            IN IF w.quote = "none" /\ c = Blank
               THEN [w EXCEPT !.open = FALSE, !.word = <<>>,
                              !.words = IF w.open THEN Append(@, w.word) ELSE @]
               ELSE [w EXCEPT !.quote = next, !.open = TRUE, !.bare = @ \/ next = "bare",
                              !.word = IF markup THEN @ ELSE Append(@, c)]
    IN FoldLeft(Take, NoWords, text)

\* The words, none when the text does not parse.
WordsAt(end) ==
    IF end.quote # "none" THEN <<>>
    ELSE IF end.open THEN Append(end.words, end.word) ELSE end.words
Words(text) == WordsAt(WordScan(text))

\* argv[0] of a stage, nothing when the stage does not parse or has no words.
FirstWord(words) == IF words = <<>> THEN <<>> ELSE words[1]
CommandName(stage) == FirstWord(Words(stage))

NamesOf(stages) == [k \in DOMAIN stages |-> CommandName(stages[k])]
PipeStageCommands(text) == SelectSeq(NamesOf(PipeStages(text)), LAMBDA name : name # <<>>)

-----------------------------------------------------------------------------
(* Properties *)

\* sequential_segments and pipe_stages: taking a piece apart again leaves it as
\* it is, the pieces together have every name of the command, in order, and no
\* string is cut in two: when the shell can read the command and nothing is
\* escaped outside quotes, it can read every piece.
PiecesAreWhole(text, Split(_)) ==
    LET pieces == Split(text)
        end == WordScan(text)
        Names(s) == SelectSeq(s, LAMBDA c : c \notin Special)
    IN /\ \A k \in DOMAIN pieces : Split(pieces[k]) = <<pieces[k]>>
       /\ Names(FlattenSeq(pieces)) = Names(text)
       /\ end.quote = "none" /\ ~end.bare => \A k \in DOMAIN pieces : Words(pieces[k]) # <<>>

=============================================================================
