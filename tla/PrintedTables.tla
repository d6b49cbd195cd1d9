---------------------------- MODULE PrintedTables ----------------------------
(***************************************************************************)
(* What coursers prints for people to read (coursers/src/crs_commands.rs): *)
(* the table of `crs insights`, the text of `crs discover`, and the        *)
(* outcomes in `crs log`.  All of them cut what is too long.  Texts and    *)
(* their bytes are those of SessionInsights; a cell of a table is a text.  *)
(***************************************************************************)
EXTENDS SessionInsights

-----------------------------------------------------------------------------
(* Texts that are cut.  Slicing a str is a set: the text, or none at all,  *)
(* since slicing within a character panics.                                *)

Blanks(n) == [i \in 1..n |-> Blank]
Letters(n) == [i \in 1..n |-> "a"]

Slice(text, bytes) ==
    {SubSeq(text, 1, k) : k \in {j \in 0..Len(text) : ByteCount(SubSeq(text, 1, j)) = bytes}}

\* Mutation of TruncateDisplay: the characters are counted.
TruncateCharacters(text, max) == SubSeq(text, 1, Min({max, Len(text)}))

\* truncate_display: up to the last character that ends within max bytes.
TruncateDisplay(text, max) ==
    SubSeq(text, 1, Max({k \in 0..Len(text) : ByteCount(SubSeq(text, 1, k)) <= max}))

MaxMessage == 60

\* format_log_outcome: what is behind the name of an outcome.
FormatLogOutcome(outcome) ==
    CASE outcome.kind \in {"deny", "rewrite"} -> TruncateDisplay(outcome.text, MaxMessage)
      [] outcome.kind \in {"run", "notify"} -> <<outcome.count>>
      [] OTHER -> <<>>

-----------------------------------------------------------------------------
(* The table of `crs insights`.  A field is a set: its text, or none.      *)

Columns == <<"date", "repo", "branch", "outcome", "helpfulness", "friction", "summary">>
Widths == [date |-> 10, repo |-> 14, branch |-> 12, outcome |-> 20, helpfulness |-> 16,
           friction |-> 8]
SummaryWidth == 60
Gap == 2
Unknown == <<"?">>
Powers == <<10, 100, 1000, 10000, 100000, 1000000, 10000000, 100000000>>  \* bound: nine digits

\* Mutation of LeftAligned: what is no text of the session is not filled up.
LeftAsIs(text, width) == IF text = Unknown THEN text ELSE text \o Blanks(width - Len(text))

LeftAligned(text, width) == text \o Blanks(width - Len(text))
RightAligned(text, width) == Blanks(width - Len(text)) \o text
Digits(n) == Letters(1 + Cardinality({k \in DOMAIN Powers : n >= Powers[k]}))

\* trunc: filled up, or cut to so many bytes.
Trunc(text, width) ==
    IF ByteCount(text) <= width THEN {LeftAligned(text, width)} ELSE Slice(text, width)

Header == <<LeftAligned(Letters(4), Widths.date), LeftAligned(Letters(4), Widths.repo),
            LeftAligned(Letters(6), Widths.branch), LeftAligned(Letters(7), Widths.outcome),
            LeftAligned(Letters(11), Widths.helpfulness),
            RightAligned(Letters(8), Widths.friction), Letters(7)>>

\* What a row shows of a column; {} when it panics.
CellText(session, column) ==
    CASE column = "friction" -> {Digits(session.friction)}
      [] column = "summary" ->
           UNION {IF ByteCount(text) > SummaryWidth THEN Slice(text, SummaryWidth) ELSE {text} :
                     text \in IF session.summary = {} THEN {<<>>} ELSE session.summary}
      [] OTHER ->
           IF session[column] = {} THEN {Unknown}
           ELSE IF column = "date"
           THEN UNION {Slice(text, Min({ByteCount(text), Widths.date})) : text \in session.date}
           ELSE UNION {Trunc(text, Widths[column]) : text \in session[column]}

\* format_insight_row: its cells in the order of the columns, or no row at all.
FormatInsightRow(session) ==
    LET Cell(k, text) == CASE Columns[k] = "summary" -> text
                           [] Columns[k] = "friction" -> RightAligned(text, Widths.friction)
                           [] OTHER -> LeftAligned(text, Widths[Columns[k]])
        shown == [k \in DOMAIN Columns |-> CellText(session, Columns[k])]
    IN IF \E k \in DOMAIN Columns : shown[k] = {} THEN {}
       ELSE {[k \in DOMAIN Columns |-> Cell(k, CHOOSE text \in shown[k] : TRUE)]}

-----------------------------------------------------------------------------
(* The text of `crs discover`: a report is two lists of findings           *)
(* [count, tokens, example].                                               *)

ExampleWidth == 36
Ellipsis == "..."

Example(text) ==
    IF ByteCount(text) > ExampleWidth
    THEN {Append(prefix, Ellipsis) : prefix \in Slice(text, ExampleWidth)} ELSE {text}

\* format_tokens: the numbers that its text may stand for, to the nearest
\* hundred from a thousand on.
FormatTokens(n) ==
    LET below == n - (n % 100)
    IN IF n < 1000 THEN {n}
       ELSE {m \in {below, below + 100} : m - n <= 50 /\ n - m <= 50}

\* Mutation of HasTokens: all of them.
AllHaveTokens(findings) == \A k \in DOMAIN findings : findings[k].tokens > 0

HasTokens(findings) == \E k \in DOMAIN findings : findings[k].tokens > 0

SumOver(findings, field) == Summed([k \in DOMAIN findings |-> findings[k][field]])

\* print_discover_text: the rows, and a total unless there are none.  Tokens
\* are {} where the text has no such column.  A row that panics is the end.
PrintDiscoverText(report) ==
    LET tokens(n) == IF HasTokens(report.intercepted) THEN FormatTokens(n) ELSE {}
        total == [count |-> SumOver(report.intercepted, "count"),
                  tokens |-> IF HasTokens(report.intercepted)
                             THEN {SumOver(report.intercepted, "tokens")} ELSE {}]
        panics == {k \in DOMAIN report.unhandled : Example(report.unhandled[k].example) = {}}
        end == IF panics = {} THEN Len(report.unhandled) ELSE Min(panics) - 1
    IN [rows |-> [k \in DOMAIN report.intercepted |->
                     [count |-> report.intercepted[k].count,
                      tokens |-> tokens(report.intercepted[k].tokens)]],
        total |-> IF report.intercepted = <<>> THEN {} ELSE {total},
        examples |-> [k \in 1..end |-> CHOOSE text \in Example(report.unhandled[k].example) : TRUE],
        ended |-> panics = {}]

\* print_discover_json
PrintDiscoverJson(report) == report

-----------------------------------------------------------------------------
(* Properties *)

IsCutFrom(text, whole) == \E k \in 0..Len(whole) : text = SubSeq(whole, 1, k)
Start(row, k) == Summed([i \in 1..k - 1 |-> Len(row[i]) + Gap])

\* format_insight_row and insights_header: whatever a session lacks and however
\* many bytes its characters have, every column of its row begins where the
\* header has it, and says nothing that is not the session's.
RowLinesUp(session) ==
    \A row \in FormatInsightRow(session) : \A k \in DOMAIN Columns :
        /\ Start(row, k) = Start(Header, k)
        /\ Columns[k] # "friction" =>
               \A text \in session[Columns[k]] :
                   \E length \in 0..Len(row[k]) :
                       /\ IsCutFrom(SubSeq(row[k], 1, length), text)
                       /\ ByteCount(text) <= 8 => length = Len(text)

\* print_discover_text next to print_discover_json: the counts of the text add
\* up to its total, the tokens do within what was rounded off, and a text that
\* speaks of no output data comes of a report that has none.
TextTellsWhatJsonTells(report) ==
    LET text == PrintDiscoverText(report)
        found == PrintDiscoverJson(report).intercepted
    IN \A total \in text.total :
          /\ total.count = SumOver(text.rows, "count")
          /\ total.tokens = {} => SumOver(found, "tokens") = 0
          /\ \A sum \in total.tokens :
                /\ Summed([k \in DOMAIN text.rows |-> Max(text.rows[k].tokens)])
                      <= sum + (50 * Len(found))
                /\ Summed([k \in DOMAIN text.rows |-> Min(text.rows[k].tokens)])
                      >= sum - (50 * Len(found))

\* format_log_outcome: the message of an outcome keeps its beginning, in whole
\* characters and within its bytes, and no character more would have fitted.
MessageIsCutLate(outcome) ==
    outcome.kind \in {"deny", "rewrite"} =>
        LET shown == FormatLogOutcome(outcome)
        IN /\ IsCutFrom(shown, outcome.text)
           /\ ByteCount(shown) <= MaxMessage
           /\ shown # outcome.text =>
                 ByteCount(SubSeq(outcome.text, 1, Len(shown) + 1)) > MaxMessage

=============================================================================
