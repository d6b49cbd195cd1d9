----------------------------- MODULE ExternalTools -----------------------------
(***************************************************************************)
(* The programs coursers asks when they are there: rtk (coursers/src/rtk), *)
(* whose savings go into the report of `crs discover`, and obfsck-mcp      *)
(* (coursers/src/obfsck), whose suggestions become the redaction filters   *)
(* of a project, which `crs filter` applies to what is left of an output   *)
(* (core/src/hook/filters.rs).  An output is one of OutputShape.           *)
(***************************************************************************)
EXTENDS OutputShape, Functions

-----------------------------------------------------------------------------
(* rtk: [present, works, exit, prints, supported].  It prints JSON, text   *)
(* or nothing but blanks; supported is a sequence of [command, tokens].    *)

NoAnswer == <<>>

\* Mutation of Stdout: whatever it printed counts.
StdoutAnyway(rtk) == IF rtk.present THEN <<rtk.prints>> ELSE NoAnswer

\* run and stdout_if_success
Stdout(rtk) == IF rtk.present /\ rtk.exit = 0 THEN <<rtk.prints>> ELSE NoAnswer

\* detect: `rtk --version` succeeds.
DetectRtk(rtk) == rtk.present /\ rtk.works

\* ProcessRtkClient::discover, as the map cmd_discover makes of it: the savings
\* of each command, those of the last entry that names it.
RtkSavings(rtk) ==
    IF ~DetectRtk(rtk) \/ Stdout(rtk) # <<"json">> THEN <<>>
    ELSE LET named == {rtk.supported[k].command : k \in DOMAIN rtk.supported}
             Of(c) == {k \in DOMAIN rtk.supported : rtk.supported[k].command = c}
         IN [c \in named |-> rtk.supported[Max(Of(c))].tokens]

\* ProcessRtkClient::rewrite, check and probe: blanks are no rewrite.
RtkRewrites(rtk) == Stdout(rtk) \notin {NoAnswer, <<"blanks">>}
RtkProbe(rtk) == [supported |-> RtkRewrites(rtk), equivalent |-> RtkRewrites(rtk)]

\* ProcessRtkClient::verify: installed unless the text says it is not.
RtkVerify(rtk) ==
    IF Stdout(rtk) = NoAnswer THEN NoAnswer ELSE <<[installed |-> Stdout(rtk) # <<"not installed">>]>>

\* NullRtkClient
NullRtk == [savings |-> <<>>, rewrites |-> FALSE, verify |-> NoAnswer]
ProcessRtk(rtk) ==
    [savings |-> RtkSavings(rtk), rewrites |-> RtkRewrites(rtk), verify |-> RtkVerify(rtk)]

-----------------------------------------------------------------------------
(* obfsck-mcp: [present, exit, lines], a line [kind, suggestions] of what  *)
(* it prints; a suggestion [label, pattern, complete].                     *)

\* parse_jsonrpc_response: the last line that is not blank.
Response(mcp) ==
    LET said == Kept(mcp.lines, {k \in DOMAIN mcp.lines : mcp.lines[k].kind # "blank"})
    IN IF ~mcp.present \/ (mcp.exit # 0 /\ mcp.lines = <<>>) \/ said = <<>> THEN NoAnswer
       ELSE IF Last(said).kind # "json" THEN NoAnswer ELSE <<Last(said)>>

\* parse_filter_suggestions (and parse_audit_hits): those with all fields.
FilterSuggestions(mcp) ==
    IF Response(mcp) = NoAnswer THEN <<>>
    ELSE LET all == Response(mcp)[1].suggestions IN Kept(all, {k \in DOMAIN all : all[k].complete})

-----------------------------------------------------------------------------
(* The files `crs discover` leaves in .ctx: [ctx, tools, filters].  The    *)
(* filters file [kind, entries] is absent, blank, a list of filters, or    *)
(* some other YAML; entries are what was appended, [label, pattern].       *)

Padded == "token "      \* a label with a blank at its end
NoScalar == "key: id"    \* a label that is no YAML scalar
Trim(label) == IF label = Padded THEN "token" ELSE label

\* Mutation of WriteObfsckFilters: what is there already is not looked at.
WriteAllFilters(file, suggestions) ==
    IF suggestions = <<>> THEN file
    ELSE [kind |-> IF file.kind = "other" THEN "other" ELSE "list",
          entries |-> file.entries \o [k \in DOMAIN suggestions |->
              [label |-> suggestions[k].label, pattern |-> suggestions[k].pattern]]]

\* write_obfsck_filters: new labels are appended behind what is there; the
\* labels of the file are read without blanks, those of the answer as they are.
WriteObfsckFilters(file, suggestions) ==
    LET existing == {Trim(file.entries[k].label) : k \in DOMAIN file.entries}
        new == Kept(suggestions, {k \in DOMAIN suggestions : suggestions[k].label \notin existing})
    IN IF new = <<>> THEN file
       ELSE [kind |-> IF file.kind = "other" THEN "other" ELSE "list",
             entries |-> file.entries \o [k \in DOMAIN new |->
                 [label |-> new[k].label, pattern |-> new[k].pattern]]]

\* load_obfsck_filters: a file that does not parse has no filters.
LoadObfsckFilters(file) ==
    IF file.kind = "list" /\ \A k \in DOMAIN file.entries : file.entries[k].label # NoScalar
    THEN file.entries ELSE <<>>

\* write_tools_yaml: the commands with their savings: rtk's, or else the
\* estimate when there is one; 0 is none.
ToolsReport(scan, savings) ==
    [scanned |-> scan.scanned,
     lines |-> [c \in DOMAIN scan.intercepted |->
                   IF c \in DOMAIN savings THEN savings[c] ELSE scan.intercepted[c]],
     unhandled |-> scan.unhandled]

\* Mutation of DiscoverFiles: an empty scan is written as well.
DiscoverAlways(files, scan, generate, rtk, mcp) ==
    IF ~files.ctx THEN files
    ELSE [ctx |-> files.ctx,
          tools |-> <<ToolsReport(scan, RtkSavings(rtk))>>,
          filters |-> IF generate /\ scan.unhandled # {}
                      THEN WriteObfsckFilters(files.filters, FilterSuggestions(mcp))
                      ELSE files.filters]

\* cmd_discover: what it leaves in the project's directory.
DiscoverFiles(files, scan, generate, rtk, mcp) ==
    IF ~files.ctx THEN files
    ELSE [ctx |-> files.ctx,
          tools |-> IF scan.scanned = 0 THEN files.tools ELSE <<ToolsReport(scan, RtkSavings(rtk))>>,
          filters |-> IF generate /\ scan.unhandled # {}
                      THEN WriteObfsckFilters(files.filters, FilterSuggestions(mcp))
                      ELSE files.filters]

-----------------------------------------------------------------------------
(* crs filter.  A pattern [compiles, lines] matches those lines.           *)

RedactedLine == "[REDACTED]"

\* Mutation of ApplyRedaction: only the first filter counts.
RedactFirst(text, filters) ==
    [text EXCEPT !.lines = [k \in DOMAIN @ |->
        IF filters # <<>> /\ filters[1].pattern.compiles /\ @[k] \in filters[1].pattern.lines
        THEN RedactedLine ELSE @[k]]]

\* apply_redaction: the lines that a pattern matches, which compiles.
ApplyRedaction(text, filters) ==
    LET hidden == UNION {filters[k].pattern.lines :
                            k \in {j \in DOMAIN filters : filters[j].pattern.compiles}}
    IN [text EXCEPT !.lines = [k \in DOMAIN @ |->
            IF @[k] \in hidden THEN RedactedLine ELSE @[k]]]

ShownAs(emits, text) == [emits |-> emits, text |-> text]

\* Mutation of CmdFilter: what is redacted is the output as it was.
FilterRedactedOutput(text, exit, rules, filters, learns) ==
    LET code == IF exit = UnknownExit THEN 0 ELSE exit
        made == RunFilter(text, code, rules)
    IN IF made.kind = "suppress" THEN ShownAs("message", made.text)
       ELSE IF learns THEN ShownAs("system message", text)
       ELSE IF made.kind = "passthrough" /\ ApplyRedaction(text, filters) # text
            THEN ShownAs("message", ApplyRedaction(text, filters))
       ELSE ShownAs("message", made.text)

\* cmd_filter: what the agent is shown of an output.  The rules come first,
\* then the redaction; a message of the prefix learning is shown with the
\* output as it was.
CmdFilter(text, exit, rules, filters, learns) ==
    LET code == IF exit = UnknownExit THEN 0 ELSE exit
        made == RunFilter(text, code, rules)
        final == ApplyRedaction(made.text, filters)
    IN IF made.kind = "suppress" THEN ShownAs("message", made.text)
       ELSE IF learns THEN ShownAs("system message", text)
       ELSE IF final # text THEN ShownAs("message", final)
       ELSE ShownAs("nothing", text)

-----------------------------------------------------------------------------
(* Properties *)

\* "All methods fail-open": a tool that is missing, fails or prints something
\* else changes nothing that discover writes, and is as good as the client that
\* does nothing.
ToolsFailOpen(scan, rtk) ==
    /\ ~DetectRtk(rtk) \/ rtk.exit # 0 \/ rtk.prints # "json"
          => ToolsReport(scan, RtkSavings(rtk)) = ToolsReport(scan, NullRtk.savings)
    /\ ~rtk.present \/ rtk.exit # 0 => ProcessRtk(rtk) = NullRtk /\ ~RtkProbe(rtk).supported

\* cmd_discover ("an empty scan carries no information, so never let it
\* overwrite a real report") and write_obfsck_filters ("merges with any existing
\* file"): nothing that is there is lost, what was suggested redacts from then
\* on, and the same answer once more changes nothing.  A label that is no YAML
\* scalar would make the whole file one without filters, and one with a blank
\* at its end is appended every time.
DiscoverKeeps(files, scan, generate, rtk, mcp) ==
    LET new == DiscoverFiles(files, scan, generate, rtk, mcp)
        suggested == FilterSuggestions(mcp)
        labels == {suggested[k].label : k \in DOMAIN suggested}
        loaded == LoadObfsckFilters(new.filters)
    IN /\ scan.scanned = 0 \/ ~files.ctx => new.tools = files.tools
       /\ IsPrefix(files.filters.entries, new.filters.entries)
       /\ NoScalar \notin labels /\ files.filters.kind # "other" =>
             /\ IsPrefix(LoadObfsckFilters(files.filters), loaded)
             /\ files.ctx /\ generate /\ scan.unhandled # {}
                   /\ (\A k \in DOMAIN files.filters.entries : files.filters.entries[k].label # NoScalar)
                   => {Trim(l) : l \in labels} \subseteq {Trim(loaded[k].label) : k \in DOMAIN loaded}
       /\ Padded \notin labels => DiscoverFiles(new, scan, generate, rtk, mcp).filters = new.filters

\* cmd_filter: whatever the rules make of an output, no line that a filter hides
\* is shown, unless the prefix learning has something to say; and every line is
\* still there, hidden or not.
RedactionHolds(text, exit, rules, filters, learns) ==
    LET shown == CmdFilter(text, exit, rules, filters, learns)
        made == RunFilter(text, IF exit = UnknownExit THEN 0 ELSE exit, rules)
        Hidden(line) == \E k \in DOMAIN filters :
                            filters[k].pattern.compiles /\ line \in filters[k].pattern.lines
    IN shown.emits # "system message" =>
          /\ \A k \in DOMAIN shown.text.lines : ~Hidden(shown.text.lines[k])
          /\ Len(shown.text.lines) = Len(made.text.lines)
          /\ \A k \in DOMAIN shown.text.lines :
                shown.text.lines[k] = RedactedLine => Hidden(made.text.lines[k])

=============================================================================
