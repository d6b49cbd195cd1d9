------------------------------ MODULE MCHookWork ------------------------------
(***************************************************************************)
(* What a hook works on, one kind at a time: a text that grows by          *)
(* characters, a command to expand, a template, arguments, output,         *)
(* configuration layers, a transcript, session files, a script, days and   *)
(* firings, the row of a session, findings and a message to print, the     *)
(* document on stdin, an installation, a profile, what external tools say, *)
(* and the pipes to a child process.                                       *)
(***************************************************************************)
EXTENDS PipedChild, CommandRewriting, ToolSwap, OutputShape, HookConfig,
        SessionInsights, PrintedTables, CalendarDate, HookEntry,
        HookInstall, Profiles, ExternalTools, RuleTemplates

CONSTANTS
    MaxCharacters,  \* bound: of a text
    MaxRuleText,    \* bound: of a text that is checked against rules
    MaxExpanded,    \* bound: of a text with homes, URLs and quotes
    MaxTemplate,    \* bound: of a text with placeholders
    MaxArguments,   \* bound: of a command that reads a file
    MaxLines,       \* bound: of an output
    MaxRules,       \* bound: in all configuration layers
    MaxCalls,       \* bound: of a transcript
    MaxSessions,    \* bound: session files
    MaxSource,      \* bound: of a script
    MaxFilters,     \* bound: in a project's filters file
    MaxDays,        \* bound: how many days are walked from each start
    MaxFindings,    \* bound: in a report that is printed
    MaxLonger,      \* bound: characters of a message above MaxMessage
    MaxOdd          \* bound: fields or entries that are not as they should be

VARIABLES topic, work

vars == <<topic, work, pipeVars>>

Topics == {"text", "expand", "template", "arguments", "output", "layers", "transcript", "sessions",
           "script", "days", "row", "report", "message", "document", "installed", "profile", "tools", "pipes"}

-----------------------------------------------------------------------------
(* Inputs *)

\* `||` stands for `&&` too.
Characters == {"a", "b", Blank, Single, Double, Escape, Pipe, Semicolon}
ExpandedCharacters == {"a", Blank, Single, Tilde, Slash, Dollar, NuCommand, Url, Wide}

\* Rules that look anywhere and at the start, for a program and for the whole
\* text, with exceptions that match and that do not compile, and task overrides.
ARule(pattern, targets, exceptions, override) ==
    [enabled |-> TRUE, pattern |-> pattern, targets |-> targets,
     exceptions |-> exceptions, override |-> override]
Anywhere(words) == [kind |-> "anywhere", words |-> words]
AtStart(words) == [kind |-> "start", words |-> words]
Broken == [kind |-> "broken", words |-> <<>>]

RuleSets == {
    <<ARule(AtStart(<<"a">>), {}, {}, {[name |-> "task", wildcard |-> TRUE]}),
      ARule(Anywhere(<<"b">>), {<<"b">>}, {Broken}, {})>>,
    <<ARule(Anywhere(<<"a">>), {<<"a">>}, {Anywhere(<<Pipe, "b">>)}, {}),
      ARule(Anywhere(<<Semicolon, "b">>), {}, {}, {[name |-> "task", wildcard |-> FALSE]}),
      ARule(Anywhere(<<"a">>), {}, {AtStart(<<"b">>)}, {})>>}
Examples == {<<"a">>, <<"b", "a">>, <<"b">>, <<Semicolon, "b">>}
Titles == {{}, {<<"task">>}, {<<"other", "task">>}}
TaskFiles == {[state |-> "valid", running |-> titles] : titles \in Titles}
    \cup {[state |-> "malformed", running |-> {<<"task">>}]}

RewriteTables == {<<>>,
    <<[pattern |-> Anywhere(<<"a">>), with |-> <<"b">>],
      [pattern |-> Broken, with |-> <<>>],
      [pattern |-> AtStart(<<"b">>), with |-> <<"a", Blank, "b">>]>>}

\* A replacement, texts before and behind, all of them, none.
RuleRewrite(pattern, replace, prepend, inject) ==
    [pattern |-> pattern, replace |-> replace, prepend |-> prepend, inject |-> inject]
RewritesWith(own) == {
    RuleRewrite(<<Anywhere(<<"a">>)>>, <<own>>, <<>>, <<own>>),
    RuleRewrite(<<AtStart(<<"b">>)>>, <<<<>>>>, <<own>>, <<>>),
    RuleRewrite(<<>>, <<own>>, <<<<"op", Blank, BranchSlug>>>>, <<own>>),
    RuleRewrite(<<Broken>>, <<own>>, <<>>, <<>>)}
Surroundings == [user : {<<>>, <<"me">>}, branch : {<<>>, <<"fix", Slash, Upper, Underscore, "a">>}]
Branches == SeqOf({"feature", "main", Slash, Underscore, Upper}, 4)
Contexts == [target : {<<>>, <<<<"a", Blank>>>>, <<<<TargetField>>>>, <<<<ExitField>>>>},
             tool : {<<>>, <<<<"Bash">>>>}, exit : {<<>>, <<<<"0">>>>, <<<<"1">>>>}]
Matchers == SeqOf({"*", "Bash", "Edit"}, 2) \ {<<>>}

Arg(kind, value) == [kind |-> kind, value |-> value]
Arguments == {Arg("file", 1), Arg("file", 2), Arg("lines", 0), Arg("count", 1),
              Arg("number", 3), Arg("flag", 0), Arg("name", 0), Arg("maxdepth", 0)}
Files == [readable : BOOLEAN, lines : {0, 1, 4}, width : {2, 8}, partial : BOOLEAN]
SwapConfigs == [budget : {1, 5}, tailMax : {2}, depthMax : {1}]

FilterRules == [matches : {"yes", "no"}, max : {0, 2}, expression : {"none", "broken", "valid"},
                mode : {"passthrough", "failures-only", "errors-only", "truncate", "match-lines"}]

HookRules == [action : {"deny"}, command : {<<>>}, pattern : {"valid", "broken"},
              unless : {"none", "broken"}, template : {""}, label : {"plain"}]
    \cup [action : {"run"}, pattern : {"none"}, unless : {"none"}, template : {""},
          label : {"spaced"}, command : {<<>>, <<"git">>, <<"./git">>, <<"sh", "x", "-c">>}]
Layers == {"global", "plugin", "project"}

CallTexts == {<<"a">>, <<"a", Blank, "b", Blank, "b">>, <<"c", Semicolon, "b">>, <<"b", Blank, Blank, Dash, "a">>,
              <<"c", Semicolon, "a">>, <<"x", Equals, "1">>, <<PathSeparator, "a">>}
Calls == [tool : {"Bash"}, id : {0, 1, 2}, command : CallTexts, time : {0}]
    \cup [tool : {"Bash", "Edit"}, id : {0}, command : {<<"a">>}, time : {1, 2}]
AssistantLine(calls) == [type |-> "assistant", cwd |-> 1, calls |-> calls, results |-> <<>>]
CallLine(call) == AssistantLine(<<call>>)
TwoCalls == {AssistantLine([k \in 1..2 |-> [tool |-> "Bash", id |-> 0, command |-> c, time |-> 0]]) :
                c \in {<<"a">>, <<"x">>}}
ResultLine(id) == [type |-> "user", cwd |-> 1, calls |-> <<>>, results |-> <<[id |-> id, bytes |-> 9]>>]

\* Two directories of one name; heads that say nothing first, or a branch or a
\* time, or the directory.
Context(cwd, branch, time) == [cwd |-> cwd, branch |-> branch, time |-> time]
Places == {<<"home", "crs">>, <<"work", "crs">>, <<"work", "other">>}
HeadRecords == {NoContext, Context(<<>>, 1, 2), Context(<<"home", "crs">>, 1, 1),
                Context(<<"work", "crs">>, 0, 3), Context(<<"work", "other">>, 2, 0)}
SessionFiles == [id : {1, 2}, depth : {2}, modified : {1, 2}, head : SeqOf(HeadRecords, 2)]
    \cup [id : {1, 2}, depth : {3, 4}, modified : {2}, head : SeqOf(HeadRecords, 1)]
Facet(session, outcome, friction) ==
    [session |-> session, outcome |-> outcome, friction |-> friction]
FacetEntry(facet, json, parses) ==
    [json |-> json, regular |-> TRUE, parses |-> parses, facet |-> facet]
FacetEntries == <<FacetEntry(Facet(1, "done", 2), TRUE, TRUE), FacetEntry(Facet(3, "none", 0), TRUE, TRUE),
                  FacetEntry(Facet(2, "done", 0), FALSE, TRUE), FacetEntry(Facet(2, "part", 1), TRUE, TRUE),
                  FacetEntry(Facet(1, "none", 3), TRUE, FALSE), FacetEntry(Facet(1, "part", 0), TRUE, TRUE)>>

Sources == {"a", Wide, NewLine}
Scripts == SeqOf([checked : BOOLEAN, diagnostics : {<<>>, <<"warning", "error">>, <<"warning">>}], 2)

\* Filters that overlap, and one that does not compile.
Secrets == [compiles |-> TRUE, lines |-> {"matched", "both"}]
Errors == [compiles |-> TRUE, lines |-> {"error"}]
NoRegex == [compiles |-> FALSE, lines |-> {"plain"}]
AFilter(label, pattern) == [label |-> label, pattern |-> pattern]
Filters == {<<>>, <<AFilter("secret", Errors), AFilter("bad", NoRegex), AFilter("token", Secrets)>>}
FilterFiles == [kind : {"absent", "blank", "other"}, entries : {<<>>}]
    \cup [kind : {"list"}, entries : {<<>>, <<AFilter("secret", Errors)>>, <<AFilter(NoScalar, Errors)>>}]
Suggestion(label, complete) == [label |-> label, pattern |-> Secrets, complete |-> complete]
SaidLines == {<<[kind |-> "json", suggestions |-> s]>> : s \in
                 {<<Suggestion("token", FALSE), Suggestion("secret", TRUE)>>,
                  <<Suggestion("token", TRUE), Suggestion("secret", TRUE)>>,
                  <<Suggestion(Padded, TRUE)>>, <<Suggestion(NoScalar, TRUE), Suggestion("token", TRUE)>>}}
ToolLines == {<<>>} \cup {l \o end : l \in SaidLines, end \in
                 {<<>>, <<[kind |-> "blank", suggestions |-> <<>>]>>, <<[kind |-> "text", suggestions |-> <<>>]>>}}
Mcps == [present : BOOLEAN, exit : {0, 1}, lines : ToolLines]
Rtks == [present : BOOLEAN, works : BOOLEAN, exit : {0, 1},
         prints : {"json", "text", "blanks", "not installed"},
         supported : {<<>>, <<[command |-> "git", tokens |-> 9], [command |-> "npm", tokens |-> 1],
                             [command |-> "git", tokens |-> 0]>>}]
GoodRtk == [present |-> TRUE, works |-> TRUE, exit |-> 0, prints |-> "json",
            supported |-> <<[command |-> "git", tokens |-> 9]>>]
Scan(scanned, intercepted, unhandled) ==
    [scanned |-> scanned, intercepted |-> intercepted, unhandled |-> unhandled]
Scans == {Scan(0, <<>>, {}), Scan(2, [c \in {"git", "npm"} |-> IF c = "git" THEN 5 ELSE 0], {}),
          Scan(3, [c \in {"git"} |-> 4], {"x"})}

\* An entry of another event, of the right event for another tool, and two that
\* run the handler of another event.
OddEntries == {
    Entry("session-end", NoMatcher), Entry("post-tool-use", "Edit"), Entry("stop", "Bash"),
    [event |-> "stop", matcher |-> NoMatcher, runs |-> "subagent-stop"],
    [event |-> "pre-tool-use", matcher |-> "Bash", runs |-> "post-tool-use"]}
InstalledFiles == [{"project", "global"} -> SUBSET {"plugin", "declaration"}]
Programs == {{"coursers", "crs", "crux", "opencode"}, {"coursers", "crs", "crux"}, {"crs"}}
PluginToolCalls ==
    [tool : {"bash", "edit", "read"}, exit : {NoExit, 0, 1}, output : {"empty", "good"},
     args : [command : {"absent", "good"}, filePath : {"absent", "good"},
             file_path : {"absent", "good"}]]
Answers == [parsed : BOOLEAN, decision : {"allow", "deny", "other"}]
Backends == [ended : {"exit", "signal", "unlaunched"}, code : {0, 2}, prints : BOOLEAN]

\* 1970, before the leap day of 2000, before the end of February of 2100 and 2400.
FirstDays == {0, 10956, 47480, 157055}

\* Fields of about the width of their column, with and without a character of
\* three bytes at the place where they are cut.
Around(width) ==
    {{}} \cup UNION {{{Letters(n)}, {Append(Letters(n), Wide)}} : n \in width - 3..width + 1}
OddCells == [date |-> {{}, {Letters(9)}, {Letters(10)}}, repo |-> Around(Widths.repo),
             branch |-> Around(Widths.branch), outcome |-> Around(Widths.outcome),
             helpfulness |-> Around(Widths.helpfulness), friction |-> {5, 12345678},
             summary |-> Around(SummaryWidth)]
PlainRow == [date |-> {Letters(20)}, repo |-> {Letters(7)}, branch |-> {Letters(4)},
             outcome |-> {Letters(14)}, helpfulness |-> {Letters(12)}, friction |-> 0,
             summary |-> {Letters(30)}]
LongExamples == {Letters(36), Append(Letters(34), Wide), Letters(35) \o <<Wide, "a">>}
Findings == [intercepted |-> [count : {1, 3}, tokens : {0, 7, 1050, 1949}, example : {<<"a">>}],
             unhandled |-> [count : {2}, tokens : {0, 5}, example : LongExamples]]
Messages == {Letters(n) : n \in MaxMessage - 4..MaxMessage}

-----------------------------------------------------------------------------

NoWork ==
    CASE topic \in {"text", "expand", "template", "arguments", "output", "transcript", "sessions",
                    "script", "pipes"} -> {<<>>}
      [] topic = "layers" -> {[layer \in Layers |-> [state |-> "valid", rules |-> <<>>, swap |-> FALSE]]}
      [] topic = "row" -> {PlainRow}
      [] topic = "report" -> {[intercepted |-> <<>>, unhandled |-> <<>>]}
      [] topic = "message" -> [kind : {"pass", "deny", "rewrite", "run", "notify"},
                               text : Messages, count : {1}]
      [] topic = "document" -> {ProperDocument}
      [] topic = "installed" -> {ExpectedHooks}
      [] topic = "tools" -> [ctx : BOOLEAN, tools : {<<>>}, filters : FilterFiles]
      [] topic = "profile" -> [flags : Flags, env : Environments]
      [] topic = "days" -> [first : FirstDays, walked : {0}, heat : {NoHeat}]

\* No child was started.
NoPipes ==
    /\ text = 0 /\ style = "collects"
    /\ parent = "done" /\ sent = 0 /\ got = 0
    /\ child = "succeeded" /\ toChild = 0 /\ fromChild = 0 /\ taken = 0 /\ given = 0

Init ==
    /\ topic \in Topics
    /\ work \in NoWork
    /\ IF topic = "pipes" THEN PipeInit ELSE NoPipes

Grow(kind, max, elements) ==
    /\ topic = kind
    /\ Len(work) < max
    /\ \E e \in elements : work' = Append(work, e)
    /\ UNCHANGED <<topic, pipeVars>>

AddCharacter == Grow("text", MaxCharacters, Characters)
AddExpanded == Grow("expand", MaxExpanded, ExpandedCharacters)
AddPlaceholder == Grow("template", MaxTemplate, {"a", "b", Blank} \cup Placeholders)
AddArgument == Grow("arguments", MaxArguments, Arguments)
AddLine == Grow("output", MaxLines, Lines)
AddCall ==
    Grow("transcript", MaxCalls, {CallLine(call) : call \in Calls} \cup TwoCalls \cup {ResultLine(1)})
AddSession == Grow("sessions", MaxSessions, SessionFiles)
AddToScript == Grow("script", MaxSource, Sources)

AddRule ==
    /\ topic = "layers"
    /\ \E layer \in Layers, rule \in HookRules :
          /\ work[layer].state # "absent"
          /\ Len(work["global"].rules) + Len(work["plugin"].rules) + Len(work["project"].rules)
                < MaxRules
          /\ work' = [work EXCEPT ![layer].rules = Append(@, rule)]
    /\ UNCHANGED <<topic, pipeVars>>

\* A layer's file is broken or mended, gets or loses its table, or goes away.
ChangeLayer ==
    /\ topic = "layers"
    /\ \E layer \in Layers :
          \/ \E s \in {"valid", "malformed", "unreadable"} :
                work' = [work EXCEPT ![layer].state = s, ![layer].swap = FALSE]
          \/ work' = [work EXCEPT ![layer].state = "valid", ![layer].swap = TRUE]
          \/ work' = [work EXCEPT ![layer] = NoFileThere]
    /\ UNCHANGED <<topic, pipeVars>>

NextDay ==
    /\ topic = "days"
    /\ work.walked < MaxDays
    /\ work' = [work EXCEPT !.walked = @ + 1,
                            !.heat = RecordFiring(@, work.first + work.walked,
                                                  (work.walked \div 9) % 3)]
    /\ UNCHANGED <<topic, pipeVars>>

\* A field of the session whose row is printed is another.
ChangeCell ==
    /\ topic = "row"
    /\ \E column \in DOMAIN OddCells : \E cell \in OddCells[column] :
          work' = [work EXCEPT ![column] = cell]
    /\ Cardinality({c \in DOMAIN work' : work'[c] # PlainRow[c]}) <= MaxOdd
    /\ UNCHANGED <<topic, pipeVars>>

AddFinding ==
    /\ topic = "report"
    /\ Len(work.intercepted) + Len(work.unhandled) < MaxFindings
    /\ \E list \in DOMAIN Findings : \E finding \in Findings[list] :
          work' = [work EXCEPT ![list] = Append(@, finding)]
    /\ UNCHANGED <<topic, pipeVars>>

AddToMessage ==
    /\ topic = "message"
    /\ Len(work.text) < MaxMessage + MaxLonger
    /\ \E c \in {"a", Wide} : work' = [work EXCEPT !.text = Append(@, c)]
    /\ UNCHANGED <<topic, pipeVars>>

\* A field of the document is another.
ChangeField ==
    /\ topic = "document"
    /\ \E other \in NextDocuments(work) :
          /\ Cardinality({f \in DOMAIN other : other[f] # ProperDocument[f]}) <= MaxOdd
          /\ work' = other
    /\ UNCHANGED <<topic, pipeVars>>

\* `crs discover` is run.
RunDiscover ==
    /\ topic = "tools"
    /\ \E scan \in Scans, generate \in BOOLEAN, mcp \in Mcps :
          work' = DiscoverFiles(work, scan, generate, GoodRtk, mcp)
    /\ Len(work'.filters.entries) <= MaxFilters
    /\ UNCHANGED <<topic, pipeVars>>

\* An entry of the hooks file is removed or added.
ToggleEntry ==
    /\ topic = "installed"
    /\ \E entry \in ExpectedHooks \cup OddEntries :
          work' = IF entry \in work THEN work \ {entry} ELSE work \cup {entry}
    /\ Cardinality((work' \ ExpectedHooks) \cup (ExpectedHooks \ work')) <= MaxOdd
    /\ UNCHANGED <<topic, pipeVars>>

UsePipes ==
    /\ topic = "pipes"
    /\ PipeNext
    /\ UNCHANGED <<topic, work>>

\* What there is may be all there is.
Enough == topic # "pipes" /\ UNCHANGED vars

Next ==
    \/ Enough
    \/ AddCharacter \/ AddExpanded \/ AddPlaceholder \/ AddArgument \/ AddLine \/ AddRule \/ ChangeLayer
    \/ AddCall \/ AddSession \/ AddToScript \/ NextDay \/ ChangeField \/ ToggleEntry
    \/ ChangeCell \/ AddFinding \/ AddToMessage \/ RunDiscover \/ UsePipes

HookRuns == topic = "pipes" /\ HookSteps /\ UNCHANGED <<topic, work>>
ChildRuns == topic = "pipes" /\ ChildSteps /\ UNCHANGED <<topic, work>>

\* The kernel runs the hook and its child, as in PipeSpec.
Spec == Init /\ [][Next]_vars /\ WF_vars(HookRuns) /\ WF_vars(ChildRuns)

-----------------------------------------------------------------------------
(* The properties of the modules, for the work at hand *)

\* sequential_segments and pipe_stages cut a command so that every piece stays
\* one when it is cut again and no name is lost (PiecesAreWhole).
CommandsTakenApart ==
    topic = "text" => PiecesAreWhole(work, SequentialSegments) /\ PiecesAreWhole(work, PipeStages)

\* check_pipeline: nothing put before or behind an operator takes a denial away
\* (ChainingEvadesNoRule), a running task lifts the rules it overrides only
\* (OverrideLiftsOnlyItsRules), and what a report counts as blocked is denied
\* (ReportsOnlyDenied), and the marked part is what the rule denied
\* (SpanLinesUp).  cmd_validate: a rule that passes works (ValidatedRulesWork).
DenialsHoldInChains ==
    topic = "text" /\ Len(work) <= MaxRuleText => \A rules \in RuleSets :
        /\ ChainingEvadesNoRule(work, rules)
        /\ SpanLinesUp(work, rules)
        /\ \A titles \in Titles : ReportsOnlyDenied(work, rules, titles)
        /\ Len(work) < MaxRuleText =>
              /\ \A cache \in TaskFiles : OverrideLiftsOnlyItsRules(work, rules, cache)
              /\ \A other \in Examples : /\ ValidatedRulesWork(work, other, rules)
                                        /\ ValidatedRulesWork(other, work, rules)

\* expand_vars and cmd_rewrite: only homes are expanded (ExpandsHomesOnly), no
\* rewrite is left out and a probe's retry runs as typed (RewriteLosesNothing).
\* run_pipeline: a rule of a hook file expands its own variables and not those
\* of the command (RewriteKeepsVariables), its messages tell what is known
\* (MessagesTellTheContext), a slug is a name (SlugsAreNames), and a matcher's
\* alternatives all count (AlternativesCount).
RewritesKeepCommands ==
    /\ topic = "expand" =>
          /\ ExpandsHomesOnly(work)
          /\ \A rewrites \in RewriteTables, prefix \in {<<>>, <<"op">>} :
                RewriteLosesNothing(work, rewrites, prefix)
    /\ topic = "template" =>
          /\ \A env \in Surroundings :
                /\ \A rule \in RewritesWith(<<EnvVariable, BranchSlug>>) :
                      RewriteKeepsVariables(work, rule, env)
                /\ \A rule \in RewritesWith(work) :
                      RewriteKeepsVariables(<<"b", EnvVariable, "a">>, rule, env)
          /\ \A context \in Contexts : MessagesTellTheContext(work, context)
          /\ work = <<>> =>
                /\ \A branch \in Branches : SlugsAreNames(branch)
                /\ \A matcher \in Matchers, tool \in {"Bash", "Edit", ""} :
                      AlternativesCount(matcher, tool)

\* The base contract of a VarExpander (PlainCommandPassesThrough).
PlainCommandsPassThrough == topic = "expand" => PlainCommandPassesThrough(work)

\* tool_swap: a Read shows lines the command would have printed, and all of them
\* within the token budget (SwapShowsWhatIsAsked).
SwapsShowOnlyWhatIsAsked ==
    topic = "arguments" =>
        \A name \in {"cat", "head", "tail", "find"}, file \in Files, config \in SwapConfigs :
            SwapShowsWhatIsAsked(name, work, file, config)

\* filter_logic: shaping keeps failures and errors, and counts what it leaves
\* out (ShapingKeepsFailures).  nu_check: an error is at its place in the
\* script (PlacesAreRight), and no failed check passes (ScriptsAreChecked).
\* cmd_filter: what is hidden stays hidden, whatever the rules make of an output
\* (RedactionHolds), unless a prefix was learnt: cmd_filter then says so instead
\* of its output, and what is shown is the tool's own.
FailuresStayVisible ==
    /\ topic = "script" => PlacesAreRight(work) /\ \A scripts \in Scripts : ScriptsAreChecked(scripts)
    /\ topic = "output" =>
        \A rule \in FilterRules, exit \in {0, 1, UnknownExit}, ended \in BOOLEAN :
            LET output == Text(work, ended /\ work # <<>>)
            IN /\ ShapingKeepsFailures(output, exit, <<rule>>)
               /\ Len(work) < MaxLines => \A filters \in Filters, learns \in BOOLEAN :
                     RedactionHolds(output, exit, <<rule>>, filters, learns)

\* load_config: a repository's file adds to the user's rules and takes nothing
\* away (ProjectFileOnlyAdds), in the project or above it; what validate_config
\* reports is what run_pipeline cannot use (ReportsWhatCannotWork).  filters::load
\* and the loaders of the chain: both files of filters count
\* (ProjectFiltersSupplement), for the chain too (ChainReadsTheSameFiles).
LayersHold ==
    topic = "layers" =>
        /\ ProjectFiltersSupplement(<<work["project"]>>, work["global"])
        /\ \A override \in {<<>>, <<work["plugin"]>>} :
              ChainReadsTheSameFiles(override, <<work["project"]>>, work["global"])
        /\ \A dirs \in {<<work["project"]>>, <<NoFileThere, work["project"], work["global"]>>} :
               LET plugins == <<[toml |-> FALSE, file |-> work["project"]],
                                [toml |-> TRUE, file |-> work["plugin"]]>>
               IN /\ ProjectFileOnlyAdds(work["global"], plugins, dirs)
                  /\ ReportsWhatCannotWork(work["global"], plugins, dirs)

\* parse_session_content, discover and suggest: no call is lost (NoCallIsLost),
\* the buckets of a report add up and hold what the hook denies, chains aside
\* (ReportsAddUp), and a suggested rule catches what it was suggested for
\* (SuggestionsCatch) and settles the report (SuggestionsSettle), the worthiest
\* first (SuggestsWorthiest).  replay agrees with the report
\* (ReplayMatchesReport); the report of sessions adds up (InsightsAddUp), and
\* each session is where it was (SessionsHavePlaces).
TranscriptsAddUp ==
    /\ topic = "transcript" =>
          /\ NoCallIsLost(work)
          /\ \A records \in {ParseSession(work, 0)}, rules \in RuleSets \cup {<<>>} :
                /\ \A cutoff \in {0, 2} : ReportsAddUp(records, rules, cutoff)
                /\ ReplayMatchesReport(work, records, rules)
                /\ SuggestionsSettle(records, rules)
          /\ work = <<>> => \A frequencies \in [{"x", "y", "z"} -> [count : 1..3, tokens : {0, 2}]],
                               limit \in {0, 2} : SuggestsWorthiest(frequencies, limit)
    /\ topic = "sessions" =>
          /\ \A limit \in {1, 10} : InsightsAddUp(ToSet(work), LoadFacets(FacetEntries), limit)
          /\ \A cwd \in Places : SessionsHavePlaces(ToSet(work), cwd)
    /\ topic = "text" => SuggestionsCatch(work)

\* unix_secs_to_ymd walks the calendar (DatesFollowTheCalendar), and the heat
\* map adds up (HeatAddsUp).  The table of `crs insights` lines up (RowLinesUp),
\* the text of `crs discover` tells what its JSON tells (TextTellsWhatJsonTells),
\* and the messages of `crs log` are cut as late as their bytes allow
\* (MessageIsCutLate).  The examples in the text of `crs discover` and the
\* previews of `crs history` are cut at bytes like Example and Trunc.
PrintedReportsHold ==
    /\ topic = "days" =>
          /\ DatesFollowTheCalendar(work.first + work.walked)
          /\ work.walked % 7 = 0 => HeatAddsUp(work.heat, work.walked)
    /\ topic = "row" => RowLinesUp(work)
    /\ topic = "report" => TextTellsWhatJsonTells(work)
    /\ topic = "message" => MessageIsCutLate(work)

\* The entry points agree on any document in any world (EntriesAgree), on what
\* they learn from an end too (EndsReadAlike).  state_path and ConfigBuilder:
\* what one hook learns the other sees (MemoryIsShared), and no profile sees
\* another's (ProfilesAreApart).
EntryPointsAgree ==
    /\ topic = "document" => \A w \in Worlds : EntriesAgree(work, w) /\ EndsReadAlike(work, w)
    /\ topic = "profile" =>
          MemoryIsShared(work.flags, work.env) /\ ProfilesAreApart(work.flags, work.env)

\* An installation that is accepted leads to the handlers
\* (CodexHooksLeadSomewhere, PluginIsUnderstood), which take a tool call for what
\* it is (PluginCallsAreRequests).
InstalledHooksArrive ==
    topic = "installed" =>
        /\ \A binaries \in Programs, crux \in Backends :
              CodexHooksLeadSomewhere(work, binaries, crux)
        /\ \A files \in InstalledFiles, binaries \in Programs, answer \in Answers :
              PluginIsUnderstood(files, binaries, answer)
        /\ \A call \in PluginToolCalls : PluginCallsAreRequests(call)

\* cmd_discover: no run takes away what the project has, and a suggestion is
\* taken once (DiscoverKeeps); the tools it asks may be missing (ToolsFailOpen).
ToolsAddOnly ==
    topic = "tools" =>
        \A scan \in Scans :
            /\ \A generate \in BOOLEAN, mcp \in Mcps : DiscoverKeeps(work, scan, generate, GoodRtk, mcp)
            /\ \A rtk \in Rtks : ToolsFailOpen(scan, rtk)

=============================================================================
