---------------------------- MODULE SessionReports ----------------------------
(***************************************************************************)
(* What coursers reads from the transcripts of sessions: the Bash calls of *)
(* a transcript (core/src/jsonl_source.rs), how often which command was    *)
(* intercepted and which was not (analyze/history.rs), the rule suggested  *)
(* for one that was not (analyze/suggest.rs).  Commands are texts as in    *)
(* CommandScan; a time or a directory is a number, 0 when there is none.   *)
(***************************************************************************)
EXTENDS RuleMatching

Equals == "="
Dash == "-"
PathSeparator == "/"

-----------------------------------------------------------------------------
(* A transcript: lines [type, cwd, calls, results].  A call is [tool, id,  *)
(* command, time], a result [id, bytes]; 0 is no id.                       *)

NoCalls == [x \in {} |-> 0]

\* Mutation of CallKey: calls without an id are told apart by their length.
KeyByLength(call, calls) ==
    IF call.id # 0 THEN <<"id", call.id, 0>> ELSE <<"no id", Len(call.command), 0>>

\* The key of a call: its id, or one made of its length and of how many calls
\* there are.
CallKey(call, calls) ==
    IF call.id # 0 THEN <<"id", call.id, 0>>
    ELSE <<"no id", Len(call.command), Cardinality(DOMAIN calls)>>

\* parse_assistant_block: the Bash calls of a line from the right directory.
\* cwd is 0 for all projects.
TakeCalls(calls, line, cwd) ==
    LET Insert(c, call) ==
            IF call.tool # "Bash" THEN c
            ELSE (CallKey(call, c) :> [command |-> call.command, cwd |-> line.cwd,
                                       time |-> call.time]) @@ c
    IN IF line.type # "assistant" \/ (cwd # 0 /\ line.cwd # cwd) THEN calls
       ELSE FoldLeft(Insert, calls, line.calls)

\* parse_user_block: an empty result leaves no size.
TakeResults(sizes, line) ==
    LET Insert(s, result) ==
            IF result.id = 0 \/ result.bytes = 0 THEN s
            ELSE (<<"id", result.id, 0>> :> result.bytes) @@ s
    IN IF line.type # "user" THEN sizes ELSE FoldLeft(Insert, sizes, line.results)

\* parse_session_content: a call with the size of its result, by its key; 0 when
\* there is none.  The order of the records is that of a hash map.
ParseSession(lines, cwd) ==
    LET Calls(c, line) == TakeCalls(c, line, cwd)
        calls == FoldLeft(Calls, NoCalls, lines)
        sizes == FoldLeft(TakeResults, NoCalls, lines)
    IN [key \in DOMAIN calls |->
            [command |-> calls[key].command, cwd |-> calls[key].cwd, time |-> calls[key].time,
             bytes |-> IF key \in DOMAIN sizes THEN sizes[key] ELSE 0]]

-----------------------------------------------------------------------------
(* discover *)

Tokens(text) == Parts(text, {<<i, 1>> : i \in {j \in DOMAIN text : text[j] = Blank}})
IsAssignment(token) == Equals \in ToSet(token) /\ token[1] # Dash
Basename(token) ==
    LET slashes == {i \in DOMAIN token : token[i] = PathSeparator}
    IN IF slashes = {} THEN token ELSE SubSeq(token, Max(slashes) + 1, Len(token))

FromProgram(tokens) ==
    LET others == {i \in DOMAIN tokens : ~IsAssignment(tokens[i])}
    IN IF others = {} THEN <<>> ELSE SubSeq(tokens, Min(others), Len(tokens))

\* stem_of: the program without its path, and the word behind it when that is
\* no flag and one more follows.
StemOfTokens(tokens) ==
    IF tokens = <<>> THEN <<>>
    ELSE IF Len(tokens) > 2 /\ tokens[2][1] # Dash THEN <<Basename(tokens[1]), tokens[2]>>
    ELSE IF Basename(tokens[1]) = <<>> THEN <<>> ELSE <<Basename(tokens[1])>>
StemOf(text) == StemOfTokens(FromProgram(Tokens(text)))

TokenBytes == 4         \* BYTES_PER_TOKEN

\* The records in one bucket by their stems: how often, and how many tokens.
ByStem(records, stem) ==
    LET Of(s) == {k \in DOMAIN stem : stem[k] = s}
    IN [s \in Range(stem) |->
           [count |-> Cardinality(Of(s)),
            tokens |-> FoldSet(LAMBDA k, sum : sum + records[k].bytes \div TokenBytes,
                               0, Of(s))]]
Frequencies(records, keys) == ByStem(records, [k \in keys |-> StemOf(records[k].command)])

Report(records, rules, scanned) ==
    LET hit == {k \in scanned : MatchedRuleId(records[k].command, rules) # None}
        stemmed == {k \in scanned : StemOf(records[k].command) # <<>>}
    IN [scanned |-> Cardinality(scanned),
        intercepted |-> Frequencies(records, stemmed \cap hit),
        unhandled |-> Frequencies(records, stemmed \ hit)]

\* discover: what is recent enough and from the right directory, in two buckets.
\* A record without a time is recent.
Discover(records, rules, cutoff, cwd) ==
    Report(records, rules,
           {k \in DOMAIN records : /\ cwd # 0 => records[k].cwd = cwd
                                   /\ records[k].time = 0 \/ records[k].time >= cutoff})

\* The lists a report may show: at least min times, the most frequent first,
\* ties in any order, no more than limit; 0 is no limit.
Listed(frequencies, min, limit) ==
    LET enough == {s \in DOMAIN frequencies : frequencies[s].count >= Max({1, min})}
        sorted == {l \in SetToSeqs(enough) :
                     \A i, j \in DOMAIN l :
                         i < j => frequencies[l[i]].count >= frequencies[l[j]].count}
    IN IF limit = 0 THEN sorted ELSE {SubSeq(l, 1, Min({limit, Len(l)})) : l \in sorted}

\* Mutation of Suggest: the order of the report is kept.
SuggestAsListed(frequencies, list) == list

\* suggest: of the unhandled stems a report lists, those first that save most;
\* equal ones as they are listed.
Suggest(frequencies, list) ==
    LET score(k) == frequencies[list[k]].count * Max({1, frequencies[list[k]].tokens})
        order == SetToSortSeq(DOMAIN list, LAMBDA j, k : score(j) > score(k)
                                                         \/ (score(j) = score(k) /\ j < k))
    IN [i \in DOMAIN list |-> list[order[i]]]

\* cmd_suggest: the stems it suggests a rule for.
SuggestionsFor(unhandled, limit) ==
    {Suggest(unhandled, list) : list \in Listed(unhandled, 1, limit)}
Suggestions(records, rules, cutoff, limit) ==
    SuggestionsFor(Discover(records, rules, cutoff, 0).unhandled, limit)

\* known_tool_mapping: programs of which one stands for the other, as grep and
\* rg do; a and b are two of those.
KnownTools == {<<"a">>, <<"b">>}
SuggestedTargets(stem) == {stem[1]} \cup (IF stem[1] \in KnownTools THEN KnownTools ELSE {})

\* Mutation of SuggestedFires: the target is the whole stem.
SuggestedForStem(stem, text) ==
    /\ TargetsMatch(text, {FlattenSeq(stem)})
    /\ \E i \in DOMAIN Tokens(text) : Tokens(text)[i] = stem[1]

\* rule_for_stem: whether the rule suggested for a stem of names denies a text.
\* The program is the target, with those it stands for; a stem of two words must be two words there,
\* with any blanks between them.
SuggestedFires(stem, text) ==
    LET tokens == Tokens(text)
    IN /\ TargetsMatch(text, SuggestedTargets(stem))
       /\ IF Len(stem) = 1 THEN Matches([kind |-> "anywhere", words |-> stem[1]], text)
          ELSE \E i \in 1..(Len(tokens) - 1) :
                  /\ tokens[i] = stem[1]
                  /\ IsPrefix(stem[2], tokens[i + 1])

-----------------------------------------------------------------------------
(* Properties *)

SumCounts(frequencies) ==
    FoldSet(LAMBDA s, sum : sum + frequencies[s].count, 0, DOMAIN frequencies)

\* parse_session_content: every Bash call of a transcript is one record, those
\* without an id too; only a call written twice under one id is one.
NoCallIsLost(lines) ==
    LET calls == FlattenSeq([k \in DOMAIN lines |-> lines[k].calls])
        bash == SelectSeq(calls, LAMBDA call : call.tool = "Bash")
        nameless == SelectSeq(bash, LAMBDA call : call.id = 0)
        ids == {bash[k].id : k \in DOMAIN bash} \ {0}
    IN Cardinality(DOMAIN ParseSession(lines, 0)) = Cardinality(ids) + Len(nameless)

CountOf(frequencies, s) == IF s \in DOMAIN frequencies THEN frequencies[s].count ELSE 0

\* discover: the two buckets add up to the commands that have a stem, and of
\* each stem as many are intercepted as the hook denies while no task lifts a
\* rule ("use the same logic as the pre-tool hook"), but for chains: the hook
\* asks about each part and discover about the whole, so that a chain denied
\* for a part of it may be counted as unhandled.  The list of a report leaves
\* out nothing more frequent than what it shows.
ReportAddsUp(records, stem, rules, report) ==
    LET stemless == {k \in DOMAIN stem : stem[k] = <<>>}
        Denied(s) == {k \in DOMAIN stem : /\ stem[k] = s
                                          /\ CheckPipeline(records[k].command, rules) # None}
        chains == {k \in DOMAIN stem :
                      SequentialSegments(records[k].command) # <<records[k].command>>}
    IN /\ SumCounts(report.intercepted) + SumCounts(report.unhandled)
              + Cardinality(stemless) = report.scanned
       /\ \A s \in Range(stem) \ {<<>>} :
             CountOf(report.intercepted, s)
                 \in Cardinality(Denied(s) \ chains)..Cardinality(Denied(s))
       /\ \A shown \in Listed(report.unhandled, 0, 1) :
             \A s \in DOMAIN report.unhandled :
                 report.unhandled[s].count <= report.unhandled[shown[1]].count

ReportsAddUp(records, rules, cutoff) ==
    LET recent == {k \in DOMAIN records : records[k].time = 0 \/ records[k].time >= cutoff}
    IN ReportAddsUp(records, [k \in recent |-> StemOf(records[k].command)], rules,
                    Discover(records, rules, cutoff, 0))

IsName(token) ==
    token # <<>> /\ ToSet(token) \cap (Special \cup {Equals, Dash, PathSeparator}) = {}

\* suggest: a command that starts with its program, bare, is denied by the rule
\* suggested for its stem, so that the rule, once enabled, does what it was
\* suggested for.  (Not so with an escape outside quotes: pipe_stages takes
\* `\|` for a pipe, and the stage before it, which ends in an escape, has no
\* command name.)
SuggestionsCatch(text) ==
    LET stem == StemOf(text)
        suggested == [candidate \in Candidates(text) |->
                         IF SuggestedFires(stem, candidate) THEN 1 ELSE None]
    IN (/\ Escape \notin ToSet(text)
        /\ stem # <<>> /\ \A k \in DOMAIN stem : IsName(stem[k])
        /\ Words(text) # <<>> /\ Words(text)[1] = stem[1])
           => CheckPipelineWith(text, suggested) # None

\* suggest: of any two rules the one that would have saved more comes first, and
\* each listed command has its rule.
SuggestsWorthiest(frequencies, limit) ==
    \A list \in Listed(frequencies, 1, limit) :
        LET suggested == Suggest(frequencies, list)
            Worth(k) == frequencies[suggested[k]].count * Max({1, frequencies[suggested[k]].tokens})
        IN /\ ToSet(suggested) = ToSet(list) /\ Len(suggested) = Len(list)
           /\ \A j, k \in DOMAIN suggested : Worth(j) > Worth(k) => j < k

=============================================================================
