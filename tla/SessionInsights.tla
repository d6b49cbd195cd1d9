---------------------------- MODULE SessionInsights ----------------------------
(***************************************************************************)
(* What coursers reports of whole sessions: which transcript belongs to a  *)
(* session and which repository it was in (core/src/analyze/insights.rs),  *)
(* `crs insights`, `crs replay` of the newest session (replay.rs), and the *)
(* places of errors that `crs nu-check` prints (nu_check/mod.rs).          *)
(***************************************************************************)
EXTENDS Selections, SessionReports, CommandRewriting

-----------------------------------------------------------------------------
(* Session files [id, depth, head, modified] below the projects directory. *)
(* A head is the lines [cwd, branch, time] a file starts with, 0 and <<>>  *)
(* when a line has none or does not parse; a cwd is <<parent, name>>.      *)

HeadLines == 50         \* MAX_LINES
NoContext == [cwd |-> <<>>, branch |-> 0, time |-> 0]

\* Mutation of ReadGitContext: the first line that says anything is taken.
FirstContext(head) ==
    LET saying == {i \in 1..Min({HeadLines, Len(head)}) : head[i] # NoContext}
    IN IF saying = {} THEN NoContext ELSE head[Min(saying)]

\* read_git_context: the first line with a directory, or else the first with a
\* branch or a time.
ReadGitContext(head) ==
    LET read == 1..Min({HeadLines, Len(head)})
        placed == {i \in read : head[i].cwd # <<>>}
        saying == {i \in read : head[i] # NoContext}
    IN IF placed # {} THEN head[Min(placed)]
       ELSE IF saying # {} THEN head[Min(saying)] ELSE NoContext

\* repo_name_from_cwd
NoRepo == ""
Repo(context) == IF context.cwd = <<>> THEN NoRepo ELSE Last(context.cwd)

\* build_jsonl_index: a file of each session that has one in a project; when
\* it has several, the directory order decides.
JsonlIndices(files) ==
    LET kept == {f \in files : f.depth = 2}
        ids == {f.id : f \in kept}
    IN {index \in [ids -> kept] : \A id \in ids : index[id].id = id}

\* load_facets: the regular .json files that parse.
LoadFacets(entries) ==
    LET good == SelectSeq(entries, LAMBDA e : e.json /\ e.regular /\ e.parses)
    IN [k \in DOMAIN good |-> good[k].facet]

\* enrich: a facet and its context, or no context.
Enrich(facets, index) ==
    [k \in DOMAIN facets |->
        [facet |-> facets[k],
         git |-> IF facets[k].session \in DOMAIN index
                 THEN ReadGitContext(index[facets[k].session].head) ELSE NoContext]]

HasGit(e) == e.git # NoContext

-----------------------------------------------------------------------------
(* The report *)

Counts(values) == [v \in ToSet(values) |-> Cardinality({k \in DOMAIN values : values[k] = v})]
SumOf(counts) == FoldFunction(+, 0, counts)

\* sorted_top: the most frequent first, ties in any order.
SortedTop(counts, limit) == Listed([v \in DOMAIN counts |-> [count |-> counts[v]]], 1, limit)

\* aggregate: top is one of the lists that top_repos may be.
Aggregate(enriched, limit) ==
    LET placed == SelectSeq(enriched, HasGit)
        ended == SelectSeq(enriched, LAMBDA e : e.facet.outcome # "none")
        repos == Counts([k \in DOMAIN placed |-> Repo(placed[k].git)])
        onBranch == SelectSeq(placed, LAMBDA e : e.git.branch # 0)
    IN [total |-> Len(enriched), gitEnriched |-> Len(placed),
        outcomes |-> Counts([k \in DOMAIN ended |-> ended[k].facet.outcome]),
        friction |-> FoldFunction(+, 0, [k \in DOMAIN enriched |-> enriched[k].facet.friction]),
        repos |-> repos, topRepos |-> SortedTop(repos, limit),
        branches |-> Counts([k \in DOMAIN onBranch |-> onBranch[k].git.branch])]

\* Mutation of Chosen: sessions without a time are old.
ChosenIfDated(enriched, repo, cutoff) ==
    SelectSeq(enriched, LAMBDA e : /\ repo # NoRepo => Repo(e.git) = repo
                                   /\ e.git.time >= cutoff)

\* The filters of cmd_insights.  A session without a time is kept.
Chosen(enriched, repo, cutoff) ==
    SelectSeq(enriched, LAMBDA e : /\ repo # NoRepo => HasGit(e) /\ Repo(e.git) = repo
                                   /\ e.git.time = 0 \/ e.git.time >= cutoff)

\* Mutation of NewestFirst: what has no time is the newest.
UndatedFirst(enriched) ==
    SortSeq(enriched, LAMBDA a, b : (a.git.time = 0 /\ b.git.time # 0) \/ a.git.time > b.git.time)

\* sort_enriched_newest_first; what has no time (0) comes last.
NewestFirst(enriched) == SortSeq(enriched, LAMBDA a, b : a.git.time > b.git.time)

\* cmd_insights: the rows of its table, of which the report is made.
InsightRows(facets, index, repo, cutoff) ==
    NewestFirst(Chosen(Enrich(facets, index), repo, cutoff))

-----------------------------------------------------------------------------
(* Replay *)

\* Mutation of MostRecent: a file whose directory is not on its first line is
\* taken for one of the project.
RecentUnlessElsewhere(files, cwd) ==
    LET mine == {f \in files : /\ f.depth <= 3
                               /\ f.head # <<>> /\ f.head[1].cwd \in {<<>>, cwd}}
    IN {f \in mine : \A g \in mine : g.modified <= f.modified}

\* find_most_recent_session: those it may find, by directory order.  The
\* project's sessions are told by their first line.
MostRecent(files, cwd) ==
    LET mine == {f \in files : f.depth <= 3 /\ f.head # <<>> /\ f.head[1].cwd = cwd}
    IN {f \in mine : \A g \in mine : g.modified <= f.modified}

\* cmd_replay: the first Bash call of each line of the assistant.
Replayed(lines) ==
    LET bash(line) == IF line.type = "assistant"
                      THEN SelectSeq(line.calls, LAMBDA call : call.tool = "Bash") ELSE <<>>
        with == SelectSeq(lines, LAMBDA line : bash(line) # <<>>)
    IN [k \in DOMAIN with |-> bash(with[k])[1].command]

Tally(verdicts) ==
    [entries |-> verdicts,
     blocked |-> Cardinality({k \in DOMAIN verdicts : verdicts[k] # None}),
     passed |-> Cardinality({k \in DOMAIN verdicts : verdicts[k] = None})]

\* Mutation of Replay: it asks as the hook does, segment by segment.
ReplayAsHook(commands, rules) ==
    Tally([k \in DOMAIN commands |-> CheckPipeline(commands[k], rules)])

\* replay: the rule of each command, None when it passes.
Replay(commands, rules) ==
    Tally([k \in DOMAIN commands |-> MatchedRuleId(commands[k], rules)])

-----------------------------------------------------------------------------
(* Places in a script.  A character is one byte, or the three of Wide.     *)

NewLine == "newline"
Width(c) == IF c = Wide THEN 3 ELSE 1
ByteCount(source) == Summed([i \in DOMAIN source |-> Width(source[i])])

\* Mutation of LineCol: the lines of the text before, as str::lines has them.
LineColByLines(source, offset) ==
    LET k == Max({j \in 0..Len(source) : ByteCount(SubSeq(source, 1, j)) <= offset})
        before == SubSeq(source, 1, k)
        ends == {i \in DOMAIN before : before[i] = NewLine}
        from == Max({0} \cup ends)
    IN [line |-> Cardinality(ends \ {k}) + 1, col |-> ByteCount(SubSeq(before, from + 1, k)) + 1]

\* byte_offset_to_line_col: an offset within a character is moved to its
\* start, one behind the end to the end.
LineCol(source, offset) ==
    LET k == Max({j \in 0..Len(source) : ByteCount(SubSeq(source, 1, j)) <= offset})
        before == SubSeq(source, 1, k)
        ends == {i \in DOMAIN before : before[i] = NewLine}
        from == Max({0} \cup ends)
    IN [line |-> Cardinality(ends) + 1, col |-> ByteCount(SubSeq(before, from + 1, k)) + 1]

\* Mutation of CheckFiles: a script that could not be checked is fine.
CheckReadable(scripts) ==
    LET Errors(s) == IF ~s.checked THEN <<>>
                     ELSE Kept(s.diagnostics, {k \in DOMAIN s.diagnostics : s.diagnostics[k] = "error"})
    IN Joined([k \in DOMAIN scripts |-> Errors(scripts[k])])

\* check_files and parse_diagnostics: scripts [checked, diagnostics]; what
\* cannot be read or checked is an error, warnings and other lines are none.
CheckFiles(scripts) ==
    LET Errors(s) == IF ~s.checked THEN <<"io error">>
                     ELSE Kept(s.diagnostics, {k \in DOMAIN s.diagnostics : s.diagnostics[k] = "error"})
    IN Joined([k \in DOMAIN scripts |-> Errors(scripts[k])])

\* cmd_nu_check: without scripts it fails unless a directory was asked for.
NuCheckExit(scripts, listed) ==
    IF scripts = <<>> THEN (IF listed THEN 0 ELSE 1)
    ELSE IF CheckFiles(scripts) = <<>> THEN 0 ELSE 1

-----------------------------------------------------------------------------
(* Properties *)

\* aggregate and cmd_insights: the repositories of a report add up to the
\* sessions that have one, asking for one of them reports as many sessions as
\* the whole report counts for it, the first of its list is the most frequent,
\* and no session without a time is lost to --since or shown above one that
\* has one.
InsightsAddUp(files, facets, limit) ==
    \A index \in JsonlIndices(files), cutoff \in 0..3 :
        LET rows(repo) == InsightRows(facets, index, repo, cutoff)
            all == Aggregate(rows(NoRepo), limit)
        IN /\ SumOf(all.repos) = all.gitEnriched
           /\ SumOf(all.branches) <= all.gitEnriched /\ SumOf(all.outcomes) <= all.total
           /\ \A repo \in DOMAIN all.repos \ {NoRepo} :
                 Aggregate(rows(repo), limit).total = all.repos[repo]
           /\ \A top \in all.topRepos :
                 /\ top # <<>> <=> all.gitEnriched > 0
                 /\ top # <<>> => \A repo \in DOMAIN all.repos : all.repos[repo] <= all.repos[top[1]]
           /\ LET undated == {k \in DOMAIN facets : Enrich(facets, index)[k].git.time = 0}
                  shown == rows(NoRepo)
              IN \A k \in DOMAIN shown :
                    (shown[k].git.time = 0) <=> (k > Len(shown) - Cardinality(undated))

\* read_git_context ("prefer the earliest record that has a cwd") and
\* find_most_recent_session: the session that is replayed for a directory is,
\* in `crs insights`, one of that directory, and a session whose head names a
\* directory has a repository.
SessionsHavePlaces(files, cwd) ==
    /\ \A f \in MostRecent(files, cwd) : ReadGitContext(f.head).cwd = cwd
    /\ \A f \in files :
          (\E i \in 1..Min({HeadLines, Len(f.head)}) : f.head[i].cwd # <<>>)
              => Repo(ReadGitContext(f.head)) # NoRepo

\* cmd_replay and discover ask the same rules: where every line has one Bash
\* call and no id is written twice, a replay blocks what the report counts as
\* intercepted, and the commands that have no stem; it never blocks more.
ReplayMatchesReport(lines, records, rules) ==
    LET replay == Replay(Replayed(lines), rules)
        stemless == {k \in DOMAIN records : /\ StemOf(records[k].command) = <<>>
                                            /\ MatchedRuleId(records[k].command, rules) # None}
        counted == SumCounts(Discover(records, rules, 0, 0).intercepted) + Cardinality(stemless)
        calls == FlattenSeq([k \in DOMAIN lines |-> lines[k].calls])
        bash == SelectSeq(calls, LAMBDA call : call.tool = "Bash")
        once == Cardinality(DOMAIN records) = Len(bash)
    IN once => /\ replay.blocked <= counted
               /\ Len(replay.entries) = Len(bash) => replay.blocked = counted

\* cmd_suggest: once the rule suggested for a stem is adopted, the report that
\* suggested it no longer counts the commands that start with their program.
SuggestionsSettle(records, rules) ==
    \A suggestions \in Suggestions(records, rules, 0, 2) :
        \A stem \in ToSet(suggestions), k \in DOMAIN records :
            LET text == records[k].command
            IN (/\ StemOf(text) = stem /\ \A i \in DOMAIN stem : IsName(stem[i])
                /\ Escape \notin ToSet(text)
                /\ PipeStages(text) # <<>> /\ CommandName(text) = stem[1])
                   => SuggestedFires(stem, text)

\* byte_offset_to_line_col (nu_check/mod.rs): the place lies on a line of the
\* script, it is where the character at the offset starts, and a later offset
\* is never at an earlier place; a check that failed or found an error never
\* exits with 0.
PlacesAreRight(source) ==
    LET ends == {i \in DOMAIN source : source[i] = NewLine}
        At2(offset) == LineCol(source, offset)
        \* the bytes before line n
        Start(n) == ByteCount(SubSeq(source, 1, IF n = 1 THEN 0
                              ELSE CHOOSE i \in ends : Cardinality({j \in ends : j <= i}) = n - 1))
    IN \A offset \in 0..(ByteCount(source) + 1) :
          LET p == At2(offset)
              byte == Start(p.line) + p.col - 1
          IN /\ p.line \in 1..(Cardinality(ends) + 1)
             /\ byte <= offset
             /\ offset <= ByteCount(source) => offset - byte < 3
             /\ \E k \in 0..Len(source) : byte = ByteCount(SubSeq(source, 1, k))
             /\ p.line <= Cardinality(ends) => byte < Start(p.line + 1)

ScriptsAreChecked(scripts) ==
    NuCheckExit(scripts, TRUE) = 0 =>
        \A k \in DOMAIN scripts : scripts[k].checked /\ "error" \notin ToSet(scripts[k].diagnostics)

=============================================================================
