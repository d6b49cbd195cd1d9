------------------------------ MODULE HookConfig ------------------------------
(***************************************************************************)
(* Where the rules of a hook come from: the layers of hook files           *)
(* (core/src/hook/pipeline.rs), of which a repository brings one with it,  *)
(* and the layers of filter files (core/src/hook/filters.rs, rewrite.rs,   *)
(* config.rs).  A file is [state, rules, swap]: absent, unreadable,        *)
(* malformed or valid; swap says whether it has a [tool_swap] table.       *)
(***************************************************************************)
EXTENDS Selections, SequencesExt, FiniteSetsExt

NoFileThere == [state |-> "absent", rules |-> <<>>, swap |-> FALSE]

\* load_from: the rules of a valid file; any other has none.
LoadFrom(file) == IF file.state = "valid" THEN file.rules ELSE <<>>

There(files) == {k \in DOMAIN files : files[k].state # "absent"}

\* Walking up from the working directory: the nearest that is there, whatever
\* is in it.
FindUp(dirs) == IF There(dirs) = {} THEN NoFileThere ELSE dirs[Min(There(dirs))]

-----------------------------------------------------------------------------
(* Hook rules: [action, command, pattern, unless, label]                   *)

Allowlisted == {"git", "sh"}        \* names of PROJECT_RUN_ALLOWLIST
Qualified == {"./git"}              \* with a path separator
CodeFlags == {"-c", "eval"}         \* INTERPRETER_CODE_FLAGS

\* Mutation of IsAllowlistedProjectRun: only the first argument is looked at
\* for inline code.
IsAllowlistedByFirst(command) ==
    /\ command # <<>>
    /\ command[1] \notin Qualified
    /\ command[1] \in Allowlisted
    /\ Len(command) > 1 => command[2] \notin CodeFlags

IsAllowlistedProjectRun(command) ==
    /\ command # <<>>
    /\ command[1] \notin Qualified
    /\ command[1] \in Allowlisted
    /\ \A k \in 2..Len(command) : command[k] \notin CodeFlags

RestrictToProjectScope(rules) ==
    Kept(rules, {k \in DOMAIN rules :
                     rules[k].action = "run" => IsAllowlistedProjectRun(rules[k].command)})

\* The plugin files with the extension, in the order of their names.
PluginFiles(plugins) == Kept(plugins, {name \in DOMAIN plugins : plugins[name].toml})

\* load_config: the user's own file, the plugins, the nearest project file.
LoadConfig(global, plugins, dirs) ==
    LoadFrom(global)
        \o Joined([k \in DOMAIN PluginFiles(plugins) |-> LoadFrom(PluginFiles(plugins)[k].file)])
        \o RestrictToProjectScope(LoadFrom(FindUp(dirs)))

\* Mutation of Applies: an exception that does not compile excepts everything.
AppliesWhole(rule, hit, excepted) ==
    /\ rule.pattern # "broken" /\ (rule.pattern = "valid" => hit)
    /\ rule.unless = "none" \/ (rule.unless = "valid" /\ ~excepted)

\* Whether run_pipeline applies a rule for the right event and tool, given what
\* its pattern and its exception say of the target.
Applies(rule, hit, excepted) ==
    /\ rule.pattern # "broken" /\ (rule.pattern = "valid" => hit)
    /\ ~(rule.unless = "valid" /\ excepted)

\* validate_config and lint_config: <<index, level, what>> of each complaint.
ValidateConfig(rules) ==
    {<<k, "error", "pattern">> : k \in {j \in DOMAIN rules : rules[j].pattern = "broken"}}
        \cup {<<k, "error", "unless">> : k \in {j \in DOMAIN rules : rules[j].unless = "broken"}}
        \cup {<<k, "error", "command">> : k \in
                 {j \in DOMAIN rules : /\ rules[j].action = "run"
                                       /\ \A i \in DOMAIN rules[j].command :
                                             rules[j].command[i] = ""}}
LintConfig(rules) ==
    {<<k, "warning", "deny">> : k \in {j \in DOMAIN rules : /\ rules[j].action = "deny"
                                                            /\ rules[j].pattern = "none"}}
        \cup {<<k, "error", "template">> : k \in
                 {j \in DOMAIN rules : rules[j].action = "notify" /\ rules[j].template = ""}}
        \cup {<<k, "warning", "label">> : k \in {j \in DOMAIN rules : rules[j].label = "plain"}}

\* `crs validate-hooks` fails on an error.
ValidateHooksExit(rules) ==
    IF \E d \in ValidateConfig(rules) \cup LintConfig(rules) : d[2] = "error" THEN 1 ELSE 0

\* Mutation of ConfigSources: the project's file is looked for at hand only.
SourcesAtHand(global, dirs) ==
    LET files == <<global, IF dirs = <<>> THEN NoFileThere ELSE dirs[1]>>
    IN Kept(files, There(files))

\* config_source_paths: the user's file and the project's; no plugins.
ConfigSources(global, dirs) ==
    LET files == <<global, FindUp(dirs)>> IN Kept(files, There(files))

\* cmd_validate_hooks: how many rules each source has, and how many there are.
CmdValidateHooks(global, plugins, dirs) ==
    LET sources == ConfigSources(global, dirs)
        rules == LoadConfig(global, plugins, dirs)
    IN [sources |-> [k \in DOMAIN sources |-> Len(LoadFrom(sources[k]))],
        total |-> Len(rules),
        exit |-> ValidateHooksExit(rules)]

-----------------------------------------------------------------------------
(* Filter files.  The override of CRS_FILTERS is <<>> or one file          *)

DefaultFilters == [rules |-> <<>>, swap |-> FALSE]

\* What TOML makes of texts put behind each other: a table that two of them
\* have is an error.
Parses(files) ==
    /\ \A k \in DOMAIN files : files[k].state = "valid"
    /\ Cardinality({k \in DOMAIN files : files[k].swap}) <= 1
Parsed(files) ==
    [rules |-> Joined([k \in DOMAIN files |-> files[k].rules]),
     swap |-> \E k \in DOMAIN files : files[k].swap]

Readable(files) == {k \in DOMAIN files : files[k].state \in {"valid", "malformed"}}

\* merged_content: the project's text before the user's.
MergedContent(override, dirs, global) ==
    LET files == IF override # <<>> THEN override ELSE <<FindUp(dirs), global>>
    IN Kept(files, Readable(files))

\* Mutation of LoadFilters: the project's file replaces the user's.
LoadNearest(override, dirs, global) ==
    LET texts == MergedContent(override, dirs, global)
    IN IF texts # <<>> /\ Parses(<<texts[1]>>) THEN Parsed(<<texts[1]>>) ELSE DefaultFilters

\* filters::load, for `crs filter`, `crs hook` and the OpenCode bridge.
LoadFilters(override, dirs, global) ==
    LET texts == MergedContent(override, dirs, global)
    IN IF texts # <<>> /\ Parses(texts) THEN Parsed(texts) ELSE DefaultFilters

\* load_rewrite_config: the rewrites of `crs rewrite`, in the same text.
LoadRewriteConfig(override, dirs, global) == LoadFilters(override, dirs, global)

\* filters_path: the file the chain's loader reads alone.
FiltersPath(override, dirs, global) ==
    LET files == <<FindUp(dirs), global>>
    IN IF override # <<>> THEN override ELSE Kept(files, There(files))

\* FsFiltersLoader and ProfileFsFiltersLoader: the first file or an error, <<>>.
ProfileFilters(override, dirs, global) ==
    LET path == FiltersPath(override, dirs, global)
    IN IF path = <<>> THEN <<DefaultFilters>>
       ELSE IF Parses(<<path[1]>>) THEN <<Parsed(<<path[1]>>)>> ELSE <<>>

\* ProfileFsRewriteLoader: both files, as FsRewriteLoader has them, but an
\* override that cannot be read is an error.
ProfileRewrites(override, dirs, global) ==
    LET texts == MergedContent(override, dirs, global)
    IN IF texts = <<>> THEN IF override = <<>> THEN <<DefaultFilters>> ELSE <<>>
       ELSE IF Parses(texts) THEN <<Parsed(texts)>> ELSE <<>>

-----------------------------------------------------------------------------
(* Properties *)

FirstDeny(rules) ==
    LET denies == {k \in DOMAIN rules : rules[k].action = "deny"}
    IN IF denies = {} THEN <<>> ELSE <<rules[Min(denies)]>>

\* load_config and restrict_to_project_scope: whatever a repository's file
\* holds, the user's rules come first, all of them and unchanged, so that the
\* first of their denials stands; of the repository's rules all are kept but
\* those that run a program outside the list or hand it inline code.
ProjectFileOnlyAdds(global, plugins, dirs) ==
    LET own == LoadConfig(global, plugins, <<>>)
        all == LoadConfig(global, plugins, dirs)
        theirs == SubSeq(all, Len(own) + 1, Len(all))
        project == LoadFrom(FindUp(dirs))
        Harmless(rule) ==
            \/ rule.action # "run"
            \/ /\ rule.command # <<>> /\ rule.command[1] \in Allowlisted
               /\ ToSet(rule.command) \cap CodeFlags = {}
    IN /\ IsPrefix(own, all)
       /\ FirstDeny(own) # <<>> => FirstDeny(all) = FirstDeny(own)
       /\ theirs = Kept(project, {k \in DOMAIN project : Harmless(project[k])})

\* validate_config and run_pipeline: the rules reported for their pattern are
\* those that never apply; one whose exception does not compile applies all the
\* same ("deny-guards must not fail open on a bad exception"); and a command
\* reported as empty is the user's own.  When `crs validate-hooks` succeeds,
\* every rule may apply.  The rules of the sources it lists, with those of the
\* plugins, are the rules that are left and those a repository may not have.
ReportsWhatCannotWork(global, plugins, dirs) ==
    LET own == LoadConfig(global, plugins, <<>>)
        all == LoadConfig(global, plugins, dirs)
        reported == ValidateConfig(all)
        report == CmdValidateHooks(global, plugins, dirs)
        project == LoadFrom(FindUp(dirs))
    IN /\ \A k \in DOMAIN all :
             /\ <<k, "error", "pattern">> \in reported
                    <=> ~\E hit, excepted \in BOOLEAN : Applies(all[k], hit, excepted)
             /\ all[k].unless = "broken" /\ all[k].pattern # "broken"
                    => \A excepted \in BOOLEAN : Applies(all[k], TRUE, excepted)
       /\ \A d \in reported : d[3] = "command" => d[1] <= Len(own)
       /\ report.exit = 0
              => \A k \in DOMAIN all : \E hit, excepted \in BOOLEAN : Applies(all[k], hit, excepted)
       /\ Summed(report.sources) + (Len(own) - Len(LoadFrom(global)))
              = report.total + Len(project) - Len(RestrictToProjectScope(project))

\* filters::load "project-local rules supplement (and take precedence over)
\* global rules, rather than replacing them", unless both files have a
\* [tool_swap] table: then neither counts.
ProjectFiltersSupplement(dirs, global) ==
    LET project == FindUp(dirs)
        loaded == LoadFilters(<<>>, dirs, global)
    IN project.state \in {"valid", "absent"} /\ global.state \in {"valid", "absent"} =>
          IF project.swap /\ global.swap THEN loaded = DefaultFilters
          ELSE /\ loaded.rules = LoadFrom(project) \o LoadFrom(global)
               /\ loaded.swap = (project.swap \/ global.swap)

\* ProfileFsFiltersLoader "mirrors" FsFiltersLoader and ProfileFsRewriteLoader
\* FsRewriteLoader: where both succeed, the chain has the rules of `crs rewrite`
\* in its rewrites, and of those of `crs filter` the nearer file's in its filters.
ChainReadsTheSameFiles(override, dirs, global) ==
    LET filters == ProfileFilters(override, dirs, global)
        rewrites == ProfileRewrites(override, dirs, global)
        loaded == LoadFilters(override, dirs, global)
    IN /\ rewrites # <<>> => rewrites[1] = LoadRewriteConfig(override, dirs, global)
       /\ filters # <<>> /\ rewrites # <<>> => IsPrefix(filters[1].rules, loaded.rules)

=============================================================================
