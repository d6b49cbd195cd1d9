----------------------------- MODULE RuleTemplates -----------------------------
(***************************************************************************)
(* What the rules of a hook file make of a command and of the message they *)
(* show (apply_rewrite, expand_env_vars, expand_template, git_branch_slug  *)
(* and matches_tool of core/src/hook/pipeline.rs).  A text is a sequence   *)
(* of characters as in CommandScan, of which a placeholder is one.  What a *)
(* rule may leave out is <<>> or a sequence of one.                        *)
(***************************************************************************)
EXTENDS CommandRewriting

BranchSlug == "${GIT_BRANCH_SLUG}"
TargetField == "${target}"
ToolField == "${tool_name}"
ExitField == "${exit_code}"
EnvVariable == "${USER}"
Placeholders == {BranchSlug, TargetField, ToolField, ExitField, EnvVariable}

\* str::replace and Regex::replace_all: each of them, and not what they become.
Substituted(text, placeholders, Value) ==
    FlattenSeq([i \in DOMAIN text |->
        IF text[i] \in placeholders THEN Value[text[i]] ELSE <<text[i]>>])

-----------------------------------------------------------------------------
(* Rewrites.  The environment [user, branch] has the value of USER and the *)
(* branch, or nothing for it when git fails.                               *)

Underscore == "_"
Hyphen == "-"
Upper == "A"
WorkPrefixes == {"feature", "fix", "chore", "feat"}

\* Mutation of GitBranchSlug: all branches have one.
SlugOfAnyBranch(branch) ==
    [k \in DOMAIN branch |-> IF branch[k] \in {Slash, Underscore} THEN Hyphen
                             ELSE IF branch[k] = Upper THEN "a" ELSE branch[k]]

\* git_branch_slug, empty when there is none: of a branch for work, what is
\* behind its prefix.
GitBranchSlug(branch) ==
    IF Len(branch) < 2 \/ branch[1] \notin WorkPrefixes \/ branch[2] # Slash THEN <<>>
    ELSE [k \in 1..(Len(branch) - 2) |->
             LET c == branch[k + 2]
             IN IF c \in {Slash, Underscore} THEN Hyphen ELSE IF c = Upper THEN "a" ELSE c]

\* expand_env_vars: the slug first, then all that looks like a variable; the
\* fields of a message are variables nobody has set.
ExpandEnvVars(text, env) ==
    LET slugged == Substituted(text, {BranchSlug}, [v \in {BranchSlug} |-> GitBranchSlug(env.branch)])
    IN Substituted(slugged, Placeholders,
                   [v \in Placeholders |-> IF v = EnvVariable THEN env.user ELSE <<>>])

\* Mutation of ApplyRewrite: variables are expanded in what comes of it all.
RewriteThenExpand(command, rule, env) ==
    LET replaced == IF rule.replace = <<>> \/ rule.pattern = <<>> THEN command
                    ELSE Replace(rule.pattern[1], rule.replace[1], command)
        prepended == IF rule.prepend = <<>> THEN replaced
                     ELSE rule.prepend[1] \o <<Blank>> \o replaced
    IN ExpandEnvVars(IF rule.inject = <<>> THEN prepended
                     ELSE prepended \o <<Blank>> \o rule.inject[1], env)

\* apply_rewrite: the first match is replaced, then a text put before it and
\* one behind.
ApplyRewrite(command, rule, env) ==
    LET replaced == IF rule.replace = <<>> \/ rule.pattern = <<>> THEN command
                    ELSE Replace(rule.pattern[1], rule.replace[1], command)
        prepended == IF rule.prepend = <<>> THEN replaced
                     ELSE ExpandEnvVars(rule.prepend[1], env) \o <<Blank>> \o replaced
    IN IF rule.inject = <<>> THEN prepended
       ELSE prepended \o <<Blank>> \o ExpandEnvVars(rule.inject[1], env)

-----------------------------------------------------------------------------
(* Messages and tools.  The context [target, tool, exit] may lack each.    *)

\* Mutation of ExpandTemplate: an exit code that is not known is told as 0.
TemplateWithZero(template, context) ==
    LET Filled(text, field, value) ==
            IF value = <<>> THEN text ELSE Substituted(text, {field}, [f \in {field} |-> value[1]])
        known == [context EXCEPT !.exit = IF @ = <<>> THEN <<<<"0">>>> ELSE @]
    IN Filled(Filled(Filled(template, TargetField, known.target), ToolField, known.tool),
              ExitField, known.exit)

\* expand_template: one field after the other; what is not known stays.
ExpandTemplate(template, context) ==
    LET Filled(text, field, value) ==
            IF value = <<>> THEN text ELSE Substituted(text, {field}, [f \in {field} |-> value[1]])
    IN Filled(Filled(Filled(template, TargetField, context.target), ToolField, context.tool),
              ExitField, context.exit)

\* Mutation of MatchesTool: a name is looked for in the whole matcher.
MatchesToolWithin(matcher, tool) == matcher = <<"*">> \/ IsPrefix(<<tool>>, matcher)

\* matches_tool: the alternatives of a matcher, or `*` alone.
MatchesTool(matcher, tool) == matcher = <<"*">> \/ tool \in ToSet(matcher)

-----------------------------------------------------------------------------
(* Properties *)

\* apply_rewrite: variables are those of the rule.  What a command names stays
\* as it was typed, in one piece but for the match that is replaced, between
\* what is put before it and behind it; a rule's variables are all expanded.
RewriteKeepsVariables(command, rule, env) ==
    LET result == ApplyRewrite(command, rule, env)
        before == IF rule.prepend = <<>> THEN <<>> ELSE ExpandEnvVars(rule.prepend[1], env) \o <<Blank>>
        behind == IF rule.inject = <<>> THEN <<>> ELSE <<Blank>> \o ExpandEnvVars(rule.inject[1], env)
        middle == SubSeq(result, Len(before) + 1, Len(result) - Len(behind))
        found == IF rule.pattern = <<>> THEN Nowhere ELSE Find(rule.pattern[1], command)
    IN /\ ToSet(before \o behind) \cap Placeholders = {}
       /\ result = before \o middle \o behind
       /\ rule.replace = <<>> \/ found = Nowhere => middle = command
       /\ IsPrefix(SubSeq(command, 1, found.from - 1), middle)
       /\ found # Nowhere => IsSuffix(SubSeq(command, found.to + 1, Len(command)), middle)

\* git_branch_slug: a slug is one name in lower case, that of a branch for work,
\* and the name of any other branch goes into no command.
SlugsAreNames(branch) ==
    LET slug == GitBranchSlug(branch)
    IN /\ ToSet(slug) \cap {Slash, Underscore, Upper} = {}
       /\ slug # <<>> => branch[1] \in WorkPrefixes /\ Len(slug) = Len(branch) - 2

\* expand_template: a message tells what is known, and what is not is seen to be
\* missing; a command without a placeholder is told as it is.
MessagesTellTheContext(template, context) ==
    LET told == ExpandTemplate(template, context)
        values == [f \in Placeholders |->
                      CASE f = TargetField /\ context.target # <<>> -> context.target[1]
                        [] f = ToolField /\ context.tool # <<>> -> context.tool[1]
                        [] f = ExitField /\ context.exit # <<>> -> context.exit[1]
                        [] OTHER -> <<f>>]
    IN /\ context.target = <<>> \/ ToSet(context.target[1]) \cap Placeholders = {}
             => told = Substituted(template, Placeholders, values)
       /\ context.tool # <<>> => ToolField \notin ToSet(told)
       /\ ExitField \in ToSet(template) => (ExitField \in ToSet(told) <=> context.exit = <<>>)

\* matches_tool: every alternative counts, in whatever order they are written.
AlternativesCount(matcher, tool) ==
    /\ MatchesTool(matcher, tool) => MatchesTool(Reverse(matcher), tool)
    /\ \A k \in DOMAIN matcher : MatchesTool(matcher, matcher[k])

=============================================================================
