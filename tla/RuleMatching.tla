----------------------------- MODULE RuleMatching -----------------------------
(***************************************************************************)
(* Which course-correct rule denies a command (core/src/rules.rs), with    *)
(* the segments and stages of CommandScan, and who else asks the rules:    *)
(* the span of the denial (pre.rs), `crs discover` (history.rs), `crs      *)
(* replay` (replay.rs) and `crs probe` (crs_commands.rs).  A regular       *)
(* expression is the words it looks for, anywhere or at the start, or one  *)
(* that does not compile.                                                  *)
(***************************************************************************)
EXTENDS CommandScan

\* Where a pattern is found first: the empty interval when it is not.
Nowhere == [from |-> 1, to |-> 0]
Find(pattern, text) ==
    LET n == Len(pattern.words)
        starts == {i \in 1..(Len(text) + 1 - n) :
                     /\ SubSeq(text, i, i + n - 1) = pattern.words
                     /\ pattern.kind = "start" => i = 1}
    IN IF pattern.kind = "broken" \/ starts = {} THEN Nowhere
       ELSE [from |-> Min(starts), to |-> Min(starts) + n - 1]

Matches(pattern, text) == Find(pattern, text) # Nowhere

\* A rule without targets looks at the whole text.
TargetsMatch(text, targets) ==
    \/ targets = {}
    \/ ToSet(PipeStageCommands(text)) \cap targets # {}

Fires(rule, text) ==
    /\ rule.enabled
    /\ TargetsMatch(text, rule.targets)
    /\ Matches(rule.pattern, text)
    /\ \A exception \in rule.exceptions : ~Matches(exception, text)

None == 0

FirstOf(indices) == IF indices = {} THEN None ELSE Min(indices)

\* The index of the first rule that fires.
FindMatchingRule(text, rules) == FirstOf({r \in DOMAIN rules : Fires(rules[r], text)})

\* The stage named in the message: the first whose command is a target.
FirstToRun(stages, targets) ==
    LET k == FirstOf({n \in DOMAIN stages : CommandName(stages[n]) \in targets \ {<<>>}})
    IN IF k = None THEN <<>> ELSE stages[k]
TriggeringStage(text, targets) == FirstToRun(PipeStages(text), targets)

\* check_with_span: the rule, the stage to blame and where the pattern matches.
SpanOf(text, rules, r) ==
    IF r = None THEN [rule |-> None, stage |-> <<>>, span |-> Nowhere]
    ELSE [rule |-> r, stage |-> TriggeringStage(text, rules[r].targets),
          span |-> Find(rules[r].pattern, text)]
CheckWithSpan(text, rules) == SpanOf(text, rules, FindMatchingRule(text, rules))

\* What a check is asked about: the command and the segments it falls into.
Candidates(text) == {text} \cup Range(SequentialSegments(text))

\* The first segment a check says something of, or else the whole command.
CheckSegments(text, segments, check) ==
    LET k == FirstOf({n \in DOMAIN segments : check[segments[n]] # None})
    IN IF k = None THEN check[text] ELSE check[segments[k]]
CheckPipelineWith(text, check) == CheckSegments(text, SequentialSegments(text), check)

\* check_pipeline and matched_rule_id_pipeline.
CheckPipeline(text, rules) ==
    CheckPipelineWith(text, [candidate \in Candidates(text) |-> FindMatchingRule(candidate, rules)])

\* task_override: a name, or one with a wildcard behind it, which is looked
\* for anywhere in the title.
GlobMatch(glob, title) ==
    IF glob.wildcard THEN \E i \in DOMAIN title : title[i] = glob.name
    ELSE title = <<glob.name>>

\* running_task_titles: of the file godmode writes, when it can be read.
RunningTaskTitles(cache) == IF cache.state = "valid" THEN cache.running ELSE {}

TaskOverrides(rule, titles) == \E glob \in rule.override : \E t \in titles : GlobMatch(glob, t)

\* Mutation of CheckWithOverrides: a rule that is overridden ends the search.
CheckUntilOverride(text, rules, titles) ==
    LET Check(candidate) ==
            LET r == FindMatchingRule(candidate, rules)
            IN IF r # None /\ TaskOverrides(rules[r], titles) THEN None ELSE r
    IN CheckPipelineWith(text, [candidate \in Candidates(text) |-> Check(candidate)])

\* check_pipeline_with_task_overrides: rule by rule, without the overridden.
CheckWithOverrides(text, rules, titles) ==
    LET Check(candidate) == FirstOf({r \in DOMAIN rules : /\ ~TaskOverrides(rules[r], titles)
                                                          /\ Fires(rules[r], candidate)})
    IN CheckPipelineWith(text, [candidate \in Candidates(text) |-> Check(candidate)])

Shifted(span, offset) == [from |-> span.from + offset, to |-> span.to + offset]

\* Mutation of SpanFrom: the offset of the segment is forgotten.
SpanInSegment(text, rule, pieces) ==
    LET k == FirstOf({n \in DOMAIN pieces : Fires(rule, At(text, pieces[n]))})
    IN CheckWithSpan(IF k = None THEN text ELSE At(text, pieces[k]), <<rule>>).span

\* matched_span (pre.rs): the match in the first segment the rule denies, at
\* its place in the whole command.
SpanFrom(text, rule, pieces) ==
    LET k == FirstOf({n \in DOMAIN pieces : Fires(rule, At(text, pieces[n]))})
        whole == IF k = None THEN [from |-> 1, to |-> Len(text)] ELSE pieces[k]
    IN Shifted(CheckWithSpan(At(text, whole), <<rule>>).span, whole.from - 1)
MatchedSpan(text, rule) == SpanFrom(text, rule, Pieces(text, SequentialOperators(text)))

-----------------------------------------------------------------------------
(* Those who ask the rules without being the hook *)

\* Mutation of MatchedRuleId: rules for certain programs are left out.
MatchedUntargeted(text, rules) ==
    FindMatchingRule(text, SelectSeq(rules, LAMBDA rule : rule.targets = {}))

\* replay and discover ask about the whole command only.
MatchedRuleId(text, rules) == FindMatchingRule(text, rules)

\* What `crs probe` prints for a rule: it looks at the pattern without the
\* targets, and at the whole command.
ProbeVerdict(text, rule, titles) ==
    IF ~rule.enabled \/ ~Matches(rule.pattern, text) THEN "pass"
    ELSE IF \E exception \in rule.exceptions : Matches(exception, text) THEN "exception"
    ELSE IF TaskOverrides(rule, titles) THEN "task override" ELSE "block"

\* Mutation of ProbedCommand: the call's own command is looked at first.
CallsCommandFirst(input) ==
    IF input.tool # <<>> THEN input.tool ELSE IF input.top # <<>> THEN input.top ELSE input.raw

\* What is probed: the input as it is, or when that is JSON, the command in it
\* or in its tool_input; <<>> stands for no such field.
ProbedCommand(input) ==
    IF input.top # <<>> THEN input.top ELSE IF input.tool # <<>> THEN input.tool ELSE input.raw

\* cmd_probe: a line for each rule whose pattern matches, or that none does;
\* without a command it fails.  Unreadable rules are no rules.
CmdProbe(input, rules, titles) ==
    LET command == ProbedCommand(input)
        matched == {r \in DOMAIN rules : ProbeVerdict(command, rules[r], titles) # "pass"}
    IN IF command = <<>> THEN [exit |-> 1, lines |-> {}]
       ELSE [exit |-> 0,
             lines |-> IF matched = {} THEN {[rule |-> None, verdict |-> "pass"]}
                       ELSE {[rule |-> r, verdict |-> ProbeVerdict(command, rules[r], titles)] :
                                r \in matched}]

\* Mutation of ValidateIssues: the exceptions are not asked about a trigger.
IssuesOfPattern(rule, known) ==
    {[issue |-> "exception", of |-> e] : e \in {x \in rule.exceptions : x.kind = "broken"}}
        \cup {[issue |-> "no trigger", of |-> t] : t \in {x \in known.triggers : ~Matches(rule.pattern, x)}}
        \cup {[issue |-> "not excepted", of |-> e] :
                 e \in {x \in known.excepts : Matches(rule.pattern, x)
                            /\ \A exception \in rule.exceptions : ~Matches(exception, x)}}
        \cup {[issue |-> "missing", of |-> a] : a \in known.missing}

\* What `crs validate` finds wrong with a rule whose pattern compiles: known is
\* the examples it has for a rule of that name [triggers, excepts], and those of
\* its alternatives that are not on the PATH.
ValidateIssues(rule, known) ==
    LET Excepted(text) == \E exception \in rule.exceptions : Matches(exception, text)
    IN {[issue |-> "exception", of |-> e] : e \in {x \in rule.exceptions : x.kind = "broken"}}
           \cup {[issue |-> "no trigger", of |-> t] :
                    t \in {x \in known.triggers : ~Matches(rule.pattern, x) \/ Excepted(x)}}
           \cup {[issue |-> "not excepted", of |-> e] :
                    e \in {x \in known.excepts : Matches(rule.pattern, x) /\ ~Excepted(x)}}
           \cup {[issue |-> "missing", of |-> a] : a \in known.missing}

\* cmd_validate: fails if any rule does.
CmdValidate(rules, known) ==
    IF \A r \in DOMAIN rules : /\ rules[r].pattern.kind # "broken"
                               /\ ValidateIssues(rules[r], known[r]) = {}
    THEN 0 ELSE 1

-----------------------------------------------------------------------------
(* Properties *)

\* check_pipeline (rules.rs): a segment that a rule denies on its own is denied
\* in every chain: whatever is put before or behind an operator outside quotes
\* takes the denial away from neither side.
ChainingEvadesNoRule(text, rules) ==
    \A op \in SequentialOperators(text) :
        \A side \in {SubSeq(text, 1, op[1] - 1), SubSeq(text, op[1] + op[2], Len(text))} :
            LET segments == SequentialSegments(side)
            IN (\E k \in DOMAIN segments : FindMatchingRule(segments[k], rules) # None)
                  => CheckPipeline(text, rules) # None

\* matched_rule_id (used by discover and replay): what a report counts as
\* blocked, the hook does deny, perhaps by another rule and a part of it.  What
\* `crs probe` says is blocked by a rule without targets is denied too, and it
\* knows each denial of a command that is one segment, unless its input names
\* another command.
ReportsOnlyDenied(text, rules, titles) ==
    LET verdict == CheckWithOverrides(text, rules, titles)
        payload == [raw |-> <<Double>>, top |-> <<>>, tool |-> text]
        probed == CmdProbe(payload, rules, titles)
    IN /\ MatchedRuleId(text, rules) # None => CheckPipeline(text, rules) # None
       /\ \A line \in probed.lines :
             line.verdict = "block" /\ rules[line.rule].targets = {} => verdict # None
       /\ verdict # None /\ SequentialSegments(text) = <<text>>
             => [rule |-> verdict, verdict |-> "block"] \in probed.lines
       /\ \/ text = <<>>
          \/ CmdProbe([payload EXCEPT !.top = text, !.tool = <<Pipe>>], rules, titles) = probed

\* cmd_validate: a rule that passes does in the hook what its examples say, if
\* it is enabled and has no targets: it denies its triggers, and passes its
\* exceptions when they are one segment.
ValidatedRulesWork(trigger, except, rules) ==
    LET known == [triggers |-> {trigger}, excepts |-> {except}, missing |-> {}]
    IN \A r \in DOMAIN rules :
          LET alone == <<rules[r]>>
          IN CmdValidate(alone, <<known>>) = 0 /\ rules[r].enabled /\ rules[r].targets = {} =>
                /\ CheckPipeline(trigger, alone) # None
                /\ SequentialSegments(except) = <<except>> => CheckPipeline(except, alone) = None

\* check_pipeline_with_task_overrides: a task lifts the rules it overrides and
\* no other: what is denied then is what the other rules alone deny.  A file of
\* tasks that is missing or cannot be read lifts none.
OverrideLiftsOnlyItsRules(text, rules, cache) ==
    LET titles == RunningTaskTitles(cache)
        others == SelectSeq(rules, LAMBDA rule : ~TaskOverrides(rule, titles))
        verdict == CheckWithOverrides(text, rules, titles)
        alone == CheckPipeline(text, others)
    IN /\ (verdict = None) <=> (alone = None)
       /\ verdict # None => rules[verdict] = others[alone]
       /\ cache.state # "valid" => verdict = CheckPipeline(text, rules)

\* matched_span (pre.rs) "lines up with whichever match check_pipeline actually
\* used": it marks an occurrence of the denying rule's words, and in the first
\* segment that any rule denies.  The stage that the message names as blocked
\* runs one of the rule's commands.
SpanIsIn(text, rules, rule, piece) ==
    /\ \A span \in {MatchedSpan(text, rule)} :
          /\ At(text, span) = rule.pattern.words
          /\ piece.from <= span.from /\ span.to <= piece.to
    /\ rule.targets # {}
          => CommandName(CheckWithSpan(At(text, piece), rules).stage) \in rule.targets

SpanLinesUp(text, rules) ==
    \A r \in {CheckPipeline(text, rules)} \ {None},
       pieces \in {Pieces(text, SequentialOperators(text))} :
        LET k == FirstOf({n \in DOMAIN pieces : FindMatchingRule(At(text, pieces[n]), rules) # None})
        IN SpanIsIn(text, rules, rules[r],
                    IF k = None THEN [from |-> 1, to |-> Len(text)] ELSE pieces[k])

=============================================================================
