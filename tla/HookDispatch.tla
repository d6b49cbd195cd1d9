----------------------------- MODULE HookDispatch -----------------------------
(***************************************************************************)
(* One Bash tool call on its way through `crs hook`: the pre-tool-use      *)
(* process, the tool, and the post-tool-use process.  For Claude Code it   *)
(* is cmd_hook (coursers/src/crs_commands.rs) with the course-correct      *)
(* rules in front; for OpenCode it is run_hook (coursers/src/opencode.rs)  *)
(* with the hook chain in front, called by the plugin of                   *)
(* integrations/opencode.  Both run the rule pipeline of                   *)
(* core/src/hook/pipeline.rs.                                              *)
(*                                                                         *)
(* Failure learning is the choice of its verdict here (FailureStore has    *)
(* its state), and so is what any program that a hook starts comes to.     *)
(* The hook log, statistics and dataset that denials write are left out.   *)
(***************************************************************************)
EXTENDS Naturals, Sequences, SequencesExt

CONSTANTS
    Commands,       \* shell commands
    Rules,          \* pipeline rules there may be
    MaxHooks,       \* bound on the number of rules configured
    ChainRewrites,  \* what [[rewrites]] of the filters file make of a command
    Blockable,      \* commands a course-correct rule may block
    None,           \* Option::None
    Faults          \* whether hook processes die

Events == {"pre", "post"}
Exits == {"zero", "failure", "none"}

\* A pattern and an unless are the commands they match: no pattern is all of
\* them, and a regex that does not compile none of them.
Rule == [event   : Events,
         pattern : SUBSET Commands,
         unless  : SUBSET Commands,
         when    : {"always", "on-success", "on-failure"},
         action  : {"deny", "rewrite", "run", "notify", "redact"},
         to      : [Commands -> Commands]]

ASSUME DispatchAssumption ==
    /\ Rules \subseteq Rule
    /\ MaxHooks \in Nat
    /\ ChainRewrites \in [Commands -> Commands]
    /\ Blockable \subseteq Commands
    /\ None \notin Commands
    /\ Faults \in BOOLEAN

VARIABLES
    harness,        \* "claude" or "opencode"
    hooks,          \* the merged configuration, rule by rule
    blocked,        \* commands the course-correct rules block
    asked,          \* the command the agent asked for
    command,        \* the command as the harness has it
    phase,          \* how far the call has come
    step,           \* where its hook process is
    next,           \* the rule the pipeline is at
    exit,           \* how the command ended
    chain,          \* the outcome of the hook chain
    result,         \* the PipelineResult
    denied,         \* history: a stage of the pre-hook denied
    redacted,       \* history: what the last redaction of the output came to
    degraded,       \* history: events in which a part of the hook failed open
    told,           \* the messages the harness was given, by rule
    shown           \* the output the harness shows the model

config == <<harness, hooks, blocked, asked>>
call == <<command, phase, exit>>
history == <<denied, redacted, degraded>>
answers == <<told, shown>>

vars == <<config, call, step, next, chain, result, history, answers>>

-----------------------------------------------------------------------------
(* Output text, and what shaping makes of it *)

\* Of an output it only matters whether it went through obfsck and whether
\* anything is left of it.
Text == [redacted : BOOLEAN, blank : BOOLEAN]

Raw == [redacted |-> FALSE, blank |-> FALSE]

ASSUME NoTextAssumption == None \notin Text

Modes == {"passthrough", "failures-only", "errors-only", "truncate", "match-lines"}

\* apply_filter: an unknown exit counts as 0; which outcome it is in a mode
\* that looks at the lines depends on them.
FilterOutcomes(mode, e) ==
    CASE mode = "passthrough"   -> {"passthrough"}
      [] mode = "failures-only" -> IF e = "failure" THEN {"passthrough"} ELSE {"suppress"}
      [] mode = "errors-only"   -> {"passthrough", "replace", "suppress"}
      [] mode = "truncate"      -> {"passthrough", "replace"}
      [] mode = "match-lines"   -> IF e = "failure" THEN {"passthrough"}
                                   ELSE {"passthrough", "replace", "suppress"}

\* Mutation of ShapeOutcomes: an unknown exit may suppress.
ShapeOutcomesUnguarded(e) == UNION {FilterOutcomes(m, e) : m \in Modes}

\* shape_command_output, and FilterHook likewise: whatever rule the filters
\* file has for the command, an unknown exit never suppresses.
ShapeOutcomes(e) ==
    LET outcomes == UNION {FilterOutcomes(m, e) : m \in Modes}
    IN  IF e = "none" THEN outcomes \ {"suppress"} ELSE outcomes

\* Mutation of Reshaped: what was there before is given up.
ReshapedAnew(outcome, kept) ==
    LET base == IF kept = None THEN Raw ELSE kept
    IN  CASE outcome = "passthrough" -> None
          [] outcome = "replace"     -> base
          [] outcome = "suppress"    -> [base EXCEPT !.blank = TRUE]

\* The replacement output after shaping, given the one before it, if any.
Reshaped(outcome, kept) ==
    LET base == IF kept = None THEN Raw ELSE kept
    IN  CASE outcome = "passthrough" -> kept
          [] outcome = "replace"     -> base
          [] outcome = "suppress"    -> [base EXCEPT !.blank = TRUE]

-----------------------------------------------------------------------------
(* What the two targets answer *)

NoOutcome == [deny |-> FALSE, command |-> None, output |-> None]

NoResult == [deny |-> FALSE, rewrite |-> None, output |-> None, messages |-> {},
             matched |-> {}]

Response == [deny : BOOLEAN, command : Commands \cup {None},
             output : Text \cup {None}, messages : SUBSET Nat]

\* Mutation of CmdHook: redacted output goes out without the messages.
CmdHookOutputOnly(res) ==
    [deny     |-> res.deny,
     command  |-> IF res.deny THEN None ELSE res.rewrite,
     output   |-> IF res.deny \/ res.rewrite # None THEN None ELSE res.output,
     messages |-> IF res.deny \/ res.rewrite # None \/ res.output # None
                  THEN {} ELSE res.messages]

\* cmd_hook: a denial is all that is said, or else a rewrite is, or else the
\* output and the messages are.
CmdHook(res) ==
    [deny     |-> res.deny,
     command  |-> IF res.deny THEN None ELSE res.rewrite,
     output   |-> IF res.deny \/ res.rewrite # None THEN None ELSE res.output,
     messages |-> IF res.deny \/ res.rewrite # None THEN {} ELSE res.messages]

\* Mutation of RunHook: the pipeline decides alone.
RunHookPipelineOnly(ch, res) ==
    [deny     |-> res.deny,
     command  |-> IF res.rewrite # None THEN res.rewrite ELSE ch.command,
     output   |-> res.output,
     messages |-> res.messages]

\* run_hook: the response carries everything, and the chain's part of it
\* where the pipeline has none.
RunHook(ch, res) ==
    [deny     |-> ch.deny \/ res.deny,
     command  |-> IF res.rewrite # None THEN res.rewrite ELSE ch.command,
     output   |-> res.output,
     messages |-> res.messages]

Answer == IF harness = "claude" THEN CmdHook(result) ELSE RunHook(chain, result)

-----------------------------------------------------------------------------

Init ==
    /\ harness \in {"claude", "opencode"}
    /\ hooks \in BoundedSeq(Rules, MaxHooks)
    /\ blocked \in SUBSET Blockable
    /\ asked \in Commands
    /\ command = asked
    /\ phase = "pre"
    /\ step = "judge"
    /\ next = 1
    /\ exit = "none"
    /\ chain = NoOutcome
    /\ result = NoResult
    /\ denied = FALSE
    /\ redacted = "not"
    /\ degraded = {}
    /\ told = {}
    /\ shown = None

\* The hook process of the event ends, the harness takes its answer, and the
\* tool runs or its output is shown.  A denial of a command that ran already
\* changes nothing, and neither does a rewrite of it.
Take(answer) ==
    /\ step' = "none"
    /\ told' = told \cup answer.messages
    /\ IF phase = "pre"
       THEN /\ phase' = IF answer.deny THEN "over" ELSE "tool"
            /\ command' = IF answer.deny \/ answer.command = None
                          THEN command ELSE answer.command
            /\ UNCHANGED shown
       ELSE /\ phase' = "over"
            /\ shown' = IF answer.output = None THEN Raw ELSE answer.output
            /\ UNCHANGED command
    /\ UNCHANGED exit

Nothing == [deny |-> FALSE, command |-> None, output |-> None, messages |-> {}]

\* The process ends without an answer, by an error or by its death: the
\* harness goes on as if it had allowed the call or left the output alone.
FailOpen ==
    /\ Take(Nothing)
    /\ degraded' = degraded \cup {phase}
    /\ UNCHANGED <<config, next, chain, result, denied, redacted>>

-----------------------------------------------------------------------------
(* In front of the pipeline *)

\* pre.rs, called by cmd_hook: rules first, then learned failures, and either
\* denial ends the process.  Rules that cannot be read are none.
LegacyPre ==
    /\ phase = "pre" /\ step = "judge" /\ harness = "claude"
    /\ \E readable, learned \in BOOLEAN :
          /\ degraded' = IF readable THEN degraded ELSE degraded \cup {"pre"}
          /\ \/ /\ (readable /\ command \in blocked) \/ learned
                /\ denied' = TRUE
                /\ Take([Nothing EXCEPT !.deny = TRUE])
             \/ /\ ~((readable /\ command \in blocked) \/ learned)
                /\ step' = "rules"
                /\ UNCHANGED <<call, denied, answers>>
    /\ UNCHANGED <<config, next, chain, result, redacted>>

\* Mutation of Judged: RuleBlockHook in front of RewriteHook.
JudgedUnrewritten(c) == c

\* The chain is RewriteHook, then RuleBlockHook on what that made of c.
Judged(c) == ChainRewrites[c]

\* HookChain::run_pre: a denial drops the rewrite that came before it.  A file
\* that one of the hooks cannot read ends the process with an error.
ChainPre ==
    /\ phase = "pre" /\ step = "judge" /\ harness = "opencode"
    /\ \E learned \in BOOLEAN :
          \/ /\ Judged(command) \in blocked \/ learned
             /\ chain' = [chain EXCEPT !.deny = TRUE]
             /\ denied' = TRUE
          \/ /\ ~(Judged(command) \in blocked \/ learned)
             /\ chain' = [chain EXCEPT !.command = ChainRewrites[command]]
             /\ UNCHANGED denied
    /\ step' = "rules"
    /\ UNCHANGED <<config, call, next, result, redacted, degraded, answers>>

\* HookChain::run_post: FilterHook shapes the output, then the observers learn
\* of the end.
ChainPost ==
    /\ phase = "post" /\ step = "judge" /\ harness = "opencode"
    /\ \E outcome \in ShapeOutcomes(exit) :
          chain' = [chain EXCEPT !.output = Reshaped(outcome, None)]
    /\ step' = "rules"
    /\ UNCHANGED <<config, call, next, result, denied, redacted, degraded, answers>>

\* A hook of the chain cannot load its file: the chain returns at once, and
\* run_hook with it.
ChainError ==
    /\ phase \in Events /\ step = "judge" /\ harness = "opencode"
    /\ FailOpen

\* cmd_hook has nothing in front of the pipeline after the tool.
ClaudePost ==
    /\ phase = "post" /\ step = "judge" /\ harness = "claude"
    /\ step' = "rules"
    /\ UNCHANGED <<config, call, next, chain, result, history, answers>>

-----------------------------------------------------------------------------
(* run_pipeline, rule by rule *)

\* The command the rules are matched with: not the one they rewrote.
Target == IF chain.command # None THEN chain.command ELSE command

WhenHolds(when) ==
    CASE when = "always"     -> TRUE
      [] when = "on-success" -> exit # "failure"
      [] when = "on-failure" -> exit = "failure"

Fires(r) ==
    /\ r.event = phase
    /\ Target \in r.pattern \ r.unless
    /\ WhenHolds(r.when)

AtRule(action) ==
    /\ step = "rules"
    /\ next <= Len(hooks)
    /\ Fires(hooks[next])
    /\ hooks[next].action = action

Matched == [result EXCEPT !.matched = @ \cup {next}]

\* The loop goes on with the next rule.
NextRule ==
    /\ next' = next + 1
    /\ UNCHANGED <<config, call, step, chain, degraded, answers>>

SkipRule ==
    /\ step = "rules"
    /\ next <= Len(hooks)
    /\ ~Fires(hooks[next])
    /\ NextRule
    /\ UNCHANGED <<result, denied, redacted>>

\* Mutation of AfterRules: output is shaped whatever the event.
AfterRulesShape == "shape"

\* Output is there to be shaped only after the tool.
AfterRules == IF phase = "post" THEN "shape" ELSE "respond"

\* The first denial ends the pipeline, with what came before it kept.
DenyRule ==
    /\ AtRule("deny")
    /\ result' = [Matched EXCEPT !.deny = TRUE]
    /\ denied' = (denied \/ phase = "pre")
    /\ step' = AfterRules
    /\ UNCHANGED <<config, call, next, chain, redacted, degraded, answers>>

\* Mutation of RewriteRule: every rewrite starts from the target.
RewriteRuleAnew ==
    /\ AtRule("rewrite")
    /\ LET to == hooks[next].to[Target]
       IN  result' = [Matched EXCEPT !.rewrite = IF to # Target THEN to ELSE @]
    /\ NextRule
    /\ UNCHANGED <<denied, redacted>>

\* Rewrites accumulate; one that changes nothing is none.
RewriteRule ==
    /\ AtRule("rewrite")
    /\ LET current == IF result.rewrite # None THEN result.rewrite ELSE Target
           to == hooks[next].to[current]
       IN  result' = [Matched EXCEPT !.rewrite = IF to # current THEN to ELSE @]
    /\ NextRule
    /\ UNCHANGED <<denied, redacted>>

\* A program is run to its end; what it prints may become a message.
RunSideEffect ==
    /\ AtRule("run")
    /\ \E says \in SUBSET {next} : result' = [Matched EXCEPT !.messages = @ \cup says]
    /\ NextRule
    /\ UNCHANGED <<denied, redacted>>

Notify ==
    /\ AtRule("notify")
    /\ result' = [Matched EXCEPT !.messages = @ \cup {next}]
    /\ NextRule
    /\ UNCHANGED <<denied, redacted>>

\* obfsck gets the raw output, never an earlier redaction; when it fails, the
\* raw output is the result.  Before the tool there is no output.
Redact ==
    /\ AtRule("redact")
    /\ IF phase = "post"
       THEN \E works \in BOOLEAN :
               /\ result' = [Matched EXCEPT !.output = [Raw EXCEPT !.redacted = works]]
               /\ redacted' = IF works THEN "worked" ELSE "failed"
       ELSE result' = Matched /\ UNCHANGED redacted
    /\ NextRule
    /\ UNCHANGED denied

EndRules ==
    /\ step = "rules"
    /\ next > Len(hooks)
    /\ step' = AfterRules
    /\ UNCHANGED <<config, call, next, chain, result, history, answers>>

-----------------------------------------------------------------------------
(* After the pipeline *)

\* The output so far is the pipeline's, or else the chain's, or else raw.
Shape ==
    /\ step = "shape"
    /\ LET kept == IF result.output # None THEN result.output ELSE chain.output
       IN  \E outcome \in ShapeOutcomes(exit) :
              result' = [result EXCEPT !.output = Reshaped(outcome, kept)]
    /\ step' = "respond"
    /\ UNCHANGED <<config, call, next, chain, history, answers>>

Respond ==
    /\ step = "respond"
    /\ Take(Answer)
    /\ UNCHANGED <<config, next, chain, result, history>>

\* The tool runs the command, and the process of the second event starts from
\* nothing.  Not every harness reports an exit, and none does of a timeout.
ToolEnds ==
    /\ phase = "tool"
    /\ phase' = "post"
    /\ step' = "judge"
    /\ next' = 1
    /\ exit' \in Exits
    /\ chain' = NoOutcome
    /\ result' = NoResult
    /\ UNCHANGED <<config, command, history, answers>>

HookDies ==
    /\ Faults
    /\ phase \in Events
    /\ FailOpen

Over == phase = "over" /\ UNCHANGED vars

Next ==
    \/ LegacyPre \/ ChainPre \/ ChainPost \/ ChainError \/ ClaudePost
    \/ SkipRule \/ DenyRule \/ RewriteRule \/ RunSideEffect \/ Notify \/ Redact
    \/ EndRules
    \/ Shape \/ Respond
    \/ ToolEnds \/ HookDies \/ Over

Spec == Init /\ [][Next]_vars

-----------------------------------------------------------------------------
(* Properties *)

\* Every variable keeps its type, output is shaped only after the tool, and
\* only OpenCode's processes have an outcome of the chain.
TypeOK ==
    /\ harness \in {"claude", "opencode"}
    /\ hooks \in Seq(Rules)
    /\ blocked \subseteq Blockable
    /\ {asked, command} \subseteq Commands
    /\ phase \in Events \cup {"tool", "over"}
    /\ step \in {"judge", "rules", "shape", "respond", "none"}
    /\ next \in 1..(MaxHooks + 1)
    /\ exit \in Exits
    /\ chain \in [deny : BOOLEAN, command : Commands \cup {None}, output : Text \cup {None}]
    /\ result.matched \cup result.messages \subseteq DOMAIN hooks
    /\ Answer \in Response
    /\ denied \in BOOLEAN
    /\ redacted \in {"not", "worked", "failed"}
    /\ degraded \subseteq Events
    /\ told \subseteq DOMAIN hooks
    /\ shown \in Text \cup {None}
    /\ phase \in Events <=> step # "none"
    /\ step = "shape" => phase = "post"
    /\ harness = "claude" => chain = NoOutcome

\* The tool ran, or is running.
Ran == phase \in {"tool", "post"} \/ shown # None

\* Whatever stage of the pre-hook denies (course-correct rule, learned failure,
\* pipeline rule), no later stage, merge or adapter turns it into an allow: the
\* tool runs only when none did, or when the hook failed.
DenialStands == Ran => ~denied \/ "pre" \in degraded

\* "rewrites feed policy checks" (build_hook_chain): what the course-correct
\* rules block does not run, also when a rewrite of the chain led to it; only
\* a rewrite of the pipeline, which comes after them, may.
PolicyJudgesWhatRuns ==
    phase = "tool" /\ "pre" \notin degraded /\ result.rewrite = None
        => command \notin blocked

\* The command as the pipeline gets it, and what its rewrites make of it.
Received == IF harness = "opencode" THEN ChainRewrites[asked] ELSE asked

\* A rule of the first event that the command as received falls under.
Matches(r) ==
    r.event = "pre" /\ Received \in r.pattern \ r.unless /\ r.when # "on-failure"

\* What the first i rules make of it.
RewrittenBy[i \in 0..Len(hooks)] ==
    IF i = 0 THEN Received
    ELSE LET c == RewrittenBy[i - 1]
         IN  IF Matches(hooks[i]) /\ hooks[i].action = "rewrite" THEN hooks[i].to[c] ELSE c

\* The command that runs is the one asked for with every rewrite that matches
\* applied to it in order, first the chain's and then the pipeline's, and then
\* no pipeline rule that matches denies.
RunsAsRewritten ==
    phase = "tool" /\ "pre" \notin degraded
        => /\ command = RewrittenBy[Len(hooks)]
           /\ \A i \in DOMAIN hooks : Matches(hooks[i]) => hooks[i].action # "deny"

Answered(event) == event \notin degraded /\ phase = IF event = "pre" THEN "tool" ELSE "over"

Overridden == harness = "claude" /\ (result.deny \/ result.rewrite # None)

\* "when shaping changes nothing the redacted text must survive" (cmd_hook):
\* once the last redaction worked, neither the filters nor the chain nor
\* run_hook's merge brings raw output back.  The answer of cmd_hook does, in
\* one case: a denial or a rewrite of the post event is said alone, and the
\* output it was to replace stays as the tool left it, so that redacting first
\* does not quite make "coverage unconditional".
RedactionSurvives ==
    Answered("post") /\ redacted = "worked" /\ shown # None
        => (shown.redacted <=> ~Overridden)

\* "An unknown exit ... never suppresses output" (docs/opencode.md): through
\* both of the filters it passes, such an output is never blanked.
UnknownExitKeepsOutput ==
    phase = "over" /\ exit = "none" /\ shown # None => ~shown.blank

\* The messages of rules that fired arrive, also with a replaced output; only
\* cmd_hook's denials and rewrites are said alone.
MessagesArrive ==
    \A event \in Events : Answered(event) /\ ~Overridden => result.messages \subseteq told

\* "a timeout must never read to the agent as a clean pass" (docs/opencode.md):
\* a rule that is to fire on success does not fire when the exit is unknown.
UnknownExitIsNoSuccess ==
    phase = "over" /\ shown # None /\ exit = "none"
        => \A i \in result.matched : hooks[i].when # "on-success"

=============================================================================
