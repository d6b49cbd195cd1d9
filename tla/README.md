# Verification of coursers in TLA+

coursers puts a hook process in front of and behind every tool call of a coding agent
(Claude Code, Codex, OpenCode). The hooks deny, rewrite and redact by rules, block commands
that keep failing, and record what they blocked. Every hook is a short process of its own:
what coursers *remembers* it remembers in files that the processes of parallel tool calls,
subagents and sessions share. That sharing, and the order in which several deciders see one
call, is what these modules model.

Contents: [inventory](#inventory) · [plan](#plan) · [modules](#modules) · [runs](#runs) ·
[fairness](#fairness) · [proofs](#proofs) · [disagreements](#where-the-code-and-its-documentation-disagree) ·
[not modelled](#not-modelled)

Paths below are relative to `src/crates/` unless they start with `src/`.

## Inventory

| Component | State it keeps | Operations | Interacts through |
|---|---|---|---|
| Failure learning (`core/src/state.rs`) | none (functions of a `State`) | `record_failure`, `prune`, `check_learned` | called by the hooks |
| Failure store (`core/src/store.rs`) | one JSON file and its `.json.tmp` | `load_from`, `save_to` | file shared by all hook processes, no lock |
| Legacy hooks (`coursers/src/hook/pre.rs`, `post.rs`) | none between calls | `pre`: rules, prune, learned check; `post`: acceptance, record failure | store, dataset, statistics, log |
| Hook chain (`core/src/hook/chain.rs`, `concrete.rs`, `config.rs`) | none between calls | `run_pre`, `run_post` over RewriteHook, RuleBlockHook, FilterHook, FailureObserver | store, rule and filter files |
| Suggestion capture (`core/src/analyze/capture.rs`) | a JSONL file | `record`, `mark_accepted` | file with an advisory lock on itself |
| Rule pipeline (`core/src/hook/pipeline.rs`) | a `PipelineResult` per event | `run_pipeline`: deny, rewrite, run, notify, redact | child processes (obfsck, shell) over pipes |
| Dispatch (`coursers/src/crs_commands.rs`, `opencode.rs`) | none | `cmd_hook`, `run_hook`: deciders, pipeline, shaping, answer | stdin/stdout of the harness |
| OpenCode plugin (`src/integrations/opencode/coursers.ts`) | sessions: parents, ended, stopped | event handlers, tool handlers, bridge | one `crs hook` process per call |
| Output shaping (`core/src/hook/filter_logic.rs`) | none | `apply_filter`, `shape_command_output` | called after the pipeline and by the chain |
| Prefix learning (`coursers/src/crs_commands.rs`) | probes, mappings, statistics | `check_probe_match`, `handle_probe_result`, `handle_bare_failure` | files without a lock |
| Block statistics (`core/src/analyze/stats.rs`) | a JSON file | `record_block` | file without a lock, written in place |
| Hook log (`core/src/hook/log.rs`) | a redb table keyed by time | `record`, `query`, `prune` | one process opens it at a time |
| Rule matching, parsing, tool swap, rewrites (`core/src/rules.rs`, `parse/`, `hook/tool_swap.rs`, `hook/rewrite.rs`) | none | pure functions on command text | called by the hooks |
| Configuration (`core/src/config.rs`, `hook/pipeline.rs`, `hook/filters.rs`, `coursers/src/lib.rs`) | layers of files, profiles | `load_config`, `filters::load`, `ConfigBuilder`, validation | files of user, plugins and repository |
| Installation (`coursers/src/crs_commands.rs`, `src/integrations/`) | hooks file, plugin files | `crs validate-hooks`, `crs hook --target codex` | the harness |
| External tools (`coursers/src/obfsck`, `coursers/src/rtk`) | a project's redaction filters | `crs discover`, `crs filter` | programs that may be missing |
| Analysis and reports (`core/src/analyze/`, `replay.rs`, `jsonl_source.rs`, `date.rs`) | none | `crs discover`, `suggest`, `history`, `heat`, `insights`, `replay` | transcripts, statistics |

What is hard in it:

- **Read-modify-write without a lock.** The store, the statistics and the probe file are
  loaded, changed and saved in separate steps of processes that overlap. Updates may be
  lost (`core/README.md` says so); what must not happen is that what is *left* denies a command
  that did not fail, or is no JSON at all.
- **Crashes and failed writes** between truncating, writing and renaming, and between the
  text and the newline of an appended line. A harness goes on without the answer of a dead
  hook.
- **Order of deciders.** Course-correct rules, learned failures, chain rewrites and pipeline
  rules all judge one call; their verdicts are merged in code that overwrites, returns early
  and takes `Option`s from one another.
- **Order of redaction and shaping**, and exits nobody reported (a timeout, an abort).
- **Waiting.** A hook waits for the lock of the suggestion file, and the agent for the hook.
- **Two readers of one thing.** A command's segments, a rule, a configuration layer, a document on stdin and
  a state file are each read by several entry points in code of their own, which may disagree.
- **Edges.** A failure exactly one window old, a memory at its limit with ties, a clock that
  moves between any two steps, a prune older than the clock, a century's leap day.

What makes each component correct: a learned denial is justified by real failures and, when
nothing interferes, a repeated failure is denied; the stored state is bounded and whole;
the dataset has one record per pair and counts its blocks; whoever waits for the lock gets
it; a denial stands through every merge; what policy judges is what runs; redacted output
stays redacted but beside a denial or rewrite of the post event; output of unknown fate is not
blanked; messages arrive; a prefix is learnt only from a failure and a retry that did not fail;
each lifecycle hook of a session runs once; nothing that is chained to a command takes its denial away; a repository's files add to the user's rules and take none away;
the entry points agree; reports add up and agree, chains aside, with what
the hooks did.

## Plan

The order in which the modules were written, the most important behaviour first:

1. **Failure learning** (proved): `FailureLearning`, `FailureStore`, abstract `FailureMemory`.
2. **Suggestion capture** (proved): `SuggestionStore`, abstract `CaptureDataset`.
3. **Dispatch** (proved): `HookDispatch`, one Bash call through every decider and filter.
4. **Plugin sessions** (proved): `OpenCodeSessions`, handlers that await in the middle.
5. **Prefix learning** (proved): `PrefixLearning`, probes, retries and mappings in unlocked files.
6. **Statistics and log** (proved): `BlockRecords`, two more shared files and what of a count may be lost.
7. **Pipes** (proved): `PipedChild`, a parent that writes a pipe before it reads one.
8. **Algorithms** against reference definitions: `CommandScan`, `RuleMatching`, `CommandRewriting`,
   `RuleTemplates`, `ToolSwap`, `OutputShape`, `HookConfig`, `HookEntry`, `HookInstall`, `Profiles`,
   `SessionReports`, `SessionInsights`, `ExternalTools`, `CalendarDate`, composed for TLC by `MCHookWork`.
9. **Printed tables**: `PrintedTables`, what becomes of texts that are too long for their column.

Proved of steps 8 and 9: that the entry points agree, that an installation that passes leads to the handlers, that layers
add up, that swaps show what is asked for, that shaping keeps failures and redaction holds, that errors are at their
places, that tools only add, and that what is printed is what there is. Left: theorems on the scanners, the rewrites
and the transcripts; an abstract specification of `PrefixLearning` (one probe per command, confirmed or discarded once).

## Modules

### Failure learning: `FailureLearning`, `FailureStore`, `FailureMemory`

`FailureLearning` has the policy of `state.rs` as operators on a `State`, a function from
commands to `[timestamps, last_seen]`. A command stands for its SHA-256 key. A timestamp
carries the tool call that pushed it, which the code does not store: the vector keeps two
failures of one second apart and so must the set. `Prune` and `RecordFailure` return the
*set* of states the code may return, because eviction among equal `last_seen` follows a
hash map's order.

`FailureStore` runs them. Its variables: `file` and `tmp`, what the two paths hold (JSON, empty,
garbled or absent: all but the first load as the empty state); per call `phase`, `step`, `held` (the
process's memory), `fd`, `command`, `runner`, `exit`, `verdict`, `denial`; the clock `now`; the histories
`failures` and `saved`. One action per step that another process can see:

| Action | Code |
|---|---|
| `StartPre` | `pre.rs` `run_with_proto` up to the load: a rule denies, disabled learning allows |
| `Load` | `store.rs` `load_from` with `unwrap_or_default` |
| `PruneOnRead` | `pre.rs`: prune, save only when the number of entries changed |
| `Record` | `post.rs` / `FailureObserver`: `record_failure` |
| `OpenTmp`, `WriteTmp`, `RenameTmp` | `save_to`: `fs::write` (open and truncate, write), `fs::rename` |
| `OpenFails`, `WriteFails`, `Crash` | an error of either, a killed process |
| `CheckLearned` | `check_learned` and the answer |
| `ToolEnds` | the tool's end and the guards of the post-hook |
| `Tick` | the clock, between any two steps |

A process keeps writing to the file it *opened*: once another process has renamed that file
over the state file, the bytes go there. `fd` tracks what the open file is linked as.
The chain (`runner = "chain"`) does not prune before it looks a command up, records signals and
excluded commands too, and does not ask whether learning is enabled.

`FailureMemory` is the promise without processes and files: one memory, judged and updated
atomically. A judgement or update may use a clock reading from before it (`t \in 0..now`): the
code reads the clock more than once per hook.

### Suggestion capture: `SuggestionStore`, `CaptureDataset`

The file is a sequence of lines, each a record, malformed text, or text that is not UTF-8,
with a flag for the final newline. `Lock` is `fd_lock`'s exclusive lock on the file itself; `AppendText` and
`AppendNewline` are the two writes of `writeln!`; `Truncate` and `Rewrite` the two effects of `write_all`.
`AppendCut`, `RewriteCut` and `Crash` stop a process there. A rule determines its suggestion, so the pair
(command, suggestion) is the command.

`CaptureDataset` has one atomic action per call and, only after a fault, lost entries. The
refinement maps the file to an entry per command, taking the intended records while a
rewrite is under way.

### Dispatch: `HookDispatch`

One Bash call from the agent's request to the output it is shown. `harness` selects the path:

- Claude Code: `LegacyPre` (course-correct rules, learned failures), the pipeline, `Shape`, and the answer
  `CmdHook`, which says a denial alone, or a rewrite alone, or output and messages.
- OpenCode: `ChainPre` / `ChainPost` / `ChainError`, the pipeline on the command the chain rewrote, `Shape`, and
  `RunHook`, which merges both.

The pipeline goes rule by rule (`SkipRule`, `DenyRule`, `RewriteRule`, `RunSideEffect`, `Notify`, `Redact`, `EndRules`). A
pattern is the set of commands it matches. Of an output it matters whether it went through obfsck
and whether anything is left. Each program a hook starts may succeed or fail; with `Faults` the
hook itself may die anywhere, and the harness goes on without it (`FailOpen`). Learned failures are a choice
here; their state is `FailureStore`'s.

### Prefix learning: `PrefixLearning`

A bare command fails, `crs filter` leaves a `Pending` probe and tells the agent to retry behind a
prefix; `crs rewrite` recognises the retry and makes the probe `Probing`; `crs filter` of the retry
confirms the prefix for the command's key or discards the probe; later commands of that key get the
prefix. That is three processes of two tool calls, on three files nobody locks. A command is
`[bare, prefixes]`, a bare command behind the prefix some number of times; one candidate is
configured, as `handle_bare_failure` only ever takes the first. Per call: `asked`, `ran`, `exit`, `phase`, `step`, and
the process's memory `held` (probes it will write), `counted` (statistics it read), `probe` (the one it resolves).

| Action | Code (`coursers/src/crs_commands.rs`) |
|---|---|
| `StartPre`, `MatchProbe`, `MarkProbing`, `Inject` | `cmd_rewrite`: `check_probe_match` reads, then writes; else `rewrite_command` |
| `ToolEnds` | `cmd_filter` up to the probes, with the early return of a suppressed output |
| `Resolve`, `ReadStats`, `Confirm`, `WriteProbes`, `SaveStats` | `handle_probe_result` |
| `Initiate`, `WriteProbes`, `ReadStats`, `SaveStats` | `handle_bare_failure`, which reads the probes again |
| `RemoveMapping` | `crs audit --remove`, at any time |
| `WriteFails`, `Crash` | the dropped errors (`let _ =`), a killed process |

`exclusive` is chosen at the start: in behaviours where hook processes never overlap the probes
must add up, in the others only what no lost update may break is asked. The stores are the external
crate `prefixe`: reading or writing one of its files is one step here.

### Plugin sessions: `OpenCodeSessions`

`parents`, `ended`, `stopped` are the plugin's three maps, one action per event handler. JavaScript runs a handler
alone up to its first `await`, and starts the hook process before it: so each handler is one
action, but for `session.deleted` of a root, which goes on after the hook (`Deleted`, `DeletedGoesOn`). `life` is
OpenCode's side: sessions are announced in order, a child under a live parent, any event possibly
twice, and sessions from before the plugin was loaded are never announced as created. `log` has each
session's hooks in the order they were started.

### What a denial leaves behind: `BlockRecords`

Every process is one command: a pre-hook that denies, a pipeline hook, `crs stats`, `crs log` or `crs log --prune`.
`record_block` is `Start` (which of the two files: the project's, once there is a `.ctx` directory, or the user's),
`ReadStats`, `Truncate`, `WriteStats`: read, incremented and written in place, without a lock. The log is a function from
times to entries (`OpenLog`, `Commit`, `ShowLog`, `Prune`), in a database that one process has open: who comes second
goes on without it. `MakeCtx` lets the directory appear between any two steps. `Query`, `History`,
`BlockTable` and `HeatFirings` are the reports. `Word` is `2^64` of the cutoff's unsigned subtraction: a prune older than the
clock wraps in a release build.

### Pipes: `PipedChild`

`run_redact`, `run_side_effect` and the obfsck client write the whole input of a child before they read anything. A child
`streams` (answers while it reads) or `collects`; both pipes hold `Capacity` units. The harness may give up (`Killed`), and a
child may fail anywhere.

### What a hook works on

Operators without a state of their own. Texts are sequences of symbolic characters, of which a name, a placeholder or
`http://` is one; a regular expression is the words it looks for; a file is absent, unreadable, malformed or valid.

| Module | Code | Held against |
|---|---|---|
| `CommandScan` | `parse/pipeline.rs`: segments, stages, command names | `PiecesAreWhole`: a piece is one piece when cut again, and no name is lost |
| `RuleMatching` | `rules.rs`, `pre.rs`'s span, `crs probe`, `crs validate` | `ChainingEvadesNoRule`, `OverrideLiftsOnlyItsRules`, `ReportsOnlyDenied`, `SpanLinesUp`, `ValidatedRulesWork` |
| `CommandRewriting` | `parse/expand.rs`, `hook/rewrite.rs`, `cmd_rewrite` | `ExpandsHomesOnly`, `RewriteLosesNothing` |
| `RuleTemplates` | `apply_rewrite`, `expand_env_vars`, `expand_template`, `git_branch_slug`, `matches_tool` | `RewriteKeepsVariables`, `MessagesTellTheContext`, `SlugsAreNames`, `AlternativesCount` |
| `ToolSwap` | `hook/tool_swap.rs` | `SwapShowsWhatIsAsked`: the lines a Read shows are among those the command prints, and all of them within the budget |
| `OutputShape` | `hook/filter_logic.rs` | `ShapingKeepsFailures` |
| `HookConfig` | layers of hook files, the project allowlist, validation and lint (`pipeline.rs`); filter layers (`filters.rs`, `config.rs`) | `ProjectFileOnlyAdds`, `ReportsWhatCannotWork`, `ProjectFiltersSupplement`, `ChainReadsTheSameFiles` |
| `HookEntry` | `crs pre`, `post`, `filter`, the chain's variant, `crs hook` for both targets: from the document on stdin to the answer | `EntriesAgree`, `EndsReadAlike` |
| `HookInstall` | hook events, the plugin's tool calls, `crs validate-hooks`, the Codex backend | `CodexHooksLeadSomewhere`, `PluginIsUnderstood`, `PluginCallsAreRequests` |
| `Profiles` | `config.rs`, `lib.rs`: which files a command works on | `MemoryIsShared`, `ProfilesAreApart` |
| `SessionReports` | `jsonl_source.rs`, `history.rs`, `suggest.rs` | `NoCallIsLost`, `ReportsAddUp`, `SuggestionsCatch`, `SuggestsWorthiest` |
| `SessionInsights` | `insights.rs`, `replay.rs`, `nu_check` | `InsightsAddUp`, `SessionsHavePlaces`, `ReplayMatchesReport`, `SuggestionsSettle`, `PlacesAreRight`, `ScriptsAreChecked` |
| `ExternalTools` | `rtk/process.rs`, `obfsck/process.rs`, `cmd_discover`'s filters file, `cmd_filter` | `DiscoverKeeps`, `ToolsFailOpen`, `RedactionHolds` |
| `CalendarDate` | `date.rs`, `heat.rs` | `DatesFollowTheCalendar` (a calendar that knows only months and leap years), `HeatAddsUp` |

`Selections` has what these modules do with sequences, standing for `Iterator::filter`, `Vec::extend` and `Iterator::sum`: what is
`Kept` of one, several `Joined`, and numbers `Summed`, as recursive functions of how far they have come.

`MCHookWork` puts them under one specification: `topic` is chosen at the start and `work`, the input of that topic, grows by
one piece at a time (a character, a rule, a line of a transcript, a day); topic `pipes` runs `PipedChild`. Its invariants are
the conjunctions of the promises above, topic by topic.

### Printed tables: `PrintedTables`

A text has characters of one byte and of three. `TruncateDisplay` (`crs log`) cuts at a character, `Trunc` (`crs insights`)
and `Example` (`crs discover`) at a byte, and slicing within a character panics: `Slice` is a set, of the text or of
nothing. `FormatInsightRow` is a row as its cells in the order of `Columns`, filled up or cut to `Widths`; `Start` is where a
cell begins. `PrintDiscoverText` has the rows, the rounded and the summed tokens, and the examples up to the first
that panics. `RowLinesUp`, `TextTellsWhatJsonTells` and `MessageIsCutLate` are its promises; `MCHookWork` has them too, with
a session, a report and a message as topics.

The other `MC*` modules only supply values and symmetry sets.

## Runs

| Run | Properties | Bounds and why they are enough |
|---|---|---|
| `store_serial` | `FileNeverTorn`, `RepeatedFailureDenied`, `ImplementsMemory` | 3 calls: two failures reach the threshold of 2 and a third call is judged. 3 commands: the one that fails, another entry, a rule-blocked one. Clock 0..2 with window 1: a failure inside, on the edge of and outside the window. Both runners. Faults. |
| `store_overlap` | `DenialJustified`, `StoredStateBounded` | 3 overlapping processes, enough for two that tear the file and one that reads it; 2 commands with `MaxTracked` 1, so every second entry evicts; clock 0..3, window 2, cleanup 1, so both limits bite, in either order. |
| `store_torn` | `FileNeverTorn` | counterexample, below |
| `capture_processes` | `OneRecordPerSuggestion`, `CountsBlocks`, `ImplementsDataset`, `HooksEnd` | 3 calls of any job: two that contend and one that finds what they left; 2 commands with one suggestion, so an acceptance matches several records; 2 sessions; at most `MaxFaults = 2` faults, the second after the damage of the first. |
| `capture_undecodable` | `MalformedLinesSkipped` | counterexample, below |
| `dispatch` | `DenialStands`, `PolicyJudgesWhatRuns`, `RunsAsRewritten`, `RedactionSurvives`, `UnknownExitKeepsOutput`, `MessagesArrive` | every list of at most `MaxHooks = 3` of eight rules (the pairs and triples that interact: rewrite-rewrite-deny, redact-redact-notify, deny-redact), with repetition; three commands that rewrites lead between; every subset of blockable commands. |
| `dispatch_unknown` | `UnknownExitIsNoSuccess` | counterexample, below |
| `prefix` | `OneProbePerCommand`, `MappingJustified`, `ProbesAccounted`, `ProbingHasRetry` | 3 calls: one that fails, its retry, and a third that overlaps either or uses what was learnt. 2 commands of one key and one that may get no prefix; the prefix's own key may be learnt about as well, so a retry that fails leads to a second round (`MaxPrefixes = 2`). `MaxSkipped = 1` call dies, fails to write or is suppressed. A mapping may be removed at any time. |
| `records` | `CountsJustified`, `DenialsOnRecord`, `ReportsShowNewest`, `EntriesStay` | 3 processes of any job: two that lose each other's update and one that prunes or prints; 2 rules; `MaxTime = 5` leaves every process an instant for its commit; prunes of age 0, 1 and one older than the clock, for which `Word = 16` is `2^64`. |
| `hook_work` | 12 invariants, one or two per topic, and `HookReturns` | texts of 5 characters (an operator between two quoted or escaped words), of 4 where rules or expansion are applied, templates of 3, 3 arguments, 4 lines, 2 rules in 3 layers, 2 lines of a transcript of up to 2 calls each, 2 session files, scripts of 5 characters, fields from three bytes below the width of their column to one above, reports of `MaxFindings = 3`, messages up to `MaxLonger = 2` characters above their limit, 800 days from four starts around leap days, `MaxOdd = 2` wrong fields of a document or entries of an installation: in each the smallest that lets two pieces of every kind meet. `Capacity = 1`, inputs up to 4: more than fits between hook and child. |
| `plain_commands` | `PlainCommandsPassThrough` | counterexample, below |
| `sessions` | `EndsAtMostOnce`, `EndsAfterDisposal`, `OneStopPerCycle`, `StartsOnceAndFirst` | 3 sessions, in any arrangement of roots and children, each known to the plugin or not; `MaxEvents = 8`: created, idle, busy, idle, deleted, deleted again and disposed fit in one behaviour, with another session's event in between. |

The type invariants are theorems and in none of the runs. Every safety property and every refinement of the state machines is
both: checked on the instances above, and proved (below) for every value of the constants.

What the passing runs show, per property:

- `DenialJustified`: the lost updates that the code accepts only ever *remove* failures. No
  interleaving, torn file or stale save produces a denial with fewer than `block_threshold` real,
  known failures of that command in the window, nor one that says a count above its failures. Signals count as real failures because the
  chain records them; the legacy hooks leave them out.
- `StoredStateBounded`: a stale save is still the result of a prune, so the bounds hold of whatever was saved last.
- `FileNeverTorn`, `RepeatedFailureDenied`, `ImplementsMemory` hold while hook processes do not overlap, with crashes
  and failing writes. With overlap the first fails (`store_torn`) and the others with it.
- `ImplementsDataset` with `OneRecordPerSuggestion` and `CountsBlocks`: the lock makes the three-step update atomic, and a
  cut write loses entries but never doubles or changes one.
- `HooksEnd`: liveness of the lock. `HookReturns`: liveness of the pipes, unless a child answers while it reads and the
  text is longer than both pipes and its hands hold: then each waits for the other until one is killed.
- `OneProbePerCommand`, `MappingJustified` hold with every overlap and fault: a stale write of the probe file is still a
  file without doubles, and resurrects only probes of real failures. `ProbesAccounted` and `ProbingHasRetry` need hook
  processes that do not overlap; with overlap a lost update loses a count or a probe.
- `CountsJustified`: torn and lost statistics only lose counts. `DenialsOnRecord`: when nothing overlaps or dies nothing is
  lost, wherever the `.ctx` directory appears. `EntriesStay`: two entries never share a key, as one process has the
  database open and the clock of nanoseconds moves with every commit; only a prune removes, and only what is old enough,
  but for a prune older than the clock.
- The four of `sessions` hold however hooks and events interleave, because every handler notes what it
  did before it awaits.
- The six of `dispatch` are about merges: each is broken by one plausible edit of the code that merges.
- Those of `hook_work` compare pieces of code that must agree with one another: a scanner with itself, a rule alone and in a
  chain, a report with what the hooks denied (chains aside), one entry point with another, one day with the next.
- `PrintedReportsHold`, of dates and tables: what is printed of a long or wide text stays in its column, says nothing
  else, and adds up. A row that panics is not printed, so the property says nothing of it; see below.

Some properties carry preconditions. `RepeatedFailureDenied` needs `Cleanup >= Window` and room
for every command: otherwise the policy itself drops failures inside the window. `PolicyJudgesWhatRuns`
excludes a rewrite of the pipeline, which the code runs after the course-correct rules and which no
rule judges again. `MessagesArrive` excludes what `cmd_hook` denies or rewrites, which it says alone. `RedactionSurvives` has
no such precondition: it states that raw output comes back beside a denial or rewrite of the post event, and only there.
`ReportsAddUp` lets a report of `crs discover` miss denied commands that are chains, and no others, while no task lifts a
rule. `RedactionHolds` leaves out the answer of `cmd_filter` that tells of a prefix. `ReportsShowNewest` asks of
queries without an upper bound: with one the code stops at the first entry that is too new.

Deadlock is checked everywhere; the end of an instance is a stuttering action (`AllOver`, `Over`, `Quiet`, `RecordsOver`,
`Enough`, `PipeOver`).

## Fairness

`SuggestionStore` and `PipedChild` have liveness. `Fairness` of the first is weak fairness of each started process's steps: the
kernel runs a process that can run. For `Lock` weak fairness is enough because the instance, like a
session, has finitely many calls: the lock is free for ever once the others are done, and
enabled continuously from then on. `PipeFairness` is weak fairness of the hook's steps and of the child's, for the same
reason; `MCHookWork` states it of its own variables. No fairness is put on starting a hook, on faults, on a child that
fails, on a harness that gives up, or on the agent.

## Proofs

Every theorem is about the specification that TLC runs, for every value of its constants that the named assumptions
allow; the refinements and the properties of a step are theorems on actions. A theorem that needs an instance without
overlap says so as a hypothesis (`~Overlap`) or in the property (`exclusive`).

`FailureStoreProofs`, for every finite set of commands and calls, every window, cleanup, threshold and limit, both runners,
with crashes and failing writes, under `PolicyAssumption` and `StoreAssumption`. Its first part has the lemmas on the
policy (`Prune`, `RecordFailure`, eviction).

| Theorem | States | Argument |
|---|---|---|
| `TypeCorrect` | `Spec => []TypeOK` | `TypeOK` is inductive; it contains `ControlOK`, the step order, without which `held` could not be typed after a crash. |
| `LearnedDenialsJustified` | `Spec => []DenialJustified` | `EvidenceInv`: every state anywhere, in the file, in the temporary file, in a process's memory, has only timestamps that are in `failures` (`StatesTraced`), under the command their call ran, and every call in `failures` ended in a known failure. Lost updates keep this because they replace one traced state by another; torn files keep it because they load as empty. A denial counts timestamps of such a state, and a subset's cardinality is at most the set's. |
| `StoredStateAlwaysBounded` | `Spec => []StoredStateBounded` | `BoundedInv`: what a process holds at the steps after its update is the result of a prune, hence `Bounded` (lemma on `Prune`), and both files only ever receive that. |
| `SerialFileNeverTorn` | `~Overlap /\ Spec => []FileNeverTorn` | `SerialInv`: one process at a time, so the file it has open is the temporary one, empty until it writes and then the text of what it holds. A crash leaves the temporary file behind, which the next save truncates. |
| `RepeatedFailuresDenied` | `~Overlap /\ Spec => RepeatedFailureDenied` | `KeptInv`: the failures that were saved and lie within the window (`Due`) are in the file, and in what a process that loaded it holds. `PruneKeeps` and `RecordKeeps`: with room for every command and `Cleanup >= Window` (`Roomy`) neither a prune nor an eviction drops one of them. |
| `ImplementsAtomicMemory` | `~Overlap /\ Spec => ImplementsMemory` | `LinkedInv`: what a process holds was pruned or learnt from the state the file still has, by some clock reading since. So the rename is the step of `FailureMemory`, the check its judgement, and every other step a stutter. |

`SuggestionStoreProofs`, under `CaptureAssumption` (finitely many calls), for any originals, sessions and suggestions, and
any number of cut writes and deaths:

| Theorem | States | Argument |
|---|---|---|
| `TypeCorrect` | `Spec => []TypeOK` | `Typed`; `RecordsAreRecords` is an induction over the lines of the file. |
| `RecordsNeverDouble` | `Spec => []OneRecordPerSuggestion` | `StoreInv`: the lock has one holder, and what it decided, to append or to rewrite, is right for the lines as they are (`Decided`): an original that is to be appended is in no line, also when the last line was cut and the text runs into it. |
| `BlocksCounted` | `Spec => []CountsBlocks` | `Counted`: a record, in the file or in what will be rewritten, counts at most the blocks whose process got as far, and exactly those while nothing was cut. |
| `ImplementsAtomicDataset` | `Spec => ImplementsDataset` | the rewrite of a file is the step of the dataset when the file is truncated, the intended records standing for it until they are written; an append is the step when its text is there. A cut or a death in between is `Lose`. |

`HookDispatchProofs`, under `DispatchAssumption` and `NoTextAssumption`, for every set of commands and rules and every length
of the list of rules. Each invariant is proved by the steps of `Next`, with the rules that keep the loop
going taken together (`RuleStepFacts`).

| Theorem | States | Argument |
|---|---|---|
| `TypeCorrect` | `Spec => []TypeOK` | `Typed` has the type of all of `result`, where `TypeOK` has only what an answer carries. |
| `DenialsStand` | `Spec => []DenialStands` | `DenialInv`: a denial that was spoken is in `chain` or `result` until `Respond`, and the output is still unshown. |
| `PolicyJudges` | `Spec => []PolicyJudgesWhatRuns` | `PolicyInv`: from the verdict on, the command the process will answer with is not blocked. |
| `UnknownExitsKeepOutput` | `Spec => []UnknownExitKeepsOutput` | `UnknownInv`: with an unknown exit neither the pipeline's nor the chain's output is blank; `ShapeOutcomesFacts` leaves suppression out. |
| `RedactionsSurvive` | `Spec => []RedactionSurvives` | `RedactionInv`: between the redaction and the answer `result` holds a redacted text, which `ReshapedFacts` keeps; the answer then shows it, or drops it for a denial or rewrite of `cmd_hook`'s (`Overridden`), and the raw output is shown. |
| `MessagesAlwaysArrive` | `Spec => []MessagesArrive` | `MessagesInv`: an event starts without messages, so those of an answer are all there are. |
| `CommandsRunAsRewritten` | `Spec => []RunsAsRewritten` | `RewriteInv`: while the rules run, the command as it is now (`Current`) is what the rules before `next` make of the first one (`UpToDate`), and none of them denied (`Cleared`). `RewrittenByFacts` is the recursion over the list of rules. |

`PrefixLearningProofs`, under `PrefixAssumption` and `NoneAssumption`, for any calls, commands and keys, overlapping hooks, failing writes
and deaths:

| Theorem | States | Argument |
|---|---|---|
| `TypeCorrect` | `Spec => []TypeOK` | `Typed`, with `Placed`: steps and exits belong to phases. |
| `ProbesNeverDouble` | `Spec => []OneProbePerCommand` | `LearnInv`: every list of probes *anywhere*, in the file or in a process's memory, is `Clean`. A stale write replaces one clean list by another. |
| `MappingsJustified` | `Spec => []MappingJustified` | `LearnInv` again: clean lists have only commands that were seen to fail (`Blamed`), and what ran and how it ended never changes once it is over (`Settled`). |
| `ProbesAlwaysAccounted` | `Spec => []ProbesAccounted` | `AccountInv`: the statistics and the probes balance up to what the one process that is between its two writes still owes (`Off`). |
| `ProbingHasItsRetry` | `Spec => []ProbingHasRetry` | `RetryInv`: a probe is made `Probing` by a call that carries it to its end, or that was skipped; `PrefixedInjective` says which. |

`BlockRecordsProofs`, under `RecordsAssumption`, for any finite set of processes and rules, with overlap and crashes:

| Theorem | States | Argument |
|---|---|---|
| `TypeCorrect` | `Spec => []RecordsTypeOK` | `Typed`, with `Timely`: the processes that are not over are no more than the instants the clock has left, so a commit is never without one; and `Past`: nothing is stamped later than now. |
| `EntriesAlwaysStay` | `Spec => EntriesStay` | `Past` makes the key of a commit a new one. `CutoffFacts`: a cutoff that does not wrap is a moment the age ago. |
| `CountsAlwaysJustified` | `Spec => []CountsJustified` | `CountInv`, per *file*: each file's count, and what each process holds for it, is at most the denials that were counted in that file (`DeniedAt`). A stale write replaces one such number by another. |
| `DenialsAlwaysOnRecord` | `Spec => []DenialsOnRecord` | `SerialInv`: with one process at a time each file has exactly the denials of that file, except between truncate and write, when the process holds them; `LogInv`: who is over is in the log or was pruned. |
| `ReportsAlwaysShowNewest` | `Spec => []ReportsShowNewest` | `VisitCovers`, by induction over the walk: what was found so far is the newest of what is wanted, newest first, and all of it until the limit. `SeqsListAll`: there is a newest-first list of the keys of any log. For the tables, `DatedInv`: a rule has a count if and only if it has a last time. |

`HookWorkProofs`, under `PipeAssumption`, for pipes of any capacity, inputs of any length, documents and hooks files with
any number of odd fields and entries, configuration files with any number of rules, commands with any number of
arguments, outputs, scripts, fields and messages of any length, any number of findings and firings, and every day after
1970. `WorkInv` is the invariant of all but the last theorem: each topic's `work` is of the type in `WorkTyped`, which has none of
the bounds of `MCHookWork`, and of the days, that the heat map has as many firings as there were. The promises are
lemmas about one value of that type:

| Theorem | States | Argument |
|---|---|---|
| `OutputAlwaysReadWhole` | `PipeSpec => []OutputReadWhole` | `PipeInv`: no unit gets lost between two counters (`Conserved`), the input is written whole unless the child is gone (`WrittenWhole`), a child that succeeded has answered all it took (`AnsweredWhole`), and the hook reads until the pipe is empty (`ReadToTheEnd`). |
| `OutputOfHooksReadWhole` | `Spec => []OutputReadWhole` | the same of the specification that TLC runs: another topic leaves the pipes as they began. |
| `EntryPointsAlwaysAgree` | `Spec => []EntryPointsAgree` | `WorkInv`: whatever grew is a document, an environment or a profile of the types in `WorkTyped`, where TLC has at most `MaxOdd` fields that are not as they should be. What each entry point denies is then a formula on the document and the files (`PreDenies`, `ClaudeDenies`, `ChainDenies`, `OpenCodeDenies`), and `TypedIsUntyped` compares the readers. |
| `InstalledHooksAlwaysArrive` | `Spec => []InstalledHooksArrive` | `WorkInv` again: the hooks file of an installation is a set of typed entries, of any size. One lemma per promise: of `crs validate-hooks`, of the plugin's events, of its tool calls. |
| `LayersAlwaysHold` | `Spec => []LayersHold` | `ProjectAlwaysAddsOnly`: what a project has is behind the user's rules, so the first denial of theirs is still the first (`FirstDenialStands`), and what the allowlist leaves of it is harmless (`AllowedIsHarmless`). `ReportsAlwaysWhatCannotWork`: the numbers validation gives to the rules of a layer are those of the loaded list (`SourcesAreCounted`). `ProjectFiltersAlwaysSupplement`, `ChainAlwaysReadsTheSameFiles`: by the states a file can be in. |
| `SwapsAlwaysShowOnlyWhatIsAsked` | `Spec => []SwapsShowOnlyWhatIsAsked` | `SwapsAlwaysShowWhatIsAsked`, for files of any size: the limit that a budget pays for (`LimitsArePaidFor`, the one place with a division by a width) and the limit that was asked for are both kept (`ClampedReads`). |
| `FailuresStayAlwaysVisible` | `Spec => []FailuresStayVisible` | `ShapingAlwaysKeepsFailures`: what each mode keeps are lines of the output, in their order (`OnlyPassing`), all of those that pass, and what is left out is counted (`KeptPassing`). `RedactionAlwaysHolds`: shaping takes lines of the redacted text. `PlacesAreAlwaysRight`: the bytes before each character grow (`BytesBefore`), so there is one character an offset falls in, and one line that it is on. `ScriptsAreAlwaysChecked`. |
| `ToolsAlwaysAddOnly` | `Spec => []ToolsAddOnly` | `DiscoverAlwaysKeeps`: what is written is what the file had, with labels behind it that it did not have (`WritingAppends`), and a second run finds them all there. `ToolsAlwaysFailOpen`. |
| `PrintedReportsAlwaysHold` | `Spec => []PrintedReportsHold` | `HeatAlwaysAddsUp`: a firing is one more in one cell of the grid (`HeatGrows`), so the sum is an invariant. `RowsAlwaysLineUp`: a cell fits its column, however it was cut (`CellsFit`, by the bytes of beginnings, `SlicesShow`), and filling up keeps what it shows. `TextAlwaysTells`: each rounded number is at most 50 off, and so is their sum for each (`SumsAreNear`). `MessagesAlwaysCutLate`. Frictions are below 10^8, the width of their column. |
| `DatesAlwaysFollow` | `\A days \in Nat : DatesFollowTheCalendar(days)` | not an induction: the day of an era of 400 years is in the year that `YearOfEra` finds (`DaysHaveYears`, by how many leap days were taken off), in that one only (`YearOfDay`), and the year after begins where it ends (`YearsFollow`); `DaysHaveMonths` is the same for the line that months follow from. So tomorrow is the next day of the month, the next month or, with the last of February, the next year (`DatesFollowInAYear`), and after 146097 days all begins again (`LeapYearsComeAgain`). |

`OpenCodeSessionsProofs`, under `SessionAssumption`, for any finite set of sessions, any arrangement of parents and any number
of events:

| Theorem | States | Argument |
|---|---|---|
| `TypeCorrect` | `Spec => []TypeOK` | inductive as it stands. |
| `EndsOnce`, `DisposalEndsAll`, `StopsApart`, `StartsFirst` | `[]` of `EndsAtMostOnce`, `EndsAfterDisposal`, `OneStopPerCycle`, `StartsOnceAndFirst` | `Sound(s)` ties a session's history to the three maps: `ended` is who has an end in its log, a tracked session has a start and an unborn one no history, a started root is tracked or ended, and who is tracked and not stopped was busy since its last stop. One lemma per event; a session the event is not about is `Untouched`. |

`DenialJustified` is not inductive: it says nothing of the states that a later denial will be computed from. `EvidenceInv`
is what an interleaving preserves. `CountsJustified` is not either: with the sum of both files it does not say of which file
a process will write its count.

`RecursionTheorems` has what the other modules need of induction: the least and the largest of some numbers, what holds up to
`n` (`UpTo`, with the predicate as a set), and that a recursive function over `0..n` is what its equation says, which the
library states with an operator parameter: `Computes` has the step as a function. On these stand the lemmas on
`Selections`: what is `Kept` are the elements at those indices in their order, what is `Joined` are the elements of all, a sum
grows by one number after the other (`SummedGrows`) and says how many bytes a text has. The model's recursions are
therefore functions: `Records` (`SuggestionStore`), `RewrittenBy` (`HookDispatch`), `Found` in `Query` (`BlockRecords`), those of
`Selections`, and the readers of `HookConfig` and `ExternalTools`, which keep, join and sum.

What the proofs found out about the models: a `CASE` whose arms overlap means any of the true ones, where TLC takes the
first. The entry points and cells that were written so return early in the code, and are `IF`s now, or have arms that exclude
each other (`ChainOutcome`, `OpenCodePre`, `ProbeVerdict`, `CellText`).

Only model-checked:

- `CommandsTakenApart`, `DenialsHoldInChains`, `RewritesKeepCommands` and `TranscriptsAddUp` of `hook_work`: what a scanner of
  quotes, an expansion or a sort computes for every text would need an induction for each of them, over folds
  of the community modules whose recursion has no theorem (`FoldFunction`, `SortSeq`, `SetToSortSeq`);
- liveness (`HooksEnd`, `HookReturns`) and with it the fairness of the specifications: the prover has no `ENABLED`.

## Where the code and its documentation disagree

| Run | What it shows |
|---|---|
| `store_torn` | "Atomically save state to a file path via tmp+rename" (`core/src/store.rs:35`): all saves share one temporary path, and two overlapping saves publish an empty or mixed file. |
| `capture_undecodable` | "Silently skips malformed lines" (`core/src/analyze/capture.rs:238`): a line that is not UTF-8 fails the load, and with it every later record. |
| `dispatch_unknown` | "a timeout must never read to the agent as a clean pass" (`src/docs/opencode.md:96`): an `on-success` rule fires on an unknown exit. |
| `plain_commands` | "plain command must pass through" (`core/tests/conformance_var_expander.rs:27`): the `~` of `git show HEAD~` is expanded, and a character outside ASCII comes out as several. |

Seen on the way, without a run of its own.

What is printed:

- `trunc` and `format_insight_row` (`coursers/src/crs_commands.rs:2372`, `:2440`) cut at a byte. A field that is too long and has a
  character of several bytes across the cut panics, and `crs insights` ends in the middle of its table;
  `format_insight_row_truncates_long_fields` (line 2971) has letters of one byte only. The examples of `crs discover` (line
  1726) are cut likewise, in its other text form (line 1583) and in the previews of `crs history` (line 2062) too, which are not
  modelled; `truncate_display` (line 939) goes back to the start of the character.

Redaction:

- "Redact first makes coverage unconditional" (`coursers/src/crs_commands.rs:856`): `cmd_hook` answers a denial or a rewrite by
  another rule of the post event before it comes to the replaced output (lines 895 and 904), and the harness shows the raw
  one. `RedactionSurvives` states this case exactly; the adapter of OpenCode merges and has no such case.
- `cmd_filter` emits one thing (`coursers/src/crs_commands.rs:356`): when a prefix was learnt or a retry is proposed it says that,
  and the output it has redacted is not emitted. `RedactionHolds` and its theorem except that answer.

Failures and denials:

- The count in "has failed {count} times in the last {window} minutes" (`core/src/state.rs:113`) includes timestamps outside the
  window when the state was not pruned, as on the chain.
- `enabled` "Toggle the whole subsystem" (`src/README.md:184`): the chain's observer records when it is off; `crs post` learns
  with the defaults when the rules file cannot be read.
- "all observers always run" (`core/src/hook/chain.rs:20`): a hook's error returns first. `crs hook` for Claude Code records
  no failure at all.
- `cmd_filter` and the legacy post-hook read an exit nobody reported as 0, so the timeout of a retry confirms its
  prefix; `MappingJustified` therefore counts an unknown exit. A retry whose output a filter suppresses leaves its
  probe `Probing` for good, which `ProbingHasRetry` allows for through `skipped`. A mapping that `crs audit --remove` removed
  may be put back by a retry that is already running.
- A missing rules file makes the OpenCode adapter exit with 1, which the plugin takes for an allow, and skips the
  denials of `hooks.toml`; `crs pre` takes it for no rules. The state path has another precedence in `crs hook`
  than in `crs pre` and `crs post`; `filter`, `rewrite` and `stats` drop the profile flags.

Rules and commands:

- `pipeline.rs:287` says a project's rules are appended last so they can override; the first denial wins.
- `pipeline.rs:587` says `$VAR` is expanded; only `${VAR}` is. `${target}` in a rewrite is an environment variable, and a
  placeholder inside a target's own text is expanded like the message's. An unknown exit is 0 for `when` and stays
  a placeholder in a message. A rewrite of an Edit call writes the path into `command`.
- A `[tool_swap]` table without filters makes a filters file unreadable, and all its filters are lost, contrary to the comment at
  `filters.rs:131`. The profile's loader reads the nearer filters file only, `filters::load` merges.
- `pipe_stages` knows no escape outside quotes. The tool swap is off by one for `tail` of a file without a final
  newline, shows only the last of several files, and takes the pattern of `find -name x` for a directory.
- `validate` passes a `run` command whose program is empty; `crs validate` says "All rules OK" of an unreadable file and
  ignores targets; `crs probe` ignores segments and targets.
- "use the same logic as the pre-tool hook, including exception evaluation, so discover matches what actually fires"
  (`core/src/analyze/history.rs:141`): `crs discover` and `crs replay` ask about the whole command (`matched_rule_id`, `check`:
  `core/src/rules.rs:94`, `:102`), the hook `check_pipeline` about each segment (line 143). A chain that is denied for one of its
  segments, by an anchored rule or because an exception is in another segment, is reported as unhandled, or as not blocked.
  `ReportsAddUp` confines this to chains; the transcripts of `hook_work` have one, `c;a` under a rule for what starts with `a`.

Reports:

- The log query with an upper bound stops at the first entry that is too new (hazard at `log.rs:160`).
- A suggestion's label with `: ` in it makes a project's redaction filters unparsable, and all of them are lost; one with a
  trailing blank is appended in every run. `ProcessRtkClient::probe` answers for a missing rtk where `rtk/process.rs:5` says it
  gives none.
- `crs replay` takes the first Bash call of a line only; `crs insights` needs the directory on a transcript's first line, where
  `insights.rs` itself says that line has none; `crs history` shows the newest failure beside every rule.
- `crs nu-check` says "ok (0 files)" of a directory that does not exist. The text form of `crs suggest` enables a rule that its JSON form
  does not, and has no targets.

## Not modelled

- **Text below a character.** Regular expressions, the words of names and file contents are abstracted to members of small
  sets. The AST of `parse/ast.rs` is an external parser's.
- **Layout and wording**: the columns of `crs stats`, `log`, `history` and `heat`, colours, JSON layout beyond the fields that decide, the help texts.
- **Programs outside the repository**: obfsck, rtk, `prefixe`, the shell, git and the harnesses are modelled by what the code
  makes of their answers. The `crs rx` subcommands that print or set a mapping by hand are left out.
- **Other tools than Bash and the lifecycle events** in `HookDispatch`: they run the same pipeline with no stage in front
  of it. The prompt, permission and compaction handlers of the plugin run a hook and keep nothing.
- **Export and summary of the suggestion dataset**: they only read it.
- **Argument parsing, xtask, the end-to-end harness**: no state of the hooks and no order to get wrong.
- **The clock** only moves forward in the model. `SaturatingSub` is kept, and a process may hold a
  time-stamped state while the clock moves on, but a clock set back is not an action.
