------------------------------ MODULE HookEntry ------------------------------
(***************************************************************************)
(* How the entry points read the JSON on their stdin and what they answer: *)
(* `crs pre`, `crs post` and `crs filter`, their variant on the hook chain *)
(* (hook/chain_runner.rs), `crs hook` for Claude Code (crs_commands.rs)    *)
(* and for OpenCode (opencode.rs).                                         *)
(*                                                                         *)
(* A document is what stdin holds: of a field it matters whether it is     *)
(* there, null, of a type nobody expects, empty, or good.  A world is what *)
(* the files say of the command: whether rules and filters can be read,    *)
(* which form of the command a rule blocks, whether a rewrite applies,     *)
(* whether a hook rule denies every Bash call or this command, and whether *)
(* the rules file has failures learnt.  No failure was learnt yet.         *)
(***************************************************************************)
EXTENDS Naturals, Sequences, FiniteSets

NoExit == 999       \* no exit code, or one that is no integer
SignalExits == {130, 137, 143}

\* What a field may hold.
Fields ==
    [shape |-> {"empty", "garbled", "value", "object"},
     tool |-> {"absent", "null", "wrong", "empty", "Bash", "Edit"},
     input |-> {"absent", "null", "wrong", "object"},
     command |-> {"absent", "null", "wrong", "empty", "good"},
     path |-> {"absent", "good"},
     ids |-> {"good", "wrong"},
     response |-> {"absent", "null", "wrong", "object"},
     exit |-> {NoExit, 0, 1, 130},
     output |-> {"absent", "null", "empty", "good"},
     stdout |-> {"absent", "null", "empty", "good"}]

NextDocuments(doc) == UNION {{[doc EXCEPT ![f] = value] : value \in Fields[f]} : f \in DOMAIN Fields}

\* What a harness sends of a Bash call.
ProperDocument ==
    [shape |-> "object", tool |-> "Bash", input |-> "object", command |-> "good",
     path |-> "absent", ids |-> "good", response |-> "object", exit |-> 0,
     output |-> "good", stdout |-> "absent"]

FileStates == {"absent", "malformed", "valid"}
Worlds == [rules : FileStates, filters : FileStates, blocked : SUBSET {"typed", "rewritten"},
           rewrites : BOOLEAN, denies : {"nothing", "tool", "command"},
           learns : BOOLEAN, protocol : {"claude", "codex"}]

-----------------------------------------------------------------------------
(* Reading *)

\* serde_json into HookPayload: one field of another type and there is no
\* payload; null is as good as absent.
TypedPayload(doc) ==
    /\ doc.shape = "object"
    /\ doc.tool # "wrong" /\ doc.ids # "wrong"
    /\ doc.input # "wrong" /\ (doc.input = "object" => doc.command # "wrong")

\* The command of a Bash call, for `crs pre`, `post` and `filter`.
TypedCommand(doc) ==
    /\ TypedPayload(doc)
    /\ doc.tool = "Bash" /\ doc.input = "object" /\ doc.command = "good"

\* The same, field by field, for the chain.
UntypedCommand(doc) ==
    /\ doc.shape = "object"
    /\ doc.tool = "Bash" /\ doc.input = "object" /\ doc.command = "good"

\* cmd_hook's target: a command that is there but no text hides the path.
HookTarget(doc) ==
    IF doc.shape # "object" \/ doc.input # "object" THEN "none"
    ELSE IF doc.command # "absent"
    THEN CASE doc.command = "good" -> "command" [] doc.command = "empty" -> "empty"
           [] OTHER -> "none"
    ELSE IF doc.path = "good" THEN "path" ELSE "none"

\* run_hook (opencode.rs) refuses what is not a proper request.
ValidRequest(doc, event) ==
    /\ doc.shape = "object"
    /\ doc.tool \in {"Bash", "Edit"}
    /\ doc.input = "object"
    /\ doc.tool = "Bash" => doc.command = "good"
    /\ event = "post" => /\ doc.response = "object"
                         /\ doc.output \in {"empty", "good"}

ResponseField(doc, field) ==
    IF doc.shape = "object" /\ doc.response = "object" THEN field ELSE "absent"
ExitCode(doc) ==
    IF doc.shape = "object" /\ doc.response = "object" THEN doc.exit ELSE NoExit

\* Value::as_str, as a sequence of the texts it gives.
AsText(field, name) == IF field = "good" THEN <<name>> ELSE <<>>

\* extract_output (protocol.rs): both texts, joined.
ExtractOutput(doc) ==
    AsText(ResponseField(doc, doc.stdout), "stdout") \o AsText(ResponseField(doc, doc.output), "output")

\* cmd_hook: the output if there is one of any type, or else stdout.
HookOutput(doc) ==
    IF ResponseField(doc, doc.output) # "absent"
    THEN AsText(ResponseField(doc, doc.output), "output")
    ELSE AsText(ResponseField(doc, doc.stdout), "stdout")

-----------------------------------------------------------------------------
(* Answering before the tool *)

Silent == [exit |-> 0, says |-> "nothing"]
Rewriting == [exit |-> 0, says |-> "rewrite"]
Fails == [exit |-> 1, says |-> "nothing"]

\* deny_response: the exit code is the protocol's.
Deny(protocol) == [exit |-> IF protocol = "claude" THEN 2 ELSE 0, says |-> "deny"]

\* load (rules.rs) for `crs hook`, and run_with of a profile's: rules that are not
\* there or cannot be parsed are none, and failures are learnt as by default.
LoadedRules(w) ==
    IF w.rules = "valid" THEN [blocked |-> w.blocked, learns |-> w.learns]
    ELSE [blocked |-> {}, learns |-> TRUE]

RuleBlocks(w, form) == form \in LoadedRules(w).blocked

\* `crs pre`: rules that cannot be read are none.
CrsPre(doc, w) ==
    IF TypedCommand(doc) /\ RuleBlocks(w, "typed") THEN Deny(w.protocol) ELSE Silent

\* Mutation of ChainOutcome: RuleBlockHook takes unreadable rules for none.
ChainOutcomeLenient(w) ==
    LET form == IF w.filters = "valid" /\ w.rewrites THEN "rewritten" ELSE "typed"
    IN IF w.filters = "malformed" THEN "error"
       ELSE IF RuleBlocks(w, form) THEN "deny"
       ELSE IF form = "rewritten" THEN "rewrite" ELSE "allow"

\* HookChain::run_pre: RewriteHook and RuleBlockHook fail on a file they
\* cannot parse, and the latter on one that is not there.
ChainOutcome(w) ==
    LET form == IF w.filters = "valid" /\ w.rewrites THEN "rewritten" ELSE "typed"
    IN IF w.filters = "malformed" \/ w.rules # "valid" THEN "error"
       ELSE IF RuleBlocks(w, form) THEN "deny"
       ELSE IF form = "rewritten" THEN "rewrite" ELSE "allow"

\* chain_runner::run_pre: an error is a line on stderr.
CrsPreChain(doc, w) ==
    CASE ~UntypedCommand(doc) \/ ChainOutcome(w) \in {"error", "allow"} -> Silent
      [] OTHER -> IF ChainOutcome(w) = "deny" THEN Deny(w.protocol) ELSE Rewriting

\* A hook rule with the matcher Bash, and a pattern that the command matches.
HookRuleDenies(w, tool, target) ==
    /\ tool = "Bash"
    /\ w.denies = "tool" \/ (w.denies = "command" /\ target = "command")

\* cmd_hook, pre-tool-use, for Claude Code.
ClaudeHookPre(doc, w) ==
    LET tool == IF doc.shape = "object" THEN doc.tool ELSE "absent"
    IN IF \/ tool = "Bash" /\ TypedCommand(doc) /\ RuleBlocks(w, "typed")
          \/ HookRuleDenies(w, tool, HookTarget(doc))
       THEN Deny("claude") ELSE Silent

\* run_hook, pre-tool-use: the chain, whose error is the adapter's, and the
\* pipeline on what the chain made of the command.
OpenCodePre(doc, w) ==
    LET outcome == IF doc.tool = "Bash" THEN ChainOutcome(w) ELSE "allow"
    IN IF ~ValidRequest(doc, "pre") \/ outcome = "error" THEN Fails
       ELSE IF outcome = "deny" \/ HookRuleDenies(w, doc.tool, HookTarget(doc))
       THEN [exit |-> 0, says |-> "deny"]
       ELSE IF outcome = "rewrite" THEN Rewriting ELSE Silent

-----------------------------------------------------------------------------
(* What the post-hooks make of an end: learn a failure, accept a suggestion *)

\* Mutation of CrsPost: any exit that is not zero is a failure.
CrsPostAnyExit(doc, w) ==
    IF ~TypedCommand(doc) THEN {}
    ELSE IF ExitCode(doc) # 0 THEN {"failure"} ELSE {"accepted"}

\* `crs post`: no exit code is read as zero, signals are no failures, and a
\* rules file that cannot be read has failures learnt.
CrsPost(doc, w) ==
    IF ~TypedCommand(doc) THEN {}
    ELSE IF ExitCode(doc) \in {0, NoExit} THEN {"accepted"}
    ELSE IF ExitCode(doc) \notin SignalExits /\ LoadedRules(w).learns THEN {"failure"}
    ELSE {}

\* FilterHook and FailureObserver in the chain: filters that do not parse keep
\* the observer from running, it fails without rules, and it does not ask
\* whether failures are to be learnt.
ChainPost(w, exit) ==
    IF w.filters # "malformed" /\ w.rules = "valid" /\ exit \notin {0, NoExit}
    THEN {"failure"} ELSE {}

CrsPostChain(doc, w) == IF UntypedCommand(doc) THEN ChainPost(w, ExitCode(doc)) ELSE {}

OpenCodePost(doc, w) ==
    IF ValidRequest(doc, "post") /\ doc.tool = "Bash" THEN ChainPost(w, ExitCode(doc)) ELSE {}

-----------------------------------------------------------------------------
(* Properties *)

\* The entry points, on any document: no call is stopped that neither a rule
\* nor a hook rule denies, and an exit code of 2, which Claude Code takes for a
\* block, never comes without a denial said.  What `crs pre` denies, `crs hook`
\* does too, and so do the chain and OpenCode, unless a rewrite came between or
\* the filters do not parse; and on what a harness sends, these four agree.  With
\* files that cannot be used, neither the chain nor OpenCode says anything.
EntriesAgree(doc, w) ==
    LET answers == {CrsPre(doc, w), CrsPreChain(doc, w), ClaudeHookPre(doc, w), OpenCodePre(doc, w)}
        ruled == {CrsPre(doc, w), CrsPreChain(doc, w)}
        plain == w.filters # "malformed" /\ ~(w.filters = "valid" /\ w.rewrites)
        Denies(answer) == answer.says = "deny"
    IN /\ \A answer \in answers :
             /\ Denies(answer) => (w.rules = "valid" /\ w.blocked # {}) \/ w.denies # "nothing"
             /\ answer.exit = 2 => Denies(answer)
       /\ Denies(CrsPre(doc, w)) => /\ Denies(ClaudeHookPre(doc, w))
                                    /\ plain => /\ Denies(CrsPreChain(doc, w))
                                                /\ Denies(OpenCodePre(doc, w))
       /\ TypedCommand(doc) /\ plain /\ w.denies = "nothing" =>
             Cardinality({Denies(answer) : answer \in answers}) = 1
       /\ UntypedCommand(doc) /\ ("malformed" \in {w.filters, w.rules} \/ w.rules = "absent") =>
             OpenCodePre(doc, w) = Fails /\ CrsPreChain(doc, w) = Silent

\* The post-hooks: a failure is learnt only from an exit code that is known and
\* not zero, and by the chain only with rules to say how; where all files are
\* good and learning is on, the three that learn agree on every exit but a
\* signal; and a text that a harness gives in one field is the same text to all.
EndsReadAlike(doc, w) ==
    LET Learns(effects) == "failure" \in effects
        chain == Learns(CrsPostChain(doc, w))
    IN /\ Learns(CrsPost(doc, w)) \/ chain \/ Learns(OpenCodePost(doc, w)) =>
             doc.response = "object" /\ doc.exit \notin {0, NoExit}
       /\ chain => w.rules = "valid"
       /\ TypedCommand(doc) /\ w.rules = "valid" /\ w.learns /\ w.filters # "malformed"
             /\ doc.exit \notin SignalExits =>
                /\ Learns(CrsPost(doc, w)) = chain
                /\ ValidRequest(doc, "post") => Learns(OpenCodePost(doc, w)) = chain
       /\ "absent" \in {doc.output} \cup {doc.stdout} => HookOutput(doc) = ExtractOutput(doc)
       /\ ValidRequest(doc, "post") => HookOutput(doc) = AsText(doc.output, "output")

=============================================================================
