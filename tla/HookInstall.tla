----------------------------- MODULE HookInstall -----------------------------
(***************************************************************************)
(* From an event of a harness to the program that handles it: the events   *)
(* `crs hook` knows, what the OpenCode plugin sends it, the hooks file of  *)
(* Codex and the backends it leads to, and what `crs validate-hooks` says  *)
(* of an installation (coursers/src/crs_commands.rs, opencode.rs,          *)
(* integrations/opencode/coursers.ts).  The documents are those of         *)
(* HookEntry.                                                              *)
(***************************************************************************)
EXTENDS HookEntry

ToolEvents == {"pre-tool-use", "post-tool-use"}

\* parse_hook_event.
HookEvents == ToolEvents \cup
    {"session-start", "session-end", "permission-request", "pre-compact", "post-compact",
     "user-prompt-submit", "subagent-start", "stop", "subagent-stop"}

-----------------------------------------------------------------------------
(* OpenCode *)

\* The names the plugin gives the tools whose rules are written for Claude Code.
NormalizeToolName(tool) ==
    CASE tool = "bash" -> "Bash" [] tool = "edit" -> "Edit" [] tool = "write" -> "Write"
      [] OTHER -> tool

\* Mutation of NormalizeToolInput: a path keeps the name OpenCode gives it.
KeepFilePath(args) == args

\* normalizeToolInput: a filePath is called file_path, whatever was there.
NormalizeToolInput(args) ==
    [args EXCEPT !.filePath = "absent",
                 !.file_path = IF args.filePath # "absent" THEN args.filePath ELSE @]

\* tool.execute.before and tool.execute.after: the document the plugin writes for
\* a call [tool, args, exit, output].  An exit that is no number is sent as null,
\* and "Edit" stands for every tool but Bash.
PluginDocument(call, event) ==
    LET input == NormalizeToolInput(call.args)
        after == event = "post"
    IN [shape |-> "object",
        tool |-> IF NormalizeToolName(call.tool) = "Bash" THEN "Bash" ELSE "Edit",
        input |-> "object", command |-> input.command, path |-> input.file_path,
        ids |-> "good", response |-> IF after THEN "object" ELSE "absent",
        exit |-> IF after THEN call.exit ELSE NoExit,
        output |-> IF after THEN call.output ELSE "absent", stdout |-> "absent"]

\* What the plugin calls the bridge with: the event, and how its payload names
\* the target.
PluginCalls ==
    ToolEvents \X {"tool_input"}
        \cup {"session-start", "subagent-start", "session-end", "stop", "subagent-stop",
              "post-compact", "user-prompt-submit", "permission-request"} \X {"target"}
        \cup {"pre-compact"} \X {"none"}

\* defaultBridge and callBridge: an answer that can be read is taken whatever
\* the exit code, and anything else allows.
BridgeDecision(answer) ==
    IF answer.parsed /\ answer.decision \in {"allow", "deny"} THEN answer.decision ELSE "allow"

\* The handlers of which events stop what they were asked about.
Stoppable == {"pre-tool-use", "user-prompt-submit", "permission-request"}
PluginStops(event, answer) == event \in Stoppable /\ BridgeDecision(answer) = "deny"

\* validate_installation: of the project's and the user's directory, the first
\* in which any of the two files is.
InstallDir(files) ==
    IF files["project"] # {} \/ files["global"] = {} THEN "project" ELSE "global"
OpenCodeValid(files, binaries) ==
    files[InstallDir(files)] = {"plugin", "declaration"} /\ {"crs", "opencode"} \subseteq binaries

-----------------------------------------------------------------------------
(* Codex *)

NoMatcher == "none"
Entry(event, matcher) == [event |-> event, matcher |-> matcher, runs |-> event]

\* codex_expected_hooks: each runs `crs hook --target codex <event>`.
ExpectedHooks ==
    {Entry("session-start", "startup|resume"), Entry("pre-tool-use", "Bash"),
     Entry("post-tool-use", "Bash"), Entry("post-tool-use", "Edit|Write")}
        \cup {Entry(event, NoMatcher) :
                 event \in {"permission-request", "pre-compact", "post-compact",
                            "user-prompt-submit", "subagent-start", "subagent-stop", "stop"}}

\* Mutation of MissingHooks: an entry of the event will do.
MissingByEvent(installed) ==
    {h \in ExpectedHooks : ~\E entry \in installed :
        entry.event = h.event /\ entry.runs = h.runs}

\* hook_array_contains_command: the matcher has to be the very text, or not be
\* there at all.
MissingHooks(installed) ==
    {h \in ExpectedHooks : ~\E entry \in installed :
        entry.event = h.event /\ entry.matcher = h.matcher /\ entry.runs = h.runs}

CodexValid(installed, binaries) ==
    MissingHooks(installed) = {} /\ {"coursers", "crs", "crux"} \subseteq binaries

\* codex_backend_filename, by the event and the tool.
Backend(event, tool) ==
    CASE event = "session-end" -> "none"
      [] event = "pre-tool-use" -> "pre-tool-use-bash"
      [] event = "post-tool-use" ->
            IF tool \in {"Edit", "Write"} THEN "post-tool-use-edit-write" ELSE "post-tool-use-bash"
      [] OTHER -> event

\* run_codex_backend: the backend's stdout and exit code are the hook's; one
\* that a signal ended, or that cannot be launched, is a failure.
CodexExit(event, tool, crux) ==
    IF Backend(event, tool) = "none" \/ crux.ended # "exit" THEN 1 ELSE crux.code
CodexPrints(event, tool, crux) ==
    Backend(event, tool) # "none" /\ crux.ended # "unlaunched" /\ crux.prints

\* cmd_hook, by its target.
HookTargetExit(target, event, tool, crux) ==
    IF event \notin HookEvents \/ target \notin {"claude", "codex", "opencode"} THEN 1
    ELSE IF target = "codex" THEN CodexExit(event, tool, crux) ELSE 0

-----------------------------------------------------------------------------
(* Properties *)

\* The tools a matcher of the hooks file lets through: Codex's regular
\* expressions, of which only these are expected.
ToolsOf(matcher) ==
    CASE matcher = "Bash" -> {"Bash"} [] matcher = "Edit|Write" -> {"Edit", "Write"}
      [] OTHER -> {"Bash", "Edit", "Write", "Read"}

\* All the backends there are, and those that an entry leads to.
CodexBackends ==
    {Backend(event, tool) : event \in HookEvents, tool \in {"Bash", "Edit"}} \ {"none"}
Reached(h) == {Backend(h.runs, tool) : tool \in ToolsOf(h.matcher)}

\* codex_expected_hooks, parse_hook_event and codex_backend_filename are three
\* tables written by hand: in a hooks file that `crs validate-hooks` accepts,
\* every entry asked for leads to a backend of its own, the same for all tools
\* its matcher lets through, whose exit code is the hook's; every backend is
\* reached; and with any one entry taken away the file is refused.
CodexHooksLeadSomewhere(installed, binaries, crux) ==
    CodexValid(installed, binaries) =>
        /\ \A h \in ExpectedHooks :
              /\ h.matcher # NoMatcher => Cardinality(Reached(h)) = 1
              /\ \A other \in ExpectedHooks : Reached(h) \cap Reached(other) # {} => other = h
              /\ ~CodexValid(installed \ {h}, binaries)
              /\ \A tool \in ToolsOf(h.matcher) :
                    /\ HookTargetExit("codex", h.runs, tool, crux)
                          = IF crux.ended = "exit" THEN crux.code ELSE 1
                    /\ CodexPrints(h.runs, tool, crux)
                          = (crux.prints /\ crux.ended # "unlaunched")
        /\ UNION {Reached(h) : h \in ExpectedHooks} = CodexBackends

\* The plugin sends what `crs hook` understands, stops a call only on a denial
\* that it could read, and an installation passes only with both files side by
\* side, in the directory that wins.
PluginIsUnderstood(files, binaries, answer) ==
    /\ {call[1] : call \in PluginCalls} = HookEvents
    /\ \A event \in HookEvents :
          PluginStops(event, answer) => answer.parsed /\ answer.decision = "deny"
    /\ OpenCodeValid(files, binaries) =>
          /\ \E dir \in {"project", "global"} :
                /\ files[dir] = {"plugin", "declaration"}
                /\ dir = "global" => files["project"] = {}
          /\ {"crs", "opencode"} \subseteq binaries

\* coursers.ts and run_hook (opencode.rs) agree on what a request is: a tool call
\* as OpenCode makes it, with a command if it is Bash, is never refused; the rules
\* see its command or its path, the same before and after; and an exit that is
\* not known does not arrive as one.
PluginCallsAreRequests(call) ==
    LET before == PluginDocument(call, "pre")
        after == PluginDocument(call, "post")
    IN (NormalizeToolName(call.tool) = "Bash" => call.args.command = "good") =>
          /\ ValidRequest(before, "pre") /\ ValidRequest(after, "post")
          /\ HookTarget(before) = HookTarget(after)
          /\ call.args.command = "absent" /\ call.args.filePath = "good"
                => HookTarget(after) = "path"
          /\ call.args.command = "good" => HookTarget(after) = "command"
          /\ ExitCode(after) = call.exit

=============================================================================
