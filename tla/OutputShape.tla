----------------------------- MODULE OutputShape -----------------------------
(***************************************************************************)
(* What the filter rules keep of a command's output                        *)
(* (core/src/hook/filter_logic.rs).  A text is its lines, whether the last *)
(* one ends in a newline, and how many lines a truncation says it left     *)
(* out.  A line is one with "error" in it, one that the rule's expression  *)
(* matches, both, or plain.                                                *)
(***************************************************************************)
EXTENDS Selections, SequencesExt, FiniteSetsExt

Lines == {"plain", "error", "matched", "both"}
IsError == {"error", "both"}
IsMatched == {"matched", "both"}

Text(lines, ended) == [lines |-> lines, ended |-> ended, omitted |-> 0]

\* The lines a test lets through, joined: nothing when there are none.
Only(text, passing) ==
    LET kept == Kept(text.lines, {k \in DOMAIN text.lines : text.lines[k] \in passing})
    IN IF kept = <<>> THEN <<>> ELSE <<Text(kept, FALSE)>>

Truncated(text, max) ==
    IF Len(text.lines) <= max THEN text
    ELSE [lines |-> SubSeq(text.lines, 1, max), ended |-> FALSE,
          omitted |-> Len(text.lines) - max]

\* Mutation of ApplyFilter: match-lines does not look at the exit code.
ApplyAlways(text, exit, rule) ==
    CASE rule.mode = "passthrough" -> <<text>>
      [] rule.mode = "failures-only" -> IF exit # 0 THEN <<text>> ELSE <<>>
      [] rule.mode = "errors-only" -> Only(text, IsError)
      [] rule.mode = "truncate" -> <<Truncated(text, rule.max)>>
      [] rule.mode = "match-lines" ->
            IF rule.expression # "valid" THEN <<text>> ELSE Only(text, IsMatched)

\* The text a rule makes of an output, or nothing.  A match-lines rule without
\* an expression, or with one that does not compile, changes nothing.
ApplyFilter(text, exit, rule) ==
    CASE rule.mode = "passthrough" -> <<text>>
      [] rule.mode = "failures-only" -> IF exit # 0 THEN <<text>> ELSE <<>>
      [] rule.mode = "errors-only" -> Only(text, IsError)
      [] rule.mode = "truncate" -> <<Truncated(text, rule.max)>>
      [] rule.mode = "match-lines" ->
            IF exit # 0 \/ rule.expression # "valid" THEN <<text>> ELSE Only(text, IsMatched)

\* find_rule: the first whose pattern matches the command; one that does not
\* compile matches none.
FindRule(rules) ==
    LET matching == {k \in DOMAIN rules : rules[k].matches = "yes"}
    IN IF matching = {} THEN <<>> ELSE <<rules[Min(matching)]>>

Outcome(kind, text) == [kind |-> kind, text |-> text]

RunFilter(text, exit, rules) ==
    LET rule == FindRule(rules)
        made == ApplyFilter(text, exit, rule[1])
    IN IF rule = <<>> THEN Outcome("passthrough", text)
       ELSE IF made = <<>> THEN Outcome("suppress", Text(<<>>, FALSE))
       ELSE IF made[1] = text THEN Outcome("passthrough", text)
       ELSE Outcome("replace", made[1])

UnknownExit == 256      \* no exit code at all

\* An unknown exit is filtered as a success but suppresses nothing.
ShapeCommandOutput(text, exit, rules) ==
    LET result == RunFilter(text, IF exit = UnknownExit THEN 0 ELSE exit, rules)
    IN CASE result.kind = "passthrough" -> Outcome("unchanged", text)
         [] result.kind = "replace" -> Outcome("replaced", result.text)
         [] result.kind = "suppress" ->
               IF exit # UnknownExit THEN Outcome("suppressed", result.text)
               ELSE Outcome("unchanged", text)

\* FilterHook::run (concrete.rs), the same in the chain, with a guard of its own;
\* a suppressed output is replaced by nothing.
FilterHook(text, exit, rules) ==
    LET result == RunFilter(text, IF exit = UnknownExit THEN 0 ELSE exit, rules)
    IN IF result.kind = "passthrough" \/ (result.kind = "suppress" /\ exit = UnknownExit)
       THEN Outcome("allow", text) ELSE Outcome("filter", result.text)

-----------------------------------------------------------------------------
(* Properties *)

IsSubsequence(short, long) == \E indices \in SUBSET (DOMAIN long) : Kept(long, indices) = short

\* apply_filter and shape_command_output: what the agent is shown are lines of
\* the output in their order, none is left out of a failure but by errors-only
\* and truncate, errors-only never drops an error, and a truncated text says
\* how many lines it lacks.  The chain's filter shows the same.
ShapingKeepsFailures(text, exit, rules) ==
    LET shaped == ShapeCommandOutput(text, exit, rules)
        rule == FindRule(rules)
        failed == exit \notin {0, UnknownExit}
    IN /\ IsSubsequence(shaped.text.lines, text.lines)
       /\ failed /\ rule # <<>> /\ rule[1].mode \notin {"errors-only", "truncate"}
             => shaped.kind = "unchanged"
       /\ exit = UnknownExit => shaped.kind # "suppressed"
       /\ rule # <<>> /\ rule[1].mode = "errors-only" =>
             Only(shaped.text, IsError) = Only(text, IsError)
       /\ shaped.text.omitted > 0
             => Len(shaped.text.lines) + shaped.text.omitted = Len(text.lines)
       /\ LET chain == FilterHook(text, exit, rules)
          IN /\ chain.text = shaped.text
             /\ (chain.kind = "allow") <=> (shaped.kind = "unchanged")

=============================================================================
