------------------------------- MODULE ToolSwap -------------------------------
(***************************************************************************)
(* The tool call that replaces a shell command that reads a file           *)
(* (core/src/hook/tool_swap.rs): cat, head and tail become Read, find      *)
(* becomes Glob.  An argument is a record [kind, value]: "lines" is -n or  *)
(* --lines, "count" is -N, "name" and "maxdepth" are flags of find,        *)
(* "complex" is one that find's swap refuses, "flag" any other; "file" and *)
(* "number" do not start with a dash.  A file has lines of one width.      *)
(***************************************************************************)
EXTENDS Naturals, SequencesExt, FiniteSetsExt

BytesPerToken == 4
DefaultLines == 10      \* DEFAULT_HEAD_TAIL_LINES
DefaultWidth == 80      \* DEFAULT_AVG_BYTES_PER_LINE

PassThrough == [tool |-> "none"]

IsFlag(arg) == arg.kind \notin {"file", "number"}

NoFile == [kind |-> "none", value |-> 0]

\* parse_n_file: the count that holds and the last file; an unknown flag, a
\* count that is no number and a missing file are no parse.
ParseNFile(args, default) ==
    LET Parse(ok, awaits, n, file) == [ok |-> ok, awaits |-> awaits, n |-> n, file |-> file]
        Take(p, arg) ==
            IF ~p.ok THEN p
            ELSE IF p.awaits THEN Parse(arg.kind = "number", FALSE, arg.value, p.file)
            ELSE IF arg.kind = "lines" THEN Parse(TRUE, TRUE, p.n, p.file)
            ELSE IF arg.kind = "count" THEN Parse(TRUE, FALSE, arg.value, p.file)
            ELSE IF IsFlag(arg) THEN Parse(FALSE, FALSE, p.n, p.file)
            ELSE Parse(TRUE, FALSE, p.n, arg)
        parsed[i \in 0..Len(args)] ==
            IF i = 0 THEN Parse(TRUE, FALSE, default, NoFile) ELSE Take(parsed[i - 1], args[i])
        end == parsed[Len(args)]
    IN [ok |-> end.ok /\ ~end.awaits /\ end.file # NoFile, n |-> end.n, file |-> end.file]

-----------------------------------------------------------------------------
(* A file: [readable, lines, width, partial], partial when its last line    *)
(* has no newline                                                           *)

LastLine(file) == IF file.partial /\ file.lines > 0 THEN 1 ELSE 0
Bytes(file) == file.lines * file.width - LastLine(file)
CountLines(file) == IF file.readable THEN file.lines - LastLine(file) ELSE 0
AvgBytesPerLine(file) == IF file.readable /\ file.lines > 0 THEN file.width ELSE DefaultWidth

\* compute_line_limit: as many lines as the budget pays for, one at least, and
\* Unlimited for a file within the budget and one that cannot be looked at.
Unlimited == 0
ComputeLineLimit(file, budget) ==
    IF ~file.readable \/ Bytes(file) \div BytesPerToken <= budget THEN Unlimited
    ELSE Max({1, (budget * BytesPerToken) \div Max({1, AvgBytesPerLine(file)})})

Clamp(n, file, budget) ==
    LET max == ComputeLineLimit(file, budget)
    IN IF max = Unlimited THEN n ELSE Min({n, max})

-----------------------------------------------------------------------------
(* The swaps; a Read has a limit only when hasLimit *)

Read(file, offset, hasLimit, limit) ==
    [tool |-> "Read", file |-> file, offset |-> offset, hasLimit |-> hasLimit, limit |-> limit]

\* cat with one argument that is no flag.
SwapCat(args, file, budget) ==
    IF Len(args) # 1 \/ (Len(args) = 1 /\ IsFlag(args[1])) THEN PassThrough
    ELSE LET limit == ComputeLineLimit(file, budget)
         IN Read(args[1], 0, limit # Unlimited, limit)

SwapHead(args, file, budget) ==
    LET parsed == ParseNFile(args, DefaultLines)
    IN IF ~parsed.ok THEN PassThrough
       ELSE Read(parsed.file, 0, TRUE, Clamp(parsed.n, file, budget))

\* Mutation of SwapTail: the offset is forgotten.
SwapTailFromStart(args, file, budget, tailMax) ==
    LET parsed == ParseNFile(args, DefaultLines)
    IN IF ~parsed.ok \/ parsed.n > tailMax THEN PassThrough
       ELSE Read(parsed.file, 0, TRUE, Clamp(parsed.n, file, budget))

\* tail, unless it asks for more than tail_limit_max lines.
SwapTail(args, file, budget, tailMax) ==
    LET parsed == ParseNFile(args, DefaultLines)
        total == CountLines(file)
    IN IF ~parsed.ok \/ parsed.n > tailMax THEN PassThrough
       ELSE Read(parsed.file, IF parsed.n > total THEN 0 ELSE total - parsed.n, TRUE,
                 Clamp(parsed.n, file, budget))

\* The argument behind the first that has this kind.
Follows(args, kind) ==
    LET at == {i \in DOMAIN args : args[i].kind = kind}
    IN IF at = {} \/ Min(at) = Len(args) THEN <<>> ELSE <<args[Min(at) + 1]>>

\* find: the first argument that is no flag is the directory.
SwapFind(args, depthMax) ==
    LET depth == Follows(args, "maxdepth")
        glob == Follows(args, "name")
        bare == {i \in DOMAIN args : ~IsFlag(args[i])}
    IN IF \/ \E i \in DOMAIN args : args[i].kind = "complex"
          \/ depth # <<>> /\ depth[1].kind = "number" /\ depth[1].value > depthMax
          \/ glob = <<>>
       THEN PassThrough
       ELSE [tool |-> "Glob", base |-> IF bare = {} THEN NoFile ELSE args[Min(bare)],
             glob |-> glob[1]]

\* apply_with, by the command's name.
Swap(name, args, file, config) ==
    CASE name = "cat" -> SwapCat(args, file, config.budget)
      [] name = "head" -> SwapHead(args, file, config.budget)
      [] name = "tail" -> SwapTail(args, file, config.budget, config.tailMax)
      [] name = "find" -> SwapFind(args, config.depthMax)
      [] OTHER -> PassThrough

-----------------------------------------------------------------------------
(* Properties *)

\* The lines a command prints of its only file, and those a Read shows, which
\* starts behind offset lines.
Asked(name, n, file) ==
    CASE name = "cat" -> 1..file.lines
      [] name = "head" -> 1..Min({n, file.lines})
      [] name = "tail" -> (IF n > file.lines THEN 1 ELSE file.lines - n + 1)..file.lines
Shown(read, file) ==
    {l \in 1..file.lines : l > read.offset /\ (read.hasLimit => l <= read.offset + read.limit)}

\* One argument names a file: the one behind -n is a count.
OneFile(args) ==
    Cardinality({i \in DOMAIN args : /\ ~IsFlag(args[i])
                                     /\ i = 1 \/ args[i - 1].kind # "lines"}) = 1

\* tool_swap::apply: the Read that replaces cat, head or tail of one file shows
\* nothing the command would not have printed, all of it when the file is within
\* the token budget, and no more than the budget pays for otherwise.  (A file
\* without a final newline is left out: there a tail is one line off.)
SwapShowsWhatIsAsked(name, args, file, config) ==
    LET swap == Swap(name, args, file, config)
        n == IF name = "cat" THEN 0 ELSE ParseNFile(args, DefaultLines).n
        asked == Asked(name, n, file)
        within == Bytes(file) \div BytesPerToken <= config.budget
    IN swap.tool = "Read" /\ file.readable /\ ~file.partial /\ OneFile(args) =>
          /\ Shown(swap, file) \subseteq asked
          /\ within => Shown(swap, file) = asked
          /\ ~within => Cardinality(Shown(swap, file)) * file.width
                            <= Max({file.width, config.budget * BytesPerToken})

=============================================================================
