--------------------------- MODULE CommandRewriting ---------------------------
(***************************************************************************)
(* What becomes of a command before it runs: `~` is expanded               *)
(* (core/src/parse/expand.rs), the rewrite rules are applied one after the *)
(* other (core/src/hook/rewrite.rs), and `crs rewrite` decides which of    *)
(* the four things it can do it does (crs_commands.rs).  A command is a    *)
(* sequence of characters as in CommandScan, of which a name, the prefix   *)
(* `nu -c`, `http://` and one character outside ASCII are one each.        *)
(***************************************************************************)
EXTENDS RuleMatching

Tilde == "~"
Slash == "/"
Dollar == "$"
NuCommand == "nu -c"
Url == "http://"
Wide == "e acute"

\* What the environment has for HOME.
Home == <<"/home/user">>

\* A UTF-8 character is taken byte by byte, each as a character of its own.
Garbled(c) == IF c = Wide THEN <<"A tilde", "copyright">> ELSE <<c>>

\* `nu -c` before a blank or a quote, behind blanks: its payload is Nushell's.
IsNuInvocation(text) ==
    \E i \in 1..(Len(text) - 1) :
        /\ text[i] = NuCommand
        /\ text[i + 1] \in {Blank, Single, Double}
        /\ \A j \in 1..(i - 1) : text[j] = Blank

InSingleQuotes(text, i) ==
    Cardinality({j \in 1..(i - 1) : text[j] = Single}) % 2 = 1

\* A word that starts with http:// is left alone up to the next blank.
InUrl(text, i) ==
    \E j \in 1..i : /\ text[j] = Url
                    /\ j = 1 \/ text[j - 1] = Blank
                    /\ \A k \in j..i : text[k] # Blank

\* expand_tilde looks at what follows, and not at what is before.
IsHome(text, i) ==
    /\ text[i] = Tilde
    /\ i = Len(text) \/ text[i + 1] \in {Slash, Blank}

\* Mutation of Expanded: quotes and URLs do not protect a tilde.
ExpandedAnywhere(text, i) ==
    IF IsHome(text, i) THEN Home ELSE Garbled(text[i])

\* What stands for the i-th character; `$` stands for itself.
Expanded(text, i) ==
    IF IsHome(text, i) /\ ~InSingleQuotes(text, i) /\ ~InUrl(text, i)
    THEN Home ELSE Garbled(text[i])

ExpandVars(text) ==
    IF IsNuInvocation(text) THEN text
    ELSE FlattenSeq([i \in 1..Len(text) |-> Expanded(text, i)])

-----------------------------------------------------------------------------
(* The rewrite table: [pattern, with], `with` being words *)

\* Regex::replace: the first match only, the text itself when there is none.
Replace(pattern, with, text) ==
    LET found == Find(pattern, text)
    IN IF found = Nowhere THEN text
       ELSE SubSeq(text, 1, found.from - 1) \o with
                \o SubSeq(text, found.to + 1, Len(text))

\* The rules in their order, each once, on what those before it have made; how
\* many of them matched.
ApplyRules(text, rewrites) ==
    LET Step(done, rule) ==
            IF Matches(rule.pattern, done.text)
            THEN [text |-> Replace(rule.pattern, rule.with, done.text),
                  applied |-> done.applied + 1]
            ELSE done
    IN FoldLeft(Step, [text |-> text, applied |-> 0], rewrites)

\* rewrite::apply: the command to run instead, nothing when it stays.
Rewritten(text, rewrites) ==
    LET done == ApplyRules(ExpandVars(text), rewrites)
    IN IF done.applied > 0 \/ done.text # text THEN <<done.text>> ELSE <<>>

\* cmd_rewrite: a swap of the tool wins over the rewrite rules, those over the
\* retry of a probe, which runs as it is, and that over a learned prefix.
CmdRewrite(text, swap, rewrites, probed, prefix) ==
    LET rewritten == Rewritten(text, rewrites)
    IN IF text = <<>> THEN [does |-> "nothing", with |-> <<>>]
       ELSE IF swap THEN [does |-> "swap", with |-> <<>>]
       ELSE IF rewritten # <<>> THEN [does |-> "rewrite", with |-> rewritten[1]]
       ELSE IF probed \/ prefix = <<>> THEN [does |-> "nothing", with |-> <<>>]
       ELSE [does |-> "rewrite", with |-> prefix \o <<Blank>> \o text]

-----------------------------------------------------------------------------
(* Properties *)

\* The words of a text as the shell sees them: intervals between blanks.
ShellWords(text) ==
    {p \in [from : 1..Len(text), to : 1..Len(text)] :
        /\ p.from <= p.to
        /\ \A k \in p.from..p.to : text[k] # Blank
        /\ p.from = 1 \/ text[p.from - 1] = Blank
        /\ p.to = Len(text) \/ text[p.to + 1] = Blank}

\* A word that the comment on expand_vars calls a path prefix: `~` or `~/...`.
IsHomePath(text, word) ==
    /\ text[word.from] = Tilde
    /\ word.to = word.from \/ text[word.from + 1] = Slash

\* expand_vars: a Nushell payload, a `$`, what stands in single quotes and what
\* belongs to a URL come out as they went in, and a path below the home
\* directory that is not protected so is expanded.
ExpandsHomesOnly(text) ==
    LET Same(i) == Expanded(text, i) = Garbled(text[i])
        Expands(i) == Expanded(text, i) = Home
        kept == {i \in 1..Len(text) : \/ text[i] = Dollar
                                      \/ InSingleQuotes(text, i)
                                      \/ InUrl(text, i)}
    IN /\ \A i \in kept : Same(i)
       /\ \A word \in ShellWords(text) :
             IsHomePath(text, word) /\ word.from \notin kept => Expands(word.from)

\* The base contract of a VarExpander ("plain command must pass through") with
\* expand_vars' definition of what it expands: a command without a variable and
\* without a word that is `~` or starts with `~/` comes out as it went in.
PlainCommandPassesThrough(text) ==
    (/\ \A i \in 1..Len(text) : text[i] # Dollar
     /\ \A word \in ShellWords(text) : ~IsHomePath(text, word))
        => ExpandVars(text) = text

\* cmd_rewrite: a command that goes on unchanged is one no rewrite rule matches
\* and that has nothing to expand, and the retry of a probe, which must run as
\* the model typed it, gets no learned prefix a second time.
RewriteLosesNothing(text, rewrites, prefix) ==
    \A probed, swap \in BOOLEAN :
        LET result == CmdRewrite(text, swap, rewrites, probed, prefix)
        IN /\ result.does = "nothing" /\ text # <<>>
                 => /\ \A k \in DOMAIN rewrites : ~Matches(rewrites[k].pattern, text)
                    /\ ExpandVars(text) = text
           /\ probed /\ result.does = "rewrite" => Rewritten(text, rewrites) = <<result.with>>

=============================================================================
