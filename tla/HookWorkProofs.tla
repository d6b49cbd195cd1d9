---------------------------- MODULE HookWorkProofs ----------------------------
(***************************************************************************)
(* Proofs about what a hook works on, for every bound of MCHookWork: pipes *)
(* of any capacity and inputs of any length, any document on stdin, any    *)
(* profile and environment, any hooks file, configuration files with any   *)
(* number of rules, commands with any number of arguments, outputs and     *)
(* scripts of any length, and any day after 1970.                          *)
(***************************************************************************)
EXTENDS MCHookWork, RecursionTheorems, FiniteSetTheorems, TLAPS

-----------------------------------------------------------------------------
(* The pipes to a child *)

\* The types, with nothing said of the order of events.
Amounts ==
    /\ text \in Nat /\ sent \in Nat /\ got \in Nat
    /\ toChild \in Nat /\ fromChild \in Nat
    /\ taken \in Nat /\ given \in Nat

Stages ==
    /\ parent \in {"write", "wait", "done", "killed"}
    /\ child \in {"running", "succeeded", "failed"}

\* No unit is lost or made up between the two processes.
Conserved ==
    /\ sent = toChild + taken
    /\ given = fromChild + got
    /\ sent <= text

\* While the child runs the hook stops writing only when all is written, or
\* because it is killed.
WrittenWhole == child = "running" /\ parent \in {"wait", "done"} => sent = text

\* A child that succeeded has read its input to the end and answered to all of
\* it; the end is the input's unless the hook was killed.
AnsweredWhole ==
    child = "succeeded" =>
        /\ parent # "write"
        /\ given = sent
        /\ parent # "killed" => sent = text

\* A hook is done only when nothing is left to read.
ReadToTheEnd == parent = "done" => fromChild = 0 /\ child # "running"

PipeInv == Amounts /\ Stages /\ Conserved /\ WrittenWhole /\ AnsweredWhole /\ ReadToTheEnd

-----------------------------------------------------------------------------

LEMMA InvInit == PipeInit => PipeInv
<1> SUFFICES ASSUME PipeInit PROVE PipeInv
    OBVIOUS
<1>1. text \in Nat
    BY PipeAssumption DEF PipeInit
<1> QED
    BY <1>1 DEF PipeInit, PipeInv, Amounts, Stages, Conserved, WrittenWhole, AnsweredWhole,
        ReadToTheEnd

\* The steps of the hook, and its end at the harness's hands.
LEMMA HookKeepsInv ==
    ASSUME PipeInv, HookSteps \/ Killed
    PROVE  PipeInv'
<1> USE DEF PipeInv, Amounts, Stages, Conserved, WrittenWhole, AnsweredWhole, ReadToTheEnd
<1>1. CASE WriteInput
    BY <1>1 DEF WriteInput
<1>2. CASE CloseInput
    BY <1>2 DEF CloseInput
<1>3. CASE ReadOutput
    BY <1>3 DEF ReadOutput
<1>4. CASE Finish
    BY <1>4 DEF Finish
<1>5. CASE Killed
    BY <1>5 DEF Killed
<1> QED
    BY <1>1, <1>2, <1>3, <1>4, <1>5 DEF HookSteps

\* The steps of the child.
LEMMA ChildKeepsInv ==
    ASSUME PipeInv, ChildSteps \/ ChildFails
    PROVE  PipeInv'
<1> USE DEF PipeInv, Amounts, Stages, Conserved, WrittenWhole, AnsweredWhole, ReadToTheEnd
<1>1. CASE ChildReads
    BY <1>1 DEF ChildReads
<1>2. CASE ChildWrites
    BY <1>2 DEF ChildWrites
<1>3. CASE ChildExits
  <2>1. given = sent /\ parent # "write"
    BY <1>3 DEF ChildExits, InputEnded
  <2>2. parent # "killed" => sent = text
    BY <1>3 DEF ChildExits, InputEnded
  <2> QED
    BY <1>3, <2>1, <2>2 DEF ChildExits
<1>4. CASE ChildFails
    BY <1>4 DEF ChildFails
<1> QED
    BY <1>1, <1>2, <1>3, <1>4 DEF ChildSteps

LEMMA StepKeepsInv == PipeInv /\ [PipeNext]_pipeVars => PipeInv'
<1> SUFFICES ASSUME PipeInv, [PipeNext]_pipeVars PROVE PipeInv'
    OBVIOUS
<1>1. CASE HookSteps \/ Killed
    BY <1>1, HookKeepsInv
<1>2. CASE ChildSteps \/ ChildFails
    BY <1>2, ChildKeepsInv
<1>3. CASE PipeOver \/ UNCHANGED pipeVars
    BY <1>3 DEF PipeOver, pipeVars, PipeInv, Amounts, Stages, Conserved, WrittenWhole,
        AnsweredWhole, ReadToTheEnd
<1> QED
    BY <1>1, <1>2, <1>3 DEF PipeNext

\* run_redact and run_side_effect: whenever the hook goes on after a child that
\* succeeded, it has the child's answer to the whole input, however the two
\* were interleaved and whether the child streams or collects.
THEOREM OutputAlwaysReadWhole == PipeSpec => []OutputReadWhole
<1>1. PipeInv => OutputReadWhole
    BY DEF PipeInv, Amounts, Conserved, AnsweredWhole, ReadToTheEnd, OutputReadWhole
<1> QED
    BY <1>1, InvInit, StepKeepsInv, PTL DEF PipeSpec

-----------------------------------------------------------------------------
(* The documents on stdin *)

\* A document with any of the values of HookEntry in each field, however many
\* of them are not as they should be.
Documents ==
    [shape : {"empty", "garbled", "value", "object"},
     tool : {"absent", "null", "wrong", "empty", "Bash", "Edit"},
     input : {"absent", "null", "wrong", "object"},
     command : {"absent", "null", "wrong", "empty", "good"},
     path : {"absent", "good"},
     ids : {"good", "wrong"},
     response : {"absent", "null", "wrong", "object"},
     exit : {NoExit, 0, 1, 130},
     output : {"absent", "null", "empty", "good"},
     stdout : {"absent", "null", "empty", "good"}]

LEMMA ProperIsADocument == ProperDocument \in Documents
BY DEF ProperDocument, Documents

LEMMA FieldsStayFields ==
    ASSUME NEW doc \in Documents, NEW other \in NextDocuments(doc)
    PROVE  other \in Documents
<1>1. PICK f \in DOMAIN Fields : \E value \in Fields[f] : other = [doc EXCEPT ![f] = value]
    BY DEF NextDocuments
<1>2. CASE f = "shape"
    BY <1>1, <1>2 DEF Fields, Documents
<1>3. CASE f = "tool"
    BY <1>1, <1>3 DEF Fields, Documents
<1>4. CASE f = "input"
    BY <1>1, <1>4 DEF Fields, Documents
<1>5. CASE f = "command"
    BY <1>1, <1>5 DEF Fields, Documents
<1>6. CASE f = "path"
    BY <1>1, <1>6 DEF Fields, Documents
<1>7. CASE f = "ids"
    BY <1>1, <1>7 DEF Fields, Documents
<1>8. CASE f = "response"
    BY <1>1, <1>8 DEF Fields, Documents
<1>9. CASE f = "exit"
    BY <1>1, <1>9 DEF Fields, Documents
<1>10. CASE f = "output"
    BY <1>1, <1>10 DEF Fields, Documents
<1>11. CASE f = "stdout"
    BY <1>1, <1>11 DEF Fields, Documents
<1> QED
    BY <1>1, <1>2, <1>3, <1>4, <1>5, <1>6, <1>7, <1>8, <1>9, <1>10, <1>11 DEF Fields

\* A Bash call that the typed reader understands is one for the field by field
\* reader and for `run_hook` too, and its target is the command.
LEMMA TypedIsUntyped ==
    ASSUME NEW doc, TypedCommand(doc)
    PROVE  UntypedCommand(doc) /\ ValidRequest(doc, "pre") /\ HookTarget(doc) = "command"
BY DEF TypedCommand, TypedPayload, UntypedCommand, ValidRequest, HookTarget

\* What each entry point denies, in terms of the document and the files.
LEMMA PreDenies ==
    ASSUME NEW doc, NEW w \in Worlds
    PROVE  /\ CrsPre(doc, w).exit = 2 => CrsPre(doc, w).says = "deny"
           /\ (CrsPre(doc, w).says = "deny")
                 <=> (TypedCommand(doc) /\ w.rules = "valid" /\ "typed" \in w.blocked)
BY DEF CrsPre, Deny, Silent, RuleBlocks, LoadedRules, Worlds

LEMMA ClaudeDenies ==
    ASSUME NEW doc, NEW w \in Worlds
    PROVE  /\ ClaudeHookPre(doc, w).exit = 2 => ClaudeHookPre(doc, w).says = "deny"
           /\ TypedCommand(doc) /\ w.rules = "valid" /\ "typed" \in w.blocked
                 => ClaudeHookPre(doc, w).says = "deny"
           /\ ClaudeHookPre(doc, w).says = "deny" =>
                 \/ TypedCommand(doc) /\ w.rules = "valid" /\ "typed" \in w.blocked
                 \/ w.denies # "nothing"
<1>1. TypedCommand(doc) => doc.shape = "object" /\ doc.tool = "Bash"
    BY DEF TypedCommand, TypedPayload
<1> QED
    BY <1>1 DEF ClaudeHookPre, HookRuleDenies, Deny, Silent, RuleBlocks, LoadedRules, Worlds

\* What the chain makes of a command.
LEMMA ChainOutcomes ==
    ASSUME NEW w \in Worlds
    PROVE  /\ ChainOutcome(w) \in {"error", "deny", "rewrite", "allow"}
           /\ ChainOutcome(w) = "error" <=> w.filters = "malformed" \/ w.rules # "valid"
           /\ ChainOutcome(w) = "deny" => w.rules = "valid" /\ w.blocked # {}
           /\ w.filters # "malformed" /\ ~(w.filters = "valid" /\ w.rewrites) /\ w.rules = "valid" =>
                 (ChainOutcome(w) = "deny" <=> "typed" \in w.blocked)
<1> DEFINE form == IF w.filters = "valid" /\ w.rewrites THEN "rewritten" ELSE "typed"
<1>1. CASE w.filters = "malformed" \/ w.rules # "valid"
  <2>1. ChainOutcome(w) = "error"
    BY <1>1 DEF ChainOutcome
  <2> QED
    BY <1>1, <2>1
<1>2. CASE w.filters # "malformed" /\ w.rules = "valid" /\ form \in w.blocked
  <2>1. ChainOutcome(w) = "deny"
    BY <1>2 DEF ChainOutcome, RuleBlocks, LoadedRules
  <2> QED
    BY <1>2, <2>1
<1>3. CASE w.filters # "malformed" /\ w.rules = "valid" /\ form \notin w.blocked
  <2>1. ChainOutcome(w) = IF form = "rewritten" THEN "rewrite" ELSE "allow"
    BY <1>3 DEF ChainOutcome, RuleBlocks, LoadedRules
  <2> QED
    BY <1>3, <2>1
<1> QED
  BY <1>1, <1>2, <1>3

LEMMA ChainDenies ==
    ASSUME NEW doc, NEW w \in Worlds
    PROVE  /\ CrsPreChain(doc, w).exit = 2 => CrsPreChain(doc, w).says = "deny"
           /\ (CrsPreChain(doc, w).says = "deny")
                 <=> (UntypedCommand(doc) /\ ChainOutcome(w) = "deny")
           /\ ChainOutcome(w) = "error" => CrsPreChain(doc, w) = Silent
BY ChainOutcomes DEF CrsPreChain, Deny, Silent, Rewriting

LEMMA OpenCodeDenies ==
    ASSUME NEW doc, NEW w \in Worlds
    PROVE  /\ OpenCodePre(doc, w).exit # 2
           /\ OpenCodePre(doc, w).says = "deny" =>
                 \/ doc.tool = "Bash" /\ ChainOutcome(w) = "deny"
                 \/ w.denies # "nothing"
           /\ ValidRequest(doc, "pre") /\ doc.tool = "Bash" /\ ChainOutcome(w) = "deny"
                 => OpenCodePre(doc, w).says = "deny"
           /\ doc.tool = "Bash" /\ ChainOutcome(w) = "error" => OpenCodePre(doc, w) = Fails
<1> DEFINE outcome == IF doc.tool = "Bash" THEN ChainOutcome(w) ELSE "allow"
           stops == outcome = "deny" \/ HookRuleDenies(w, doc.tool, HookTarget(doc))
<1>1. CASE ~ValidRequest(doc, "pre") \/ outcome = "error"
  <2>1. OpenCodePre(doc, w) = Fails
    BY <1>1 DEF OpenCodePre
  <2> QED
    BY <1>1, <2>1 DEF Fails
<1>2. CASE ValidRequest(doc, "pre") /\ outcome # "error" /\ stops
  <2>1. OpenCodePre(doc, w) = [exit |-> 0, says |-> "deny"]
    BY <1>2 DEF OpenCodePre
  <2>2. outcome = "deny" \/ w.denies # "nothing"
    BY <1>2 DEF HookRuleDenies
  <2> QED
    BY <1>2, <2>1, <2>2
<1>3. CASE ValidRequest(doc, "pre") /\ outcome # "error" /\ ~stops
  <2>1. OpenCodePre(doc, w) = IF outcome = "rewrite" THEN Rewriting ELSE Silent
    BY <1>3 DEF OpenCodePre
  <2> QED
    BY <1>3, <2>1 DEF Rewriting, Silent
<1> QED
  BY <1>1, <1>2, <1>3

\* The four entry points, on any document at all.
LEMMA EntriesAlwaysAgree ==
    ASSUME NEW doc, NEW w \in Worlds
    PROVE  EntriesAgree(doc, w)
<1> DEFINE pre == CrsPre(doc, w)
           chain == CrsPreChain(doc, w)
           claude == ClaudeHookPre(doc, w)
           open == OpenCodePre(doc, w)
           answers == {pre, chain, claude, open}
           plain == w.filters # "malformed" /\ ~(w.filters = "valid" /\ w.rewrites)
           Denies(answer) == answer.says = "deny"
           blocks == w.rules = "valid" /\ "typed" \in w.blocked
<1>1. \A answer \in answers : Denies(answer) =>
          (w.rules = "valid" /\ w.blocked # {}) \/ w.denies # "nothing"
    BY PreDenies, ChainDenies, ClaudeDenies, OpenCodeDenies, ChainOutcomes
<1>2. \A answer \in answers : answer.exit = 2 => Denies(answer)
    BY PreDenies, ChainDenies, ClaudeDenies, OpenCodeDenies
<1>3. ASSUME TypedCommand(doc), plain, w.rules = "valid"
      PROVE  Denies(chain) <=> blocks
    BY <1>3, TypedIsUntyped, ChainDenies, ChainOutcomes
<1>4. ASSUME TypedCommand(doc), plain, blocks
      PROVE  Denies(open)
  <2>1. ValidRequest(doc, "pre") /\ doc.tool = "Bash"
    BY <1>4, TypedIsUntyped DEF TypedCommand
  <2> QED
    BY <1>4, <2>1, OpenCodeDenies, ChainOutcomes
<1>5. Denies(pre) => /\ Denies(claude)
                     /\ plain => Denies(chain) /\ Denies(open)
    BY <1>3, <1>4, PreDenies, ClaudeDenies
<1>6. ASSUME TypedCommand(doc), plain, w.denies = "nothing"
      PROVE  Cardinality({Denies(answer) : answer \in answers}) = 1
  <2>1. CASE blocks
    <3>1. \A answer \in answers : Denies(answer)
      BY <1>3, <1>4, <1>6, <2>1, PreDenies, ClaudeDenies
    <3>2. {Denies(answer) : answer \in answers} = {TRUE}
      BY <3>1, Zenon
    <3> QED
      BY <3>2, FS_Singleton
  <2>2. CASE ~blocks
    <3>1. ~Denies(pre) /\ ~Denies(claude)
      BY <1>6, <2>2, PreDenies, ClaudeDenies
    <3>2. ~Denies(chain) /\ ~Denies(open)
      BY <1>3, <1>6, <2>2, ChainDenies, OpenCodeDenies, ChainOutcomes
    <3>3. \A answer \in answers : ~Denies(answer)
      BY <3>1, <3>2
    <3>4. {Denies(answer) : answer \in answers} = {FALSE}
      BY <3>3, Zenon
    <3> QED
      BY <3>4, FS_Singleton
  <2> QED
    BY <2>1, <2>2
<1>7. UntypedCommand(doc) /\ ("malformed" \in {w.filters, w.rules} \/ w.rules = "absent") =>
          open = Fails /\ chain = Silent
  <2>1. UntypedCommand(doc) => doc.tool = "Bash"
    BY DEF UntypedCommand
  <2> QED
    BY <2>1, ChainOutcomes, ChainDenies, OpenCodeDenies
<1> QED
    BY <1>1, <1>2, <1>5, <1>6, <1>7 DEF EntriesAgree

\* The post-hooks, on a document of any fields.
LEMMA EndsAlwaysReadAlike ==
    ASSUME NEW doc \in Documents, NEW w \in Worlds
    PROVE  EndsReadAlike(doc, w)
<1> DEFINE Learns(effects) == "failure" \in effects
           chain == Learns(CrsPostChain(doc, w))
<1>1. ExitCode(doc) \notin {0, NoExit} => doc.response = "object" /\ doc.exit = ExitCode(doc)
    BY DEF ExitCode
<1>2. Learns(CrsPost(doc, w)) => TypedCommand(doc) /\ ExitCode(doc) \notin {0, NoExit}
    BY DEF CrsPost
<1>3. /\ chain <=> /\ UntypedCommand(doc) /\ w.filters # "malformed" /\ w.rules = "valid"
                   /\ ExitCode(doc) \notin {0, NoExit}
      /\ Learns(OpenCodePost(doc, w)) <=>
             /\ ValidRequest(doc, "post") /\ doc.tool = "Bash" /\ w.filters # "malformed"
             /\ w.rules = "valid" /\ ExitCode(doc) \notin {0, NoExit}
    BY DEF CrsPostChain, OpenCodePost, ChainPost
<1>4. Learns(CrsPost(doc, w)) \/ chain \/ Learns(OpenCodePost(doc, w)) =>
          doc.response = "object" /\ doc.exit \notin {0, NoExit}
    BY <1>1, <1>2, <1>3
<1>5. ASSUME TypedCommand(doc), w.rules = "valid", w.learns, w.filters # "malformed",
             doc.exit \notin SignalExits
      PROVE  /\ Learns(CrsPost(doc, w)) = chain
             /\ ValidRequest(doc, "post") => Learns(OpenCodePost(doc, w)) = chain
  <2>1. UntypedCommand(doc) /\ doc.tool = "Bash"
    BY <1>5, TypedIsUntyped DEF UntypedCommand
  <2>2. ExitCode(doc) \notin SignalExits
    BY <1>5 DEF ExitCode, NoExit, SignalExits
  <2>3. Learns(CrsPost(doc, w)) <=> ExitCode(doc) \notin {0, NoExit}
    BY <1>5, <2>2 DEF CrsPost, LoadedRules
  <2>4. chain <=> ExitCode(doc) \notin {0, NoExit}
    BY <1>3, <1>5, <2>1
  <2> QED
    BY <1>3, <1>5, <2>1, <2>3, <2>4
<1>6. "absent" \in {doc.output} \cup {doc.stdout} => HookOutput(doc) = ExtractOutput(doc)
  <2>1. CASE ResponseField(doc, doc.stdout) = "absent"
    <3>1. ExtractOutput(doc) = AsText(ResponseField(doc, doc.output), "output")
      BY <2>1 DEF ExtractOutput, AsText
    <3>2. HookOutput(doc) = AsText(ResponseField(doc, doc.output), "output")
      BY <2>1 DEF HookOutput, AsText
    <3> QED
      BY <3>1, <3>2
  <2>2. CASE ResponseField(doc, doc.output) = "absent"
    <3>1. ExtractOutput(doc) = AsText(ResponseField(doc, doc.stdout), "stdout")
      BY <2>2 DEF ExtractOutput, AsText
    <3>2. HookOutput(doc) = AsText(ResponseField(doc, doc.stdout), "stdout")
      BY <2>2 DEF HookOutput
    <3> QED
      BY <3>1, <3>2
  <2> QED
    BY <2>1, <2>2 DEF ResponseField
<1>7. ValidRequest(doc, "post") => HookOutput(doc) = AsText(doc.output, "output")
    BY DEF HookOutput, ResponseField, AsText, ValidRequest
<1> QED
    BY <1>3, <1>4, <1>5, <1>6, <1>7 DEF EndsReadAlike

-----------------------------------------------------------------------------
(* Profiles and their files *)

LEMMA PairsAreTheirParts ==
    ASSUME NEW a, NEW b, NEW c, NEW d, <<a, b>> = <<c, d>>
    PROVE  a = c /\ b = d
OBVIOUS

\* The files of a command that has a profile, without those that name them.
LEMMA FilesOfAProfile ==
    ASSUME NEW flags \in Flags, NEW env \in Environments
    PROVE  /\ CommandFiles("post", flags, env).rules =
                 IF flags.rules # NotSet THEN <<flags.rules, "file">>
                 ELSE IF flags.profile # NotSet THEN <<flags.profile, "rules">>
                 ELSE IF env.rules # NotSet THEN <<env.rules, "file">> ELSE <<"config", "rules">>
           /\ CommandFiles("post", flags, env).state =
                 IF <<"ctx", flags.profile>> \in env.local THEN <<"ctx", flags.profile>>
                 ELSE IF flags.state # NotSet THEN <<flags.state, "file">>
                 ELSE IF flags.profile # NotSet THEN <<flags.profile, "state">>
                 ELSE IF env.state # NotSet THEN <<env.state, "file">> ELSE <<"config", "state">>
           /\ CommandFiles("post", flags, env) =
                 [rules |-> CommandFiles("post", flags, env).rules,
                  state |-> CommandFiles("post", flags, env).state,
                  protocol |-> IF flags.profile = "codex" THEN "codex" ELSE "claude"]
<1>1. CommandFiles("post", flags, env) = ProfileFiles(Build(flags, env), env)
    BY DEF CommandFiles
<1> QED
    BY <1>1 DEF ProfileFiles, Stores, EffectiveStatePath, Build, Or, Path, RulesPath

LEMMA FilesOfTheHook ==
    ASSUME NEW env \in Environments
    PROVE  /\ CommandFiles("hook", NoFlags, env).rules =
                 IF env.rules # NotSet THEN <<env.rules, "file">> ELSE <<"config", "rules">>
           /\ CommandFiles("hook", NoFlags, env).state =
                 IF env.named # NotSet THEN <<env.named, "named">>
                 ELSE IF env.state # NotSet THEN <<env.state, "file">>
                 ELSE IF <<"ctx", NotSet>> \in env.local THEN <<"ctx", NotSet>>
                 ELSE <<"config", "state">>
<1>1. CommandFiles("hook", NoFlags, env) = HookFiles(env)
    BY DEF CommandFiles
<1> QED
    BY <1>1 DEF HookFiles, StatePath, StatePathDefault, RulesPath, Or, Path

LEMMA MemoryIsAlwaysShared ==
    ASSUME NEW flags \in Flags, NEW env \in Environments
    PROVE  MemoryIsShared(flags, env)
<1> DEFINE hook == CommandFiles("hook", NoFlags, env)
           post == CommandFiles("post", NoFlags, env)
           contested == env.state # NotSet /\ <<"ctx", NotSet>> \in env.local
<1>1. NoFlags \in Flags /\ NoFlags.profile = NotSet /\ NoFlags.rules = NotSet
        /\ NoFlags.state = NotSet
    BY DEF NoFlags, Flags, Profile
<1>2. CommandFiles("opencode", flags, env) = post
    BY DEF CommandFiles
<1>3. hook.rules = post.rules
    BY <1>1, FilesOfAProfile, FilesOfTheHook
<1>4. /\ env.state \in {NotSet, "env"}
      /\ env.named \in {NotSet, "home", "plain"}
    BY DEF Environments
<1>5. (hook.state = post.state) <=> (env.named = NotSet /\ ~contested)
  <2>1. post.state = IF <<"ctx", NotSet>> \in env.local THEN <<"ctx", NotSet>>
                     ELSE IF env.state # NotSet THEN <<env.state, "file">> ELSE <<"config", "state">>
    BY <1>1, FilesOfAProfile
  <2>2. hook.state = IF env.named # NotSet THEN <<env.named, "named">>
                     ELSE IF env.state # NotSet THEN <<env.state, "file">>
                     ELSE IF <<"ctx", NotSet>> \in env.local THEN <<"ctx", NotSet>>
                     ELSE <<"config", "state">>
    BY FilesOfTheHook
  <2> HIDE DEF hook, post
  <2>3. CASE env.named # NotSet
    <3>1. hook.state = <<env.named, "named">>
      BY <2>2, <2>3
    <3>2. /\ <<env.named, "named">> # <<"ctx", NotSet>>
          /\ <<env.named, "named">> # <<env.state, "file">>
          /\ <<env.named, "named">> # <<"config", "state">>
      BY PairsAreTheirParts DEF NotSet
    <3> QED
      BY <2>1, <2>3, <3>1, <3>2
  <2>4. CASE env.named = NotSet /\ contested
    <3>1. hook.state = <<env.state, "file">> /\ post.state = <<"ctx", NotSet>>
      BY <2>1, <2>2, <2>4
    <3>2. <<env.state, "file">> # <<"ctx", NotSet>>
      BY PairsAreTheirParts DEF NotSet
    <3> QED
      BY <2>4, <3>1, <3>2
  <2>5. CASE env.named = NotSet /\ ~contested
    BY <2>1, <2>2, <2>5
  <2> QED
    BY <2>3, <2>4, <2>5
<1> QED
    BY <1>2, <1>3, <1>5 DEF MemoryIsShared

LEMMA ProfilesAreAlwaysApart ==
    ASSUME NEW flags \in Flags, NEW env \in Environments
    PROVE  ProfilesAreApart(flags, env)
<1> DEFINE files == CommandFiles("post", flags, env)
           bare == [env EXCEPT !.rules = NotSet, !.state = NotSet, !.named = NotSet]
<1>1. /\ bare \in Environments
      /\ bare.local = env.local /\ bare.rules = NotSet /\ bare.state = NotSet
    BY DEF Environments, NotSet
<1>2. ASSUME NEW other \in Profile \ {flags.profile}
      PROVE  LET theirs == CommandFiles("post", [flags EXCEPT !.profile = other], env)
             IN /\ flags.rules = NotSet => files.rules # theirs.rules
                /\ flags.state = NotSet => files.state # theirs.state
  <2> DEFINE others == [flags EXCEPT !.profile = other]
  <2>1. /\ others \in Flags /\ others.profile = other
        /\ others.rules = flags.rules /\ others.state = flags.state
    BY DEF Flags
  <2>2. /\ flags.profile \in {NotSet, "codex", "other"} /\ other \in {NotSet, "codex", "other"}
        /\ flags.profile # other
        /\ env.rules \in {NotSet, "env"} /\ env.state \in {NotSet, "env"}
    BY DEF Flags, Environments, Profile
  <2> DEFINE theirs == CommandFiles("post", others, env)
  <2>3. ASSUME flags.rules = NotSet PROVE files.rules # theirs.rules
    <3>1. files.rules = IF flags.profile # NotSet THEN <<flags.profile, "rules">>
                        ELSE IF env.rules # NotSet THEN <<"env", "file">>
                        ELSE <<"config", "rules">>
      BY <2>2, <2>3, FilesOfAProfile
    <3>2. theirs.rules = IF other # NotSet THEN <<other, "rules">>
                         ELSE IF env.rules # NotSet THEN <<"env", "file">>
                         ELSE <<"config", "rules">>
      BY <2>1, <2>2, <2>3, FilesOfAProfile
    <3> HIDE DEF files, theirs
    <3>3. /\ <<flags.profile, "rules">> # <<other, "rules">>
          /\ <<flags.profile, "rules">> # <<"env", "file">>
          /\ <<flags.profile, "rules">> # <<"config", "rules">>
          /\ <<other, "rules">> # <<"env", "file">>
          /\ <<other, "rules">> # <<"config", "rules">>
      BY <2>2, PairsAreTheirParts DEF NotSet
    <3> QED
      BY <2>2, <3>1, <3>2, <3>3
  <2>4. ASSUME flags.state = NotSet PROVE files.state # theirs.state
    <3>1. files.state = IF <<"ctx", flags.profile>> \in env.local THEN <<"ctx", flags.profile>>
                        ELSE IF flags.profile # NotSet THEN <<flags.profile, "state">>
                        ELSE IF env.state # NotSet THEN <<"env", "file">>
                        ELSE <<"config", "state">>
      BY <2>2, <2>4, FilesOfAProfile
    <3>2. theirs.state = IF <<"ctx", other>> \in env.local THEN <<"ctx", other>>
                         ELSE IF other # NotSet THEN <<other, "state">>
                         ELSE IF env.state # NotSet THEN <<"env", "file">>
                         ELSE <<"config", "state">>
      BY <2>1, <2>2, <2>4, FilesOfAProfile
    <3> HIDE DEF files, theirs
    <3>3. /\ <<"ctx", flags.profile>> # <<"ctx", other>>
          /\ \A p \in Profile : /\ <<"ctx", p>> # <<"env", "file">>
                                /\ <<"ctx", p>> # <<"config", "state">>
                                /\ <<p, "state">> # <<"env", "file">>
                                /\ <<p, "state">> # <<"config", "state">>
                                /\ \A q \in Profile : <<"ctx", p>> # <<q, "state">>
          /\ <<flags.profile, "state">> # <<other, "state">>
      BY <2>2, PairsAreTheirParts DEF Profile, NotSet
    <3>4. flags.profile \in Profile /\ other \in Profile
      BY DEF Flags
    <3> QED
      BY <2>2, <3>1, <3>2, <3>3, <3>4
  <2> QED
    BY <2>3, <2>4
<1>3. ASSUME flags.profile # NotSet PROVE files = CommandFiles("post", flags, bare)
  <2> DEFINE same == CommandFiles("post", flags, bare)
  <2>1. files.rules = same.rules
    BY <1>1, <1>3, FilesOfAProfile
  <2>2. files.state = same.state
    BY <1>1, <1>3, FilesOfAProfile
  <2>3. /\ files = [rules |-> files.rules, state |-> files.state,
                    protocol |-> IF flags.profile = "codex" THEN "codex" ELSE "claude"]
        /\ same = [rules |-> same.rules, state |-> same.state,
                    protocol |-> IF flags.profile = "codex" THEN "codex" ELSE "claude"]
    BY <1>1, FilesOfAProfile
  <2> HIDE DEF files, same
  <2>4. files = same
    BY <2>1, <2>2, <2>3
  <2> QED
    BY <2>4 DEF files, same
<1>4. flags.state # NotSet =>
          files.state = IF <<"ctx", flags.profile>> \in env.local
                        THEN <<"ctx", flags.profile>> ELSE Path("flag", "file")
  <2>1. flags.state # NotSet => flags.state = "flag"
    BY DEF Flags
  <2> QED
    BY <2>1, FilesOfAProfile DEF Path
<1> QED
    BY <1>2, <1>3, <1>4 DEF ProfilesAreApart

-----------------------------------------------------------------------------
(* Installed hooks *)

\* Everything a hooks file may hold here: the entries asked for, and odd ones.
Entries == ExpectedHooks \cup OddEntries

LEMMA EntriesAreTheirFields ==
    ASSUME NEW a \in Entries, NEW b \in Entries,
           a.event = b.event, a.matcher = b.matcher, a.runs = b.runs
    PROVE  a = b
<1>1. \A e \in Entries : e = [event |-> e.event, matcher |-> e.matcher, runs |-> e.runs]
    BY DEF Entries, ExpectedHooks, OddEntries, Entry
<1> QED
    BY <1>1

\* The entries that are asked for, as far as their backends are concerned.
LEMMA ExpectedAreTheirEvents ==
    ASSUME NEW h \in ExpectedHooks
    PROVE  /\ h.runs = h.event /\ h.runs \in HookEvents \ {"session-end"}
           /\ h.runs = "pre-tool-use" => h.matcher = "Bash"
           /\ h.runs = "post-tool-use" => h.matcher \in {"Bash", "Edit|Write"}
           /\ h.runs = "session-start" => h.matcher = "startup|resume"
           /\ h.runs \notin ToolEvents \cup {"session-start"} => h.matcher = NoMatcher
BY DEF ExpectedHooks, Entry, HookEvents, ToolEvents, NoMatcher

LEMMA OneEntryEach ==
    ASSUME NEW h \in ExpectedHooks, NEW other \in ExpectedHooks, h.runs = other.runs,
           h.matcher = other.matcher
    PROVE  h = other
BY ExpectedAreTheirEvents, EntriesAreTheirFields DEF Entries

\* The one backend of an entry.
Own(h) ==
    IF h.runs = "pre-tool-use" THEN "pre-tool-use-bash"
    ELSE IF h.runs = "post-tool-use"
    THEN IF h.matcher = "Bash" THEN "post-tool-use-bash" ELSE "post-tool-use-edit-write"
    ELSE h.runs

LEMMA ToolsReachTheirOwn ==
    ASSUME NEW h \in ExpectedHooks, NEW tool \in ToolsOf(h.matcher)
    PROVE  Backend(h.runs, tool) = Own(h)
<1>1. CASE h.runs = "post-tool-use"
  <2>1. CASE h.matcher = "Bash"
    <3>1. tool = "Bash"
      BY <2>1 DEF ToolsOf
    <3> QED
      BY <1>1, <2>1, <3>1 DEF Backend, Own
  <2>2. CASE h.matcher = "Edit|Write"
    <3>1. tool \in {"Edit", "Write"}
      BY <2>2 DEF ToolsOf
    <3> QED
      BY <1>1, <2>2, <3>1 DEF Backend, Own
  <2> QED
    BY <1>1, <2>1, <2>2, ExpectedAreTheirEvents
<1>2. CASE h.runs = "pre-tool-use"
    BY <1>2 DEF Backend, Own
<1>3. CASE h.runs \notin ToolEvents
    BY <1>3, ExpectedAreTheirEvents DEF Backend, Own, ToolEvents
<1> QED
    BY <1>1, <1>2, <1>3 DEF ToolEvents

LEMMA EveryMatcherLetsSomethingThrough ==
    ASSUME NEW matcher
    PROVE  ToolsOf(matcher) # {}
BY DEF ToolsOf

LEMMA BackendsAreOwn ==
    ASSUME NEW h \in ExpectedHooks, NEW other \in ExpectedHooks, Own(h) = Own(other)
    PROVE  h = other
<1>1. h.runs \in HookEvents /\ other.runs \in HookEvents
    BY ExpectedAreTheirEvents
<1>2. h.runs = other.runs
    BY <1>1 DEF Own, HookEvents, ToolEvents
<1>3. h.matcher = other.matcher
    BY <1>2, ExpectedAreTheirEvents DEF Own, ToolEvents
<1> QED
    BY <1>2, <1>3, OneEntryEach

\* Every backend of an event but the one that has none is some entry's.
LEMMA BackendsAreReached ==
    {Own(h) : h \in ExpectedHooks} = CodexBackends
<1> DEFINE all == {"pre-tool-use-bash", "post-tool-use-bash", "post-tool-use-edit-write"}
                      \cup (HookEvents \ (ToolEvents \cup {"session-end"}))
<1>1. \A h \in ExpectedHooks : Own(h) \in all
    BY ExpectedAreTheirEvents DEF Own, ToolEvents
<1>2. ASSUME NEW b \in all PROVE \E h \in ExpectedHooks : Own(h) = b
  <2>1. CASE b = "pre-tool-use-bash"
    <3>1. Entry("pre-tool-use", "Bash") \in ExpectedHooks
      BY DEF ExpectedHooks
    <3> QED
      BY <2>1, <3>1 DEF Own, Entry
  <2>2. CASE b = "post-tool-use-bash"
    <3>1. Entry("post-tool-use", "Bash") \in ExpectedHooks
      BY DEF ExpectedHooks
    <3> QED
      BY <2>2, <3>1 DEF Own, Entry
  <2>3. CASE b = "post-tool-use-edit-write"
    <3>1. Entry("post-tool-use", "Edit|Write") \in ExpectedHooks
      BY DEF ExpectedHooks
    <3> QED
      BY <2>3, <3>1 DEF Own, Entry
  <2>4. CASE b = "session-start"
    <3>1. Entry("session-start", "startup|resume") \in ExpectedHooks
      BY DEF ExpectedHooks
    <3> QED
      BY <2>4, <3>1 DEF Own, Entry
  <2>5. CASE b \in HookEvents \ (ToolEvents \cup {"session-start", "session-end"})
    <3>1. Entry(b, NoMatcher) \in ExpectedHooks
      BY <2>5 DEF ExpectedHooks, HookEvents
    <3>2. Own(Entry(b, NoMatcher)) = b
      BY <2>5 DEF Own, Entry, ToolEvents
    <3> QED
      BY <3>1, <3>2
  <2> QED
    BY <2>1, <2>2, <2>3, <2>4, <2>5
<1>3. ASSUME NEW event \in HookEvents, NEW tool \in {"Bash", "Edit"},
             Backend(event, tool) # "none"
      PROVE  Backend(event, tool) \in all
    BY <1>3 DEF Backend, ToolEvents
<1>4. ASSUME NEW b \in all
      PROVE  b # "none" /\ \E event \in HookEvents, tool \in {"Bash", "Edit"} : Backend(event, tool) = b
  <2>1. b # "none"
    BY DEF HookEvents, ToolEvents
  <2>2. CASE b = "pre-tool-use-bash"
    BY <2>2 DEF Backend, HookEvents, ToolEvents
  <2>3. CASE b = "post-tool-use-bash"
    <3>1. Backend("post-tool-use", "Bash") = b
      BY <2>3 DEF Backend
    <3> QED
      BY <2>1, <3>1 DEF HookEvents, ToolEvents
  <2>4. CASE b = "post-tool-use-edit-write"
    <3>1. Backend("post-tool-use", "Edit") = b
      BY <2>4 DEF Backend
    <3> QED
      BY <2>1, <3>1 DEF HookEvents, ToolEvents
  <2>5. CASE b \in HookEvents \ (ToolEvents \cup {"session-end"})
    <3>1. Backend(b, "Bash") = b
      BY <2>5 DEF Backend, ToolEvents
    <3> QED
      BY <2>1, <2>5, <3>1
  <2> QED
    BY <2>1, <2>2, <2>3, <2>4, <2>5
<1> HIDE DEF all
<1> QED
    BY <1>1, <1>2, <1>3, <1>4 DEF CodexBackends

\* A hooks file that is accepted, whatever else is in it.
LEMMA CodexAlwaysLeads ==
    ASSUME NEW installed \in SUBSET Entries, NEW binaries, NEW crux
    PROVE  CodexHooksLeadSomewhere(installed, binaries, crux)
<1>1. ASSUME NEW h \in ExpectedHooks PROVE Reached(h) = {Own(h)}
    BY <1>1, ToolsReachTheirOwn, EveryMatcherLetsSomethingThrough DEF Reached
<1>2. ASSUME NEW h \in ExpectedHooks PROVE Cardinality(Reached(h)) = 1
    BY <1>1, <1>2, FS_Singleton
<1>3. ASSUME NEW h \in ExpectedHooks, NEW other \in ExpectedHooks,
             Reached(h) \cap Reached(other) # {}
      PROVE  other = h
    BY <1>1, <1>3, BackendsAreOwn
<1>4. ASSUME NEW h \in ExpectedHooks
      PROVE  ~CodexValid(installed \ {h}, binaries)
  <2>1. ASSUME NEW entry \in installed \ {h},
               entry.event = h.event, entry.matcher = h.matcher, entry.runs = h.runs
        PROVE  FALSE
      BY <2>1, EntriesAreTheirFields DEF Entries
  <2>2. h \in MissingHooks(installed \ {h})
      BY <2>1 DEF MissingHooks
  <2> QED
      BY <2>2 DEF CodexValid
<1>5. ASSUME NEW h \in ExpectedHooks, NEW tool \in ToolsOf(h.matcher)
      PROVE  /\ HookTargetExit("codex", h.runs, tool, crux)
                    = IF crux.ended = "exit" THEN crux.code ELSE 1
             /\ CodexPrints(h.runs, tool, crux) = (crux.prints /\ crux.ended # "unlaunched")
  <2>1. h.runs \in HookEvents
      BY ExpectedAreTheirEvents
  <2>2. Backend(h.runs, tool) # "none"
      BY ExpectedAreTheirEvents, ToolsReachTheirOwn DEF Own, HookEvents, ToolEvents
  <2>3. HookTargetExit("codex", h.runs, tool, crux) = CodexExit(h.runs, tool, crux)
      BY <2>1 DEF HookTargetExit
  <2>4. CodexExit(h.runs, tool, crux) = IF crux.ended = "exit" THEN crux.code ELSE 1
      BY <2>2 DEF CodexExit
  <2>5. CodexPrints(h.runs, tool, crux) = (crux.prints /\ crux.ended # "unlaunched")
      BY <2>2, Zenon DEF CodexPrints
  <2> QED
      BY <2>3, <2>4, <2>5
<1>6. UNION {Reached(h) : h \in ExpectedHooks} = CodexBackends
  <2>1. UNION {Reached(h) : h \in ExpectedHooks} = {Own(h) : h \in ExpectedHooks}
      BY <1>1
  <2> QED
      BY <2>1, BackendsAreReached
<1>7. \A h \in ExpectedHooks :
          /\ h.matcher # NoMatcher => Cardinality(Reached(h)) = 1
          /\ \A other \in ExpectedHooks : Reached(h) \cap Reached(other) # {} => other = h
          /\ ~CodexValid(installed \ {h}, binaries)
          /\ \A tool \in ToolsOf(h.matcher) :
                /\ HookTargetExit("codex", h.runs, tool, crux)
                      = IF crux.ended = "exit" THEN crux.code ELSE 1
                /\ CodexPrints(h.runs, tool, crux) = (crux.prints /\ crux.ended # "unlaunched")
    BY <1>2, <1>3, <1>4, <1>5
<1> QED
    BY <1>6, <1>7 DEF CodexHooksLeadSomewhere

LEMMA PluginIsAlwaysUnderstood ==
    ASSUME NEW files \in InstalledFiles, NEW binaries, NEW answer
    PROVE  PluginIsUnderstood(files, binaries, answer)
<1>1. {call[1] : call \in PluginCalls} = HookEvents
  <2>1. \A call \in PluginCalls : call[1] \in HookEvents
    BY DEF PluginCalls, HookEvents, ToolEvents
  <2>2. ASSUME NEW event \in HookEvents
        PROVE  \E call \in PluginCalls : call[1] = event
    <3>1. CASE event \in ToolEvents
      <4>1. <<event, "tool_input">> \in PluginCalls
        BY <3>1 DEF PluginCalls
      <4> QED
        BY <4>1
    <3>2. CASE event = "pre-compact"
      <4>1. <<event, "none">> \in PluginCalls
        BY <3>2 DEF PluginCalls
      <4> QED
        BY <4>1
    <3>3. CASE event \notin ToolEvents \cup {"pre-compact"}
      <4>1. <<event, "target">> \in PluginCalls
        BY <3>3 DEF PluginCalls, HookEvents, ToolEvents
      <4> QED
        BY <4>1
    <3> QED
      BY <3>1, <3>2, <3>3
  <2> QED
    BY <2>1, <2>2
<1>2. \A event \in HookEvents :
          PluginStops(event, answer) => answer.parsed /\ answer.decision = "deny"
    BY DEF PluginStops, BridgeDecision
<1>3. ASSUME OpenCodeValid(files, binaries)
      PROVE  /\ \E dir \in {"project", "global"} :
                   /\ files[dir] = {"plugin", "declaration"}
                   /\ dir = "global" => files["project"] = {}
             /\ {"crs", "opencode"} \subseteq binaries
    BY <1>3 DEF OpenCodeValid, InstallDir
<1> QED
    BY <1>1, <1>2, <1>3 DEF PluginIsUnderstood

LEMMA PluginCallsAreAlwaysRequests ==
    ASSUME NEW call \in PluginToolCalls
    PROVE  PluginCallsAreRequests(call)
<1> DEFINE before == PluginDocument(call, "pre")
           after == PluginDocument(call, "post")
<1>1. SUFFICES ASSUME NormalizeToolName(call.tool) = "Bash" => call.args.command = "good"
      PROVE  /\ ValidRequest(before, "pre") /\ ValidRequest(after, "post")
             /\ HookTarget(before) = HookTarget(after)
             /\ call.args.command = "absent" /\ call.args.filePath = "good"
                   => HookTarget(after) = "path"
             /\ call.args.command = "good" => HookTarget(after) = "command"
             /\ ExitCode(after) = call.exit
    BY DEF PluginCallsAreRequests
<1>2. /\ call.tool \in {"bash", "edit", "read"}
      /\ call.output \in {"empty", "good"}
      /\ call.args \in [command : {"absent", "good"}, filePath : {"absent", "good"},
                        file_path : {"absent", "good"}]
    BY DEF PluginToolCalls
<1> DEFINE input == NormalizeToolInput(call.args)
           tool == IF NormalizeToolName(call.tool) = "Bash" THEN "Bash" ELSE "Edit"
<1>3. /\ input.command = call.args.command
      /\ call.args.filePath = "good" => input.file_path = "good"
    BY <1>2 DEF NormalizeToolInput
<1>4. /\ before.shape = "object" /\ before.tool = tool /\ before.input = "object"
      /\ before.command = call.args.command /\ before.path = input.file_path
    BY <1>3 DEF PluginDocument
<1>5. /\ after.shape = "object" /\ after.tool = tool /\ after.input = "object"
      /\ after.command = call.args.command /\ after.path = input.file_path
      /\ after.response = "object" /\ after.output = call.output /\ after.exit = call.exit
    BY <1>3 DEF PluginDocument
<1> HIDE DEF before, after, input
<1>6. ValidRequest(before, "pre")
    BY <1>1, <1>4 DEF ValidRequest
<1>7. ValidRequest(after, "post")
    BY <1>1, <1>2, <1>5 DEF ValidRequest
<1>8. HookTarget(before) = HookTarget(after)
    BY <1>4, <1>5 DEF HookTarget
<1>9. /\ call.args.command = "absent" /\ call.args.filePath = "good" => HookTarget(after) = "path"
      /\ call.args.command = "good" => HookTarget(after) = "command"
    BY <1>3, <1>5 DEF HookTarget
<1>10. ExitCode(after) = call.exit
    BY <1>5 DEF ExitCode
<1> QED
    BY <1>6, <1>7, <1>8, <1>9, <1>10

-----------------------------------------------------------------------------
(* Layers of configuration: rules of any kind, in any number               *)

\* The files of rules in R; an absent one holds nothing.
ConfigFiles(R) ==
    {file \in [state : {"absent", "unreadable", "malformed", "valid"}, rules : Seq(R), swap : BOOLEAN] :
        file.state = "absent" => file = NoFileThere}
Commands(R, W) == \A rule \in R : rule.command \in Seq(W)
PluginsOf(R) == Seq([toml : BOOLEAN, file : ConfigFiles(R)])

\* The smallest index.
LEMMA SmallestIndex ==
    ASSUME NEW s, NEW V, s \in Seq(V), NEW T \in SUBSET (DOMAIN s), T # {}
    PROVE  Min(T) \in T /\ \A k \in T : Min(T) <= k
<1>1. T \in SUBSET Nat
  OBVIOUS
<1>2. \E n \in T : \A m \in T : n <= m
  BY <1>1, Least
<1>3. QED
  BY <1>2, Zenon DEF Min

\* The nearest file is one of those, or none.
LEMMA FoundAbove ==
    ASSUME NEW R, NEW dirs \in Seq(ConfigFiles(R))
    PROVE  FindUp(dirs) \in ConfigFiles(R) /\ FindUp(<<>>) = NoFileThere
<1>1. NoFileThere \in ConfigFiles(R)
  BY EmptySeq DEF ConfigFiles, NoFileThere
<1>2. There(dirs) \in SUBSET (DOMAIN dirs)
  BY DEF There
<1>3. FindUp(dirs) \in ConfigFiles(R)
  <2>1. CASE There(dirs) = {}
    BY <1>1, <2>1 DEF FindUp
  <2>2. CASE There(dirs) # {}
    <3>1. Min(There(dirs)) \in DOMAIN dirs
      BY <1>2, <2>2, SmallestIndex
    <3>2. dirs[Min(There(dirs))] \in ConfigFiles(R)
      <4> HIDE DEF ConfigFiles
      <4>1. QED
        BY <3>1
    <3>3. QED
      BY <2>2, <3>2 DEF FindUp
  <2>3. QED
    BY <2>1, <2>2
<1>4. There(<<>>) = {}
  BY DEF There
<1>5. QED
  BY <1>3, <1>4 DEF FindUp

\* The rules of a file and of plugins are rules.
LEMMA RulesAreLoaded ==
    ASSUME NEW R
    PROVE  /\ \A file \in ConfigFiles(R) : LoadFrom(file) \in Seq(R)
           /\ LoadFrom(NoFileThere) = <<>>
<1>1. \A file \in ConfigFiles(R) : file.rules \in Seq(R)
  BY DEF ConfigFiles
<1>2. <<>> \in Seq(R)
  BY EmptySeq
<1>3. QED
  BY <1>1, <1>2 DEF LoadFrom, NoFileThere

LEMMA PluginsAreLoaded ==
    ASSUME NEW R, NEW plugins \in PluginsOf(R)
    PROVE  Joined([k \in DOMAIN PluginFiles(plugins) |-> LoadFrom(PluginFiles(plugins)[k].file)])
               \in Seq(R)
<1> DEFINE kept == PluginFiles(plugins)
           P == [toml : BOOLEAN, file : ConfigFiles(R)]
<1>1. kept \in Seq(P)
  BY KeptType DEF PluginFiles, PluginsOf
<1> HIDE DEF kept
<1>2. ASSUME NEW k \in DOMAIN kept
      PROVE  LoadFrom(kept[k].file) \in Seq(R)
  <2>1. kept[k] \in P
    <3> HIDE DEF P
    <3>1. QED
      BY <1>1
  <2>2. kept[k].file \in ConfigFiles(R)
    BY <2>1
  <2>3. QED
    BY <2>2, RulesAreLoaded
<1>3. [k \in DOMAIN kept |-> LoadFrom(kept[k].file)] \in Seq(Seq(R))
  BY <1>1, <1>2
<1>4. QED
  BY <1>3, JoinedType DEF kept

\* The rules of the user are the same in every directory; a repository's are
\* behind them, without those it may not have.
LEMMA OwnRulesFirst ==
    ASSUME NEW R, NEW global \in ConfigFiles(R), NEW plugins \in PluginsOf(R),
           NEW dirs \in Seq(ConfigFiles(R))
    PROVE  /\ LoadConfig(global, plugins, <<>>) \in Seq(R)
           /\ LoadFrom(FindUp(dirs)) \in Seq(R)
           /\ RestrictToProjectScope(LoadFrom(FindUp(dirs))) \in Seq(R)
           /\ LoadConfig(global, plugins, dirs)
                  = LoadConfig(global, plugins, <<>>) \o RestrictToProjectScope(LoadFrom(FindUp(dirs)))
<1> DEFINE own == LoadFrom(global)
                      \o Joined([k \in DOMAIN PluginFiles(plugins) |-> LoadFrom(PluginFiles(plugins)[k].file)])
           project == LoadFrom(FindUp(dirs))
<1>1. own \in Seq(R)
  <2>1. LoadFrom(global) \in Seq(R)
    BY RulesAreLoaded
  <2>2. QED
    BY <2>1, PluginsAreLoaded
<1>2. project \in Seq(R)
  BY FoundAbove, RulesAreLoaded
<1>3. RestrictToProjectScope(project) \in Seq(R)
  BY <1>2, KeptType DEF RestrictToProjectScope
<1>4. RestrictToProjectScope(LoadFrom(FindUp(<<>>))) = <<>>
  <2>1. LoadFrom(FindUp(<<>>)) = <<>>
    BY FoundAbove, RulesAreLoaded
  <2>2. <<>> \in Seq(R) /\ Len(<<>>) = 0
    BY EmptySeq
  <2>3. Kept(<<>>, {k \in DOMAIN <<>> : <<>>[k].action = "run" => IsAllowlistedProjectRun(<<>>[k].command)}) = <<>>
    <3>1. 1..0 = {}
      OBVIOUS
    <3>2. QED
      BY <2>2, <3>1, KeptAll
  <2>4. QED
    BY <2>1, <2>3 DEF RestrictToProjectScope
<1>5. LoadConfig(global, plugins, <<>>) = own
  <2>1. LoadConfig(global, plugins, <<>>) = own \o <<>>
    BY <1>4 DEF LoadConfig
  <2> HIDE DEF own
  <2>2. QED
    BY <1>1, <2>1
<1>6. LoadConfig(global, plugins, dirs) = own \o RestrictToProjectScope(project)
  BY DEF LoadConfig
<1>7. QED
  BY <1>1, <1>2, <1>3, <1>5, <1>6

\* What is in front stays there.
LEMMA Behind ==
    ASSUME NEW R, NEW s \in Seq(R), NEW t \in Seq(R)
    PROVE  /\ IsPrefix(s, s \o t)
           /\ SubSeq(s \o t, Len(s) + 1, Len(s \o t)) = t
           /\ \A k \in 1..Len(s) : (s \o t)[k] = s[k]
           /\ \A k \in 1..Len(t) : (s \o t)[Len(s) + k] = t[k]
           /\ Len(s \o t) = Len(s) + Len(t)
           /\ s \o t \in Seq(R)
BY DEF IsPrefix

LEMMA FirstDenialStands ==
    ASSUME NEW R, NEW s \in Seq(R), NEW t \in Seq(R), FirstDeny(s) # <<>>
    PROVE  FirstDeny(s \o t) = FirstDeny(s)
<1> DEFINE D == {k \in DOMAIN s : s[k].action = "deny"}
           E == {k \in DOMAIN (s \o t) : (s \o t)[k].action = "deny"}
           d == Min(D)
           e == Min(E)
<1>1. D # {} /\ D \in SUBSET (DOMAIN s) /\ E \in SUBSET (DOMAIN (s \o t))
  BY DEF FirstDeny
<1>2. D \subseteq E /\ \A k \in E : k <= Len(s) => k \in D
  BY Behind
<1>3. D \subseteq 1..Len(s) /\ E \subseteq Nat /\ s \o t \in Seq(R) /\ Len(s) \in Nat
  BY Behind
<1>4. FirstDeny(s) = <<s[d]>> /\ (E # {} => FirstDeny(s \o t) = <<(s \o t)[e]>>)
  BY <1>1 DEF FirstDeny
<1> HIDE DEF D, E
<1>5. d \in D /\ \A k \in D : d <= k
  BY <1>1, SmallestIndex
<1>6. E # {} /\ e \in E /\ \A k \in E : e <= k
  BY <1>1, <1>2, <1>3, SmallestIndex
<1> HIDE DEF d, e
<1>7. e = d
  <2>1. e <= d
    BY <1>2, <1>5, <1>6
  <2>2. e \in D
    BY <1>2, <1>3, <1>5, <1>6, <2>1
  <2>3. d <= e
    BY <1>5, <2>2
  <2>4. QED
    BY <1>3, <1>5, <1>6, <2>1, <2>3
<1>8. (s \o t)[d] = s[d]
  BY <1>3, <1>5, Behind
<1>9. QED
  BY <1>4, <1>6, <1>7, <1>8

\* What a repository may run is neither qualified nor inline code.
LEMMA AllowedIsHarmless ==
    ASSUME NEW W, NEW command \in Seq(W)
    PROVE  IsAllowlistedProjectRun(command)
               <=> /\ command # <<>> /\ command[1] \in Allowlisted
                   /\ ToSet(command) \cap CodeFlags = {}
<1>1. ASSUME command # <<>>
      PROVE  \A k \in DOMAIN command : k = 1 \/ k \in 2..Len(command)
  OBVIOUS
<1>2. Allowlisted \cap CodeFlags = {} /\ Allowlisted \cap Qualified = {}
  BY DEF Allowlisted, Qualified, CodeFlags
<1>3. 2..Len(command) \subseteq DOMAIN command /\ (command # <<>> => 1 \in DOMAIN command)
  OBVIOUS
<1>4. QED
  BY <1>1, <1>2, <1>3 DEF IsAllowlistedProjectRun, ToSet

\* ProjectFileOnlyAdds, for rules in any number, plugins and directories.
LEMMA ProjectAlwaysAddsOnly ==
    ASSUME NEW R, NEW W, Commands(R, W), NEW global \in ConfigFiles(R), NEW plugins \in PluginsOf(R),
           NEW dirs \in Seq(ConfigFiles(R))
    PROVE  ProjectFileOnlyAdds(global, plugins, dirs)
<1> DEFINE own == LoadConfig(global, plugins, <<>>)
           all == LoadConfig(global, plugins, dirs)
           project == LoadFrom(FindUp(dirs))
           allowed == RestrictToProjectScope(project)
           Harmless(rule) ==
               \/ rule.action # "run"
               \/ /\ rule.command # <<>> /\ rule.command[1] \in Allowlisted
                  /\ ToSet(rule.command) \cap CodeFlags = {}
<1>1. own \in Seq(R) /\ project \in Seq(R) /\ allowed \in Seq(R) /\ all = own \o allowed
  BY OwnRulesFirst
<1> HIDE DEF own, all, project
<1>2. allowed = Kept(project, {k \in DOMAIN project : Harmless(project[k])})
  <2>1. \A k \in DOMAIN project : project[k].command \in Seq(W)
    BY <1>1 DEF Commands
  <2>2. \A k \in DOMAIN project : (project[k].action = "run" => IsAllowlistedProjectRun(project[k].command))
                                      <=> Harmless(project[k])
    BY <2>1, AllowedIsHarmless
  <2> HIDE DEF Harmless
  <2>3. {k \in DOMAIN project : project[k].action = "run" => IsAllowlistedProjectRun(project[k].command)}
            = {k \in DOMAIN project : Harmless(project[k])}
    BY <2>2
  <2>4. QED
    BY <2>3 DEF RestrictToProjectScope
<1> HIDE DEF allowed
<1>3. IsPrefix(own, all) /\ SubSeq(all, Len(own) + 1, Len(all)) = allowed
  BY <1>1, Behind
<1>4. FirstDeny(own) # <<>> => FirstDeny(all) = FirstDeny(own)
  BY <1>1, FirstDenialStands
<1>5. QED
  BY <1>2, <1>3, <1>4 DEF ProjectFileOnlyAdds, own, all, project

\* What is reported for a pattern and for a command, and when nothing is.
LEMMA ReportsAreAbout ==
    ASSUME NEW rules
    PROVE  /\ \A k : <<k, "error", "pattern">> \in ValidateConfig(rules)
                         <=> k \in DOMAIN rules /\ rules[k].pattern = "broken"
           /\ \A c \in ValidateConfig(rules) : c[3] = "command" =>
                 /\ c[1] \in DOMAIN rules /\ rules[c[1]].action = "run"
                 /\ \A i \in DOMAIN rules[c[1]].command : rules[c[1]].command[i] = ""
           /\ ValidateHooksExit(rules) = 0 => \A k \in DOMAIN rules : rules[k].pattern # "broken"
<1>1. \A k : <<k, "error", "pattern">> \in ValidateConfig(rules)
                 <=> k \in DOMAIN rules /\ rules[k].pattern = "broken"
  BY DEF ValidateConfig
<1>2. ASSUME NEW c \in ValidateConfig(rules), c[3] = "command"
      PROVE  /\ c[1] \in DOMAIN rules /\ rules[c[1]].action = "run"
             /\ \A i \in DOMAIN rules[c[1]].command : rules[c[1]].command[i] = ""
  <2> DEFINE P == {j \in DOMAIN rules : rules[j].pattern = "broken"}
             U == {j \in DOMAIN rules : rules[j].unless = "broken"}
             C == {j \in DOMAIN rules : /\ rules[j].action = "run"
                                         /\ \A i \in DOMAIN rules[j].command : rules[j].command[i] = ""}
  <2>1. ValidateConfig(rules) = {<<k, "error", "pattern">> : k \in P}
                                   \cup {<<k, "error", "unless">> : k \in U}
                                   \cup {<<k, "error", "command">> : k \in C}
    BY DEF ValidateConfig
  <2> HIDE DEF P, U, C
  <2>2. PICK k \in C : c = <<k, "error", "command">>
    <3>1. CASE c \in {<<k, "error", "pattern">> : k \in P}
      BY <1>2, <3>1
    <3>2. CASE c \in {<<k, "error", "unless">> : k \in U}
      BY <1>2, <3>2
    <3>3. CASE c \in {<<k, "error", "command">> : k \in C}
      BY <3>3
    <3>4. QED
      BY <2>1, <3>1, <3>2, <3>3
  <2>3. c[1] \in C
    BY <2>2
  <2>4. QED
    BY <2>3 DEF C
<1>3. ASSUME NEW k \in DOMAIN rules, rules[k].pattern = "broken"
      PROVE  ValidateHooksExit(rules) = 1
  <2> DEFINE c == <<k, "error", "pattern">>
  <2>1. c \in ValidateConfig(rules) /\ c[2] = "error"
    BY <1>1, <1>3
  <2> HIDE DEF c
  <2>2. QED
    BY <2>1 DEF ValidateHooksExit
<1>4. ValidateHooksExit(rules) = 0 => \A k \in DOMAIN rules : rules[k].pattern # "broken"
  BY <1>3
<1>5. QED
  BY <1>1, <1>2, <1>4, Zenon

\* A rule applies to some target unless its pattern is broken.
LEMMA AppliesUnlessBroken ==
    ASSUME NEW rule
    PROVE  /\ (\E hit, excepted \in BOOLEAN : Applies(rule, hit, excepted)) <=> rule.pattern # "broken"
           /\ rule.unless = "broken" /\ rule.pattern # "broken"
                  => \A excepted \in BOOLEAN : Applies(rule, TRUE, excepted)
<1>1. rule.pattern # "broken" => Applies(rule, TRUE, FALSE)
  BY DEF Applies
<1>2. QED
  BY <1>1 DEF Applies

\* The counts `crs validate-hooks` prints of its sources.
LEMMA SourcesAreCounted ==
    ASSUME NEW R, NEW global \in ConfigFiles(R), NEW plugins, NEW dirs \in Seq(ConfigFiles(R))
    PROVE  Summed(CmdValidateHooks(global, plugins, dirs).sources)
               = Len(LoadFrom(global)) + Len(LoadFrom(FindUp(dirs)))
<1> DEFINE f == FindUp(dirs)
           g == Len(LoadFrom(global))
           p == Len(LoadFrom(f))
           T == There(<<global, f>>)
           sources == ConfigSources(global, dirs)
           counts == [k \in DOMAIN sources |-> Len(LoadFrom(sources[k]))]
<1>1. g \in Nat /\ p \in Nat
  <2>1. LoadFrom(global) \in Seq(R) /\ LoadFrom(f) \in Seq(R)
    BY FoundAbove, RulesAreLoaded
  <2>2. QED
    BY <2>1
<1>2. (1 \in T <=> global.state # "absent") /\ (2 \in T <=> f.state # "absent")
  BY DEF There
<1>3. (1 \notin T => g = 0) /\ (2 \notin T => p = 0)
  BY <1>2 DEF LoadFrom
<1>4. sources = IF 1 \in T THEN IF 2 \in T THEN <<global, f>> ELSE <<global>>
                ELSE IF 2 \in T THEN <<f>> ELSE <<>>
  BY KeptOfTwo DEF ConfigSources
<1>5. CmdValidateHooks(global, plugins, dirs).sources = counts
  BY DEF CmdValidateHooks
<1> HIDE DEF f, T, sources
<1>6. counts \in Seq(Nat)
      /\ \/ Len(counts) = 2 /\ counts[1] = g /\ counts[2] = p
         \/ Len(counts) = 1 /\ counts[1] = g + p
         \/ Len(counts) = 0 /\ g + p = 0
  <2>1. CASE 1 \in T /\ 2 \in T
    <3>1. sources = <<global, f>>
      BY <1>4, <2>1
    <3>2. counts = <<g, p>>
      BY <3>1
    <3> HIDE DEF counts, g, p
    <3>3. QED
      BY <1>1, <3>2
  <2>2. CASE 1 \in T /\ 2 \notin T
    <3>1. sources = <<global>>
      BY <1>4, <2>2
    <3>2. counts = <<g>>
      BY <3>1
    <3> HIDE DEF counts, g, p
    <3>3. QED
      BY <1>1, <1>3, <2>2, <3>2
  <2>3. CASE 1 \notin T /\ 2 \in T
    <3>1. sources = <<f>>
      BY <1>4, <2>3
    <3>2. counts = <<p>>
      BY <3>1
    <3> HIDE DEF counts, g, p
    <3>3. QED
      BY <1>1, <1>3, <2>3, <3>2
  <2>4. CASE 1 \notin T /\ 2 \notin T
    <3>1. sources = <<>>
      BY <1>4, <2>4
    <3>2. counts = <<>>
      BY <3>1
    <3> HIDE DEF counts, g, p
    <3>3. QED
      BY <1>1, <1>3, <2>4, <3>2
  <2>5. QED
    BY <2>1, <2>2, <2>3, <2>4
<1>7. Summed(counts) = g + p
  <2> HIDE DEF counts, g, p
  <2>1. QED
    BY <1>6, SummedFew
<1>8. QED
  BY <1>5, <1>7 DEF f

\* ReportsWhatCannotWork, for rules in any number, plugins and directories.
LEMMA ReportsAlwaysWhatCannotWork ==
    ASSUME NEW R, NEW W, Commands(R, W), NEW global \in ConfigFiles(R), NEW plugins \in PluginsOf(R),
           NEW dirs \in Seq(ConfigFiles(R))
    PROVE  ReportsWhatCannotWork(global, plugins, dirs)
<1> DEFINE own == LoadConfig(global, plugins, <<>>)
           all == LoadConfig(global, plugins, dirs)
           reported == ValidateConfig(all)
           report == CmdValidateHooks(global, plugins, dirs)
           project == LoadFrom(FindUp(dirs))
           allowed == RestrictToProjectScope(project)
<1>1. own \in Seq(R) /\ project \in Seq(R) /\ allowed \in Seq(R) /\ all = own \o allowed
  BY OwnRulesFirst
<1>2. report.total = Len(all) /\ report.exit = ValidateHooksExit(all)
  BY DEF CmdValidateHooks
<1>3. Summed(report.sources) = Len(LoadFrom(global)) + Len(project)
  BY SourcesAreCounted
<1>4. LoadFrom(global) \in Seq(R)
  BY RulesAreLoaded
<1>5. \A k \in 1..Len(allowed) : allowed[k].action = "run" => IsAllowlistedProjectRun(allowed[k].command)
  <2> DEFINE I == {k \in DOMAIN project :
                       project[k].action = "run" => IsAllowlistedProjectRun(project[k].command)}
  <2>1. allowed = Kept(project, I)
    BY DEF RestrictToProjectScope
  <2> HIDE DEF project, allowed
  <2>2. \A k \in 1..Len(allowed) : \E i \in I : allowed[k] = project[i]
    <3> HIDE DEF I
    <3>1. \A k \in 1..Len(Kept(project, I)) :
             \E i \in I \cap (1..Len(project)) : Kept(project, I)[k] = project[i]
      BY <1>1, KeptElements
    <3>2. QED
      BY <2>1, <3>1
  <2>3. QED
    BY <2>2
<1> HIDE DEF own, all, report, project, allowed
<1>6. \A k \in DOMAIN all :
         /\ <<k, "error", "pattern">> \in reported
                <=> ~\E hit, excepted \in BOOLEAN : Applies(all[k], hit, excepted)
         /\ all[k].unless = "broken" /\ all[k].pattern # "broken"
                => \A excepted \in BOOLEAN : Applies(all[k], TRUE, excepted)
  BY ReportsAreAbout, AppliesUnlessBroken
<1>7. ASSUME NEW c \in reported, c[3] = "command"
      PROVE  c[1] <= Len(own)
  <2> DEFINE k == c[1]
  <2>1. k \in DOMAIN all /\ all[k].action = "run" /\ \A i \in DOMAIN all[k].command : all[k].command[i] = ""
    BY <1>7, ReportsAreAbout
  <2> HIDE DEF k
  <2>2. SUFFICES ASSUME ~(k <= Len(own)) PROVE FALSE
    BY DEF k
  <2> DEFINE j == k - Len(own)
  <2>3. j \in 1..Len(allowed) /\ k = Len(own) + j
    <3>1. DOMAIN all = 1..(Len(own) + Len(allowed)) /\ Len(own) \in Nat /\ Len(allowed) \in Nat
      BY <1>1
    <3>2. k \in 1..(Len(own) + Len(allowed))
      BY <2>1, <3>1
    <3>3. QED
      BY <2>2, <3>1, <3>2
  <2> HIDE DEF j
  <2>4. all[k] = allowed[j]
    BY <1>1, <2>3
  <2>5. allowed[j].command \in Seq(W)
    <3>1. allowed[j] \in R
      BY <1>1, <2>3
    <3>2. QED
      BY <3>1 DEF Commands
  <2>6. allowed[j].command # <<>> /\ allowed[j].command[1] \in Allowlisted
    BY <1>5, <2>1, <2>3, <2>4 DEF IsAllowlistedProjectRun
  <2>7. allowed[j].command[1] = ""
    <3>1. 1 \in DOMAIN allowed[j].command
      BY <2>5, <2>6
    <3>2. QED
      BY <2>1, <2>4, <3>1
  <2>8. QED
    BY <2>6, <2>7 DEF Allowlisted
<1>8. report.exit = 0
          => \A k \in DOMAIN all : \E hit, excepted \in BOOLEAN : Applies(all[k], hit, excepted)
  <2>1. report.exit = 0 => \A k \in DOMAIN all : all[k].pattern # "broken"
    BY <1>2, ReportsAreAbout
  <2>2. QED
    BY <2>1, AppliesUnlessBroken
<1>9. Summed(report.sources) + (Len(own) - Len(LoadFrom(global)))
          = report.total + Len(project) - Len(allowed)
  <2>1. Len(all) = Len(own) + Len(allowed)
    BY <1>1
  <2>2. QED
    BY <1>1, <1>2, <1>3, <1>4, <2>1
<1>10. QED
  BY <1>6, <1>7, <1>8, <1>9 DEF ReportsWhatCannotWork, own, all, report, project, allowed

-----------------------------------------------------------------------------
(* Files of filters *)

\* What is read of two files that are there, and what of one.
LEMMA TextsParse ==
    ASSUME NEW R, NEW a \in ConfigFiles(R), NEW b \in ConfigFiles(R)
    PROVE  /\ Parses(<<a>>) <=> a.state = "valid"
           /\ Parses(<<a, b>>) <=> a.state = "valid" /\ b.state = "valid" /\ ~(a.swap /\ b.swap)
           /\ Parsed(<<a>>).rules = a.rules /\ Parsed(<<a>>).swap = a.swap
           /\ Parsed(<<a, b>>).rules = a.rules \o b.rules
           /\ Parsed(<<a, b>>).swap = (a.swap \/ b.swap)
<1> DEFINE one == <<a>>
           two == <<a, b>>
<1>1. a.rules \in Seq(R) /\ b.rules \in Seq(R) /\ a.swap \in BOOLEAN /\ b.swap \in BOOLEAN
  BY DEF ConfigFiles
<1>2. /\ DOMAIN one = {1} /\ one[1] = a
      /\ DOMAIN two = {1, 2} /\ two[1] = a /\ two[2] = b
  OBVIOUS
<1> HIDE DEF one, two
<1>3. Parses(one) <=> a.state = "valid"
  <2> DEFINE T == {k \in DOMAIN one : one[k].swap}
  <2>1. T = {} \/ T = {1}
    BY <1>2
  <2>2. Cardinality(T) <= 1
    <3> HIDE DEF T
    <3>1. Cardinality({}) = 0 /\ Cardinality({1}) = 1
      BY FS_EmptySet, FS_Singleton
    <3>2. QED
      BY <2>1, <3>1
  <2>3. QED
    BY <1>2, <2>2 DEF Parses
<1>4. Parses(two) <=> a.state = "valid" /\ b.state = "valid" /\ ~(a.swap /\ b.swap)
  <2> DEFINE T == {k \in DOMAIN two : two[k].swap}
  <2>1. CASE a.swap /\ b.swap
    <3>1. T = {1, 2}
      BY <1>2, <2>1
    <3>2. Cardinality({1, 2}) = 2
      <4>1. Cardinality({1}) = 1 /\ IsFiniteSet({1})
        BY FS_Singleton
      <4>2. {1, 2} = {1} \cup {2} /\ 2 \notin {1}
        OBVIOUS
      <4>3. QED
        BY <4>1, <4>2, FS_AddElement
    <3>3. ~(Cardinality(T) <= 1)
      BY <3>1, <3>2
    <3>4. QED
      BY <2>1, <3>3 DEF Parses
  <2>2. CASE ~(a.swap /\ b.swap)
    <3>1. T = {} \/ T = {1} \/ T = {2}
      BY <1>2, <2>2
    <3>2. Cardinality(T) <= 1
      <4> HIDE DEF T
      <4>1. Cardinality({}) = 0 /\ Cardinality({1}) = 1 /\ Cardinality({2}) = 1
        BY FS_EmptySet, FS_Singleton
      <4>2. QED
        BY <3>1, <4>1
    <3>3. QED
      BY <1>2, <2>2, <3>2 DEF Parses
  <2>3. QED
    BY <2>1, <2>2
<1>5. Parsed(one).rules = a.rules /\ Parsed(one).swap = a.swap
  <2> DEFINE rs == [k \in DOMAIN one |-> one[k].rules]
  <2>1. rs \in Seq(Seq(R)) /\ Len(rs) = 1 /\ rs[1] = a.rules
    <3>1. rs = <<a.rules>>
      BY <1>2
    <3> HIDE DEF rs
    <3>2. QED
      BY <1>1, <3>1
  <2> HIDE DEF rs
  <2>2. Joined(rs) = a.rules
    BY <2>1, JoinedFew
  <2>3. (\E k \in DOMAIN one : one[k].swap) = a.swap
    BY <1>1, <1>2
  <2>4. QED
    BY <2>2, <2>3 DEF Parsed, rs
<1>6. Parsed(two).rules = a.rules \o b.rules /\ Parsed(two).swap = (a.swap \/ b.swap)
  <2> DEFINE rs == [k \in DOMAIN two |-> two[k].rules]
  <2>1. rs \in Seq(Seq(R)) /\ Len(rs) = 2 /\ rs[1] = a.rules /\ rs[2] = b.rules
    <3>1. rs = <<a.rules, b.rules>>
      BY <1>2
    <3> HIDE DEF rs
    <3>2. QED
      BY <1>1, <3>1
  <2> HIDE DEF rs
  <2>2. Joined(rs) = a.rules \o b.rules
    BY <2>1, JoinedFew
  <2>3. (\E k \in DOMAIN two : two[k].swap) = (a.swap \/ b.swap)
    BY <1>1, <1>2
  <2>4. QED
    BY <2>2, <2>3 DEF Parsed, rs
<1>7. QED
  BY <1>3, <1>4, <1>5, <1>6 DEF one, two

\* What is read of an override or of the two files: those that can be read.
LEMMA TextsAreRead ==
    ASSUME NEW R, NEW dirs \in Seq(ConfigFiles(R)), NEW global \in ConfigFiles(R)
    PROVE  LET reads(file) == file.state \in {"valid", "malformed"}
               project == FindUp(dirs)
           IN /\ MergedContent(<<>>, dirs, global)
                     = IF reads(project) THEN IF reads(global) THEN <<project, global>> ELSE <<project>>
                       ELSE IF reads(global) THEN <<global>> ELSE <<>>
              /\ \A file : MergedContent(<<file>>, dirs, global) = IF reads(file) THEN <<file>> ELSE <<>>
<1> DEFINE project == FindUp(dirs)
<1>1. \A file : 1 \in Readable(<<file>>) <=> file.state \in {"valid", "malformed"}
  BY DEF Readable
<1>2. \A a, b : /\ 1 \in Readable(<<a, b>>) <=> a.state \in {"valid", "malformed"}
                /\ 2 \in Readable(<<a, b>>) <=> b.state \in {"valid", "malformed"}
  BY DEF Readable
<1>3. MergedContent(<<>>, dirs, global) = Kept(<<project, global>>, Readable(<<project, global>>))
  BY DEF MergedContent
<1>4. ASSUME NEW file
      PROVE  MergedContent(<<file>>, dirs, global) = Kept(<<file>>, Readable(<<file>>))
  BY DEF MergedContent
<1> HIDE DEF project
<1>5. Kept(<<project, global>>, Readable(<<project, global>>))
          = IF project.state \in {"valid", "malformed"}
            THEN IF global.state \in {"valid", "malformed"} THEN <<project, global>> ELSE <<project>>
            ELSE IF global.state \in {"valid", "malformed"} THEN <<global>> ELSE <<>>
  BY <1>2, KeptOfTwo
<1>6. \A file : Kept(<<file>>, Readable(<<file>>))
                    = IF file.state \in {"valid", "malformed"} THEN <<file>> ELSE <<>>
  BY <1>1, KeptOfOne
<1>7. QED
  BY <1>3, <1>4, <1>5, <1>6 DEF project

\* ProjectFiltersSupplement, for rules in any number and directories.
LEMMA ProjectFiltersAlwaysSupplement ==
    ASSUME NEW R, NEW dirs \in Seq(ConfigFiles(R)), NEW global \in ConfigFiles(R)
    PROVE  ProjectFiltersSupplement(dirs, global)
<1> DEFINE project == FindUp(dirs)
           texts == MergedContent(<<>>, dirs, global)
           loaded == LoadFilters(<<>>, dirs, global)
<1>1. project \in ConfigFiles(R)
  BY FoundAbove
<1>2. texts = IF project.state \in {"valid", "malformed"}
              THEN IF global.state \in {"valid", "malformed"} THEN <<project, global>> ELSE <<project>>
              ELSE IF global.state \in {"valid", "malformed"} THEN <<global>> ELSE <<>>
  BY TextsAreRead
<1>3. loaded = IF texts # <<>> /\ Parses(texts) THEN Parsed(texts) ELSE DefaultFilters
  BY DEF LoadFilters
<1>4. \A file \in ConfigFiles(R) :
         /\ file.rules \in Seq(R) /\ file.swap \in BOOLEAN
         /\ file.state = "absent" => LoadFrom(file) = <<>> /\ ~file.swap
         /\ file.state = "valid" => LoadFrom(file) = file.rules
  BY DEF ConfigFiles, LoadFrom, NoFileThere
<1>5. <<project, global>> # <<>> /\ <<project>> # <<>> /\ <<global>> # <<>>
  OBVIOUS
<1>6. \A a \in Seq(R) : a \o <<>> = a /\ <<>> \o a = a
  OBVIOUS
<1> HIDE DEF project, texts, loaded
<1>7. ASSUME project.state \in {"valid", "absent"}, global.state \in {"valid", "absent"}
      PROVE  IF project.swap /\ global.swap THEN loaded = DefaultFilters
             ELSE /\ loaded.rules = LoadFrom(project) \o LoadFrom(global)
                  /\ loaded.swap = (project.swap \/ global.swap)
  <2>1. CASE project.state = "valid" /\ global.state = "valid"
    <3>1. texts = <<project, global>>
      BY <1>2, <2>1
    <3>2. LoadFrom(project) = project.rules /\ LoadFrom(global) = global.rules
      BY <1>1, <1>4, <2>1
    <3>3. CASE project.swap /\ global.swap
      <4>1. ~Parses(texts)
        BY <1>1, <3>1, <3>3, TextsParse
      <4>2. QED
        BY <1>3, <3>3, <4>1
    <3>4. CASE ~(project.swap /\ global.swap)
      <4>1. Parses(texts) /\ texts # <<>>
        BY <1>1, <1>5, <2>1, <3>1, <3>4, TextsParse
      <4>2. loaded = Parsed(texts)
        BY <1>3, <4>1
      <4>3. loaded = Parsed(<<project, global>>)
        BY <3>1, <4>2
      <4>4. loaded.rules = project.rules \o global.rules
        BY <1>1, <4>3, TextsParse
      <4>5. loaded.swap = (project.swap \/ global.swap)
        BY <1>1, <4>3, TextsParse, Zenon
      <4>6. QED
        BY <3>2, <3>4, <4>4, <4>5
    <3>5. QED
      BY <3>3, <3>4
  <2>2. ASSUME NEW file \in {project, global}, file.state = "valid", texts = <<file>>
        PROVE  loaded.rules = file.rules /\ loaded.swap = file.swap
    <3>1. file \in ConfigFiles(R)
      BY <1>1, <2>2
    <3>2. Parses(texts) /\ texts # <<>>
      BY <1>5, <2>2, <3>1, TextsParse
    <3>3. loaded = Parsed(texts)
      BY <1>3, <3>2
    <3>4. QED
      BY <2>2, <3>1, <3>3, TextsParse
  <2>3. CASE project.state = "valid" /\ global.state = "absent"
    <3>1. loaded.rules = project.rules /\ loaded.swap = project.swap
      BY <1>2, <2>2, <2>3
    <3>2. LoadFrom(project) = project.rules /\ LoadFrom(global) = <<>> /\ ~global.swap
      BY <1>1, <1>4, <2>3
    <3>3. QED
      BY <1>1, <1>4, <1>6, <3>1, <3>2
  <2>4. CASE project.state = "absent" /\ global.state = "valid"
    <3>1. loaded.rules = global.rules /\ loaded.swap = global.swap
      BY <1>2, <2>2, <2>4
    <3>2. LoadFrom(global) = global.rules /\ LoadFrom(project) = <<>> /\ ~project.swap
      BY <1>1, <1>4, <2>4
    <3>3. QED
      BY <1>1, <1>4, <1>6, <3>1, <3>2
  <2>5. CASE project.state = "absent" /\ global.state = "absent"
    <3>1. texts = <<>>
      BY <1>2, <2>5
    <3>2. loaded = DefaultFilters
      BY <1>3, <3>1
    <3>3. LoadFrom(global) = <<>> /\ LoadFrom(project) = <<>> /\ ~project.swap /\ ~global.swap
      BY <1>1, <1>4, <2>5
    <3>4. <<>> \o <<>> = <<>>
      OBVIOUS
    <3>5. QED
      BY <3>2, <3>3, <3>4 DEF DefaultFilters
  <2>6. QED
    BY <1>7, <2>1, <2>3, <2>4, <2>5
<1>8. QED
  BY <1>7 DEF ProjectFiltersSupplement, project, loaded

\* The first file that is there.
LEMMA FirstOfPath ==
    ASSUME NEW dirs, NEW global
    PROVE  LET project == FindUp(dirs)
               path == FiltersPath(<<>>, dirs, global)
           IN /\ path = <<>> <=> project.state = "absent" /\ global.state = "absent"
              /\ path # <<>> => path[1] = IF project.state # "absent" THEN project ELSE global
              /\ \A file : FiltersPath(<<file>>, dirs, global) = <<file>>
<1> DEFINE project == FindUp(dirs)
           path == FiltersPath(<<>>, dirs, global)
<1>1. /\ 1 \in There(<<project, global>>) <=> project.state # "absent"
      /\ 2 \in There(<<project, global>>) <=> global.state # "absent"
  BY DEF There
<1>2. path = Kept(<<project, global>>, There(<<project, global>>))
  BY DEF FiltersPath
<1>3. \A file : FiltersPath(<<file>>, dirs, global) = <<file>>
  BY DEF FiltersPath
<1> HIDE DEF project, path
<1>4. path = IF project.state # "absent"
             THEN IF global.state # "absent" THEN <<project, global>> ELSE <<project>>
             ELSE IF global.state # "absent" THEN <<global>> ELSE <<>>
  BY <1>1, <1>2, KeptOfTwo
<1>5. /\ path = <<>> <=> project.state = "absent" /\ global.state = "absent"
      /\ path # <<>> => path[1] = IF project.state # "absent" THEN project ELSE global
  BY <1>4
<1>6. QED
  BY <1>3, <1>5 DEF project, path

\* ChainReadsTheSameFiles, for rules in any number and directories.
LEMMA ChainAlwaysReadsTheSameFiles ==
    ASSUME NEW R, NEW dirs \in Seq(ConfigFiles(R)), NEW global \in ConfigFiles(R),
           NEW override, override = <<>> \/ \E file \in ConfigFiles(R) : override = <<file>>
    PROVE  ChainReadsTheSameFiles(override, dirs, global)
<1> DEFINE project == FindUp(dirs)
           texts == MergedContent(override, dirs, global)
           path == FiltersPath(override, dirs, global)
           filters == ProfileFilters(override, dirs, global)
           rewrites == ProfileRewrites(override, dirs, global)
           loaded == LoadFilters(override, dirs, global)
<1>1. project \in ConfigFiles(R)
  BY FoundAbove
<1>2. /\ texts = <<>> => (rewrites # <<>> => override = <<>> /\ rewrites = <<DefaultFilters>>)
      /\ texts # <<>> => (rewrites # <<>> => Parses(texts) /\ rewrites = <<Parsed(texts)>>)
  BY DEF ProfileRewrites
<1>3. loaded = IF texts # <<>> /\ Parses(texts) THEN Parsed(texts) ELSE DefaultFilters
  BY DEF LoadFilters
<1>4. /\ path = <<>> => filters = <<DefaultFilters>>
      /\ path # <<>> => (filters # <<>> => Parses(<<path[1]>>) /\ filters = <<Parsed(<<path[1]>>)>>)
  BY DEF ProfileFilters
<1>5. LoadRewriteConfig(override, dirs, global) = loaded
  BY DEF LoadRewriteConfig
<1>6. /\ override = <<>> =>
             texts = IF project.state \in {"valid", "malformed"}
                     THEN IF global.state \in {"valid", "malformed"} THEN <<project, global>> ELSE <<project>>
                     ELSE IF global.state \in {"valid", "malformed"} THEN <<global>> ELSE <<>>
      /\ \A file : override = <<file>> =>
             texts = IF file.state \in {"valid", "malformed"} THEN <<file>> ELSE <<>>
  BY TextsAreRead
<1>7. /\ override = <<>> =>
             /\ path = <<>> <=> project.state = "absent" /\ global.state = "absent"
             /\ path # <<>> => path[1] = IF project.state # "absent" THEN project ELSE global
      /\ \A file : override = <<file>> => path = <<file>>
  BY FirstOfPath, ZenonT(60)
<1>8. \A file \in ConfigFiles(R) : file.rules \in Seq(R)
  BY DEF ConfigFiles
<1>9. \A a \in Seq(R), b \in Seq(R) : IsPrefix(<<>>, a) /\ IsPrefix(a, a) /\ IsPrefix(a, a \o b)
  BY DEF IsPrefix
<1> HIDE DEF project, texts, path, filters, rewrites, loaded
<1>10. rewrites # <<>> => rewrites[1] = loaded
  BY <1>2, <1>3
<1>11. ASSUME filters # <<>>, rewrites # <<>>
       PROVE  IsPrefix(filters[1].rules, loaded.rules)
  <2>1. ASSUME NEW file \in ConfigFiles(R), path # <<>>, path[1] = file, file.state = "valid" => texts = <<file>>
        PROVE  IsPrefix(filters[1].rules, loaded.rules)
    <3>1. Parses(<<file>>) /\ filters[1] = Parsed(<<file>>)
      BY <1>4, <1>11, <2>1
    <3>2. filters[1].rules = file.rules /\ texts = <<file>>
      BY <2>1, <3>1, TextsParse
    <3>3. texts # <<>>
      BY <3>2
    <3>4. loaded.rules = file.rules
      BY <1>3, <2>1, <3>1, <3>2, <3>3, TextsParse
    <3>5. QED
      BY <1>8, <1>9, <3>2, <3>4
  <2>2. CASE override # <<>>
    <3>1. PICK file \in ConfigFiles(R) : override = <<file>>
      BY <2>2
    <3>2. path = <<file>> /\ (file.state = "valid" => texts = <<file>>)
      BY <1>6, <1>7, <3>1
    <3>3. path # <<>> /\ path[1] = file
      BY <3>2
    <3>4. QED
      BY <2>1, <3>2, <3>3
  <2>3. CASE override = <<>> /\ path = <<>>
    <3>1. texts = <<>>
      BY <1>6, <1>7, <2>3
    <3>2. filters[1] = DefaultFilters /\ loaded = DefaultFilters
      BY <1>3, <1>4, <2>3, <3>1
    <3>3. IsPrefix(<<>>, <<>>)
      BY <1>9, EmptySeq
    <3>4. QED
      BY <3>2, <3>3 DEF DefaultFilters
  <2>4. CASE override = <<>> /\ path # <<>> /\ project.state = "absent"
    <3>1. path[1] = global
      BY <1>7, <2>4
    <3>2. global.state = "valid" => texts = <<global>>
      BY <1>6, <2>4
    <3>3. QED
      BY <2>1, <2>4, <3>1, <3>2
  <2>5. CASE override = <<>> /\ path # <<>> /\ project.state # "absent"
    <3>1. path[1] = project
      BY <1>7, <2>5
    <3>2. Parses(<<project>>) /\ filters[1] = Parsed(<<project>>)
      BY <1>4, <1>11, <2>5, <3>1
    <3>3. project.state = "valid" /\ filters[1].rules = project.rules
      BY <1>1, <3>2, TextsParse
    <3>4. CASE global.state \in {"valid", "malformed"}
      <4>1. texts = <<project, global>>
        BY <1>6, <2>5, <3>3, <3>4
      <4>2. texts # <<>>
        BY <4>1
      <4>3. loaded = Parsed(texts)
        BY <1>2, <1>3, <1>11, <4>2
      <4>4. loaded.rules = project.rules \o global.rules
        BY <1>1, <4>1, <4>3, TextsParse
      <4>5. QED
        BY <1>1, <1>8, <1>9, <3>3, <4>4
    <3>5. CASE global.state \notin {"valid", "malformed"}
      <4>1. texts = <<project>>
        BY <1>6, <2>5, <3>3, <3>5
      <4>2. QED
        BY <1>1, <2>1, <2>5, <3>1, <4>1
    <3>6. QED
      BY <3>4, <3>5
  <2>6. QED
    BY <2>2, <2>3, <2>4, <2>5
<1>12. QED
  BY <1>5, <1>10, <1>11 DEF ChainReadsTheSameFiles, filters, rewrites, loaded

-----------------------------------------------------------------------------
(* The tool call that replaces a command: counts and files of any size     *)

ArgumentsOf ==
    [kind : {"file", "number", "lines", "count", "name", "maxdepth", "complex", "flag", "none"}, value : Nat]
FilesToRead == [readable : BOOLEAN, lines : Nat, width : Nat, partial : BOOLEAN]
SwapLimits == [budget : Nat, tailMax : Nat, depthMax : Nat]

\* The smaller and the larger of two numbers.
LEMMA OfTwo ==
    ASSUME NEW a \in Nat, NEW b \in Nat
    PROVE  /\ Max({a, b}) = IF a >= b THEN a ELSE b
           /\ Min({a, b}) = IF a <= b THEN a ELSE b
<1>1. Max({a, b}) \in {a, b} /\ \A x \in {a, b} : Max({a, b}) >= x
  <2>1. \E x \in {a, b} : \A y \in {a, b} : x >= y
    OBVIOUS
  <2>2. QED
    BY <2>1, Zenon DEF Max
<1>2. Min({a, b}) \in {a, b} /\ \A x \in {a, b} : Min({a, b}) <= x
  <2>1. \E x \in {a, b} : \A y \in {a, b} : x <= y
    OBVIOUS
  <2>2. QED
    BY <2>1, Zenon DEF Min
<1>3. QED
  BY <1>1, <1>2

\* The count of lines is a number, whatever the arguments.
LEMMA CountsAreNumbers ==
    ASSUME NEW args \in Seq(ArgumentsOf), NEW default \in Nat
    PROVE  ParseNFile(args, default).n \in Nat
<1> DEFINE m == Len(args)
           Parse(ok, awaits, n, file) == [ok |-> ok, awaits |-> awaits, n |-> n, file |-> file]
           Take(p, arg) ==
               IF ~p.ok THEN p
               ELSE IF p.awaits THEN Parse(arg.kind = "number", FALSE, arg.value, p.file)
               ELSE IF arg.kind = "lines" THEN Parse(TRUE, TRUE, p.n, p.file)
               ELSE IF arg.kind = "count" THEN Parse(TRUE, FALSE, arg.value, p.file)
               ELSE IF IsFlag(arg) THEN Parse(FALSE, FALSE, p.n, p.file)
               ELSE Parse(TRUE, FALSE, p.n, arg)
           first == Parse(TRUE, FALSE, default, NoFile)
           Body(f) == [i \in 0..m |-> IF i = 0 THEN first ELSE Take(f[i - 1], args[i])]
           parsed == CHOOSE f : f = Body(f)
           V == [ok : BOOLEAN, awaits : BOOLEAN, n : Nat, file : ArgumentsOf]
           step == [q \in V \X (1..m) |-> Take(q[1], args[q[2]])]
<1>1. m \in Nat /\ \A i \in 1..m : args[i] \in ArgumentsOf
  OBVIOUS
<1>2. ParseNFile(args, default).n = parsed[m].n
  BY DEF ParseNFile
<1> HIDE DEF m
<1>3. \A p \in V, arg \in ArgumentsOf : Take(p, arg) \in V
  BY DEF ArgumentsOf
<1> HIDE DEF Take
<1>4. first \in V
  <2>1. NoFile \in ArgumentsOf
    BY DEF ArgumentsOf, NoFile
  <2>2. QED
    BY <2>1
<1> HIDE DEF first, V
<1>5. step \in [V \X (1..m) -> V]
  <2>1. \A q \in V \X (1..m) : q[1] \in V /\ args[q[2]] \in ArgumentsOf
    BY <1>1
  <2>2. \A q \in V \X (1..m) : Take(q[1], args[q[2]]) \in V
    BY <1>3, <2>1
  <2>3. QED
    BY <2>2
<1>6. PICK f : Computes(f, m, V, first, step)
  <2> HIDE DEF step
  <2>1. QED
    BY <1>1, <1>4, <1>5, Recursion
<1>7. f = Body(f)
  <2>1. f \in [0..m -> V] /\ f[0] = first
    BY <1>6 DEF Computes
  <2>2. ASSUME NEW i \in 1..m
        PROVE  f[i] = Take(f[i - 1], args[i])
    <3>1. f[i] = step[<<f[i - 1], i>>]
      BY <1>6 DEF Computes
    <3>2. f[i - 1] \in V
      BY <1>1, <2>1
    <3>3. QED
      BY <3>1, <3>2
  <2>3. \A i \in 0..m : i = 0 \/ i \in 1..m
    BY <1>1
  <2>4. \A i \in 0..m : f[i] = IF i = 0 THEN first ELSE Take(f[i - 1], args[i])
    BY <2>1, <2>2, <2>3
  <2>5. QED
    BY <2>1, <2>4
<1>8. parsed = Body(parsed)
  BY <1>7
<1> HIDE DEF parsed
<1>9. parsed[0] = first /\ \A i \in 1..m : parsed[i] = Take(parsed[i - 1], args[i])
  <2>1. 0 \in 0..m /\ \A i \in 1..m : i \in 0..m /\ i # 0
    BY <1>1
  <2>2. Body(parsed)[0] = first /\ \A i \in 1..m : Body(parsed)[i] = Take(parsed[i - 1], args[i])
    BY <2>1
  <2> HIDE DEF Body
  <2>3. QED
    BY <1>8, <2>2
<1>10. 0..m \subseteq {i \in 0..m : parsed[i] \in V}
  <2> DEFINE S == {i \in 0..m : parsed[i] \in V}
  <2>1. 0 \in S
    BY <1>1, <1>4, <1>9
  <2>2. ASSUME NEW i \in 1..m, i - 1 \in S
        PROVE  i \in S
    <3>1. parsed[i - 1] \in V /\ args[i] \in ArgumentsOf /\ i \in 0..m
      BY <1>1, <2>2
    <3>2. QED
      BY <1>3, <1>9, <3>1
  <2> HIDE DEF S
  <2>3. 0..m \subseteq S
    BY <1>1, <2>1, <2>2, UpTo
  <2>4. QED
    BY <2>3 DEF S
<1>11. parsed[m] \in V
  BY <1>1, <1>10
<1>12. QED
  BY <1>2, <1>11 DEF V

\* The limit of a file above the budget, in lines that the budget pays for.
LEMMA LimitsArePaidFor ==
    ASSUME NEW file \in FilesToRead, file.readable, ~file.partial, NEW budget \in Nat
    PROVE  LET limit == ComputeLineLimit(file, budget)
               within == Bytes(file) \div BytesPerToken <= budget
           IN /\ limit \in Nat
              /\ within => limit = Unlimited
              /\ ~within =>
                    /\ limit # Unlimited
                    /\ limit * file.width <= Max({file.width, budget * BytesPerToken})
<1> DEFINE w == file.width
           l == file.lines
           q == (budget * 4) \div w
           limit == ComputeLineLimit(file, budget)
           within == Bytes(file) \div BytesPerToken <= budget
<1>1. w \in Nat /\ l \in Nat
  BY DEF FilesToRead
<1>2. Bytes(file) = l * w
  <2>1. Bytes(file) = l * w - 0
    BY DEF Bytes, LastLine
  <2> HIDE DEF l, w
  <2>2. QED
    BY <1>1, <2>1
<1>3. within => limit = Unlimited
  BY DEF ComputeLineLimit
<1>4. ASSUME ~within
      PROVE  l > 0 /\ w > 0
  <2>1. CASE l * w = 0
    <3>1. Bytes(file) \div BytesPerToken = 0
      BY <1>2, <2>1, SMTT(30) DEF BytesPerToken
    <3>2. QED
      BY <1>4, <3>1
  <2>2. CASE l * w # 0
    <3> HIDE DEF l, w
    <3>1. QED
      BY <1>1, <2>2, SMTT(30)
  <2>3. QED
    BY <2>1, <2>2
<1>5. ASSUME ~within
      PROVE  limit = Max({1, (budget * 4) \div Max({1, w})})
  BY <1>4, <1>5 DEF ComputeLineLimit, AvgBytesPerLine, BytesPerToken
<1> HIDE DEF w, l, limit, within
<1>6. ASSUME ~within
      PROVE  limit \in Nat /\ limit # Unlimited /\ limit * w <= Max({w, budget * 4})
  <2>1. Max({1, w}) = w
    BY <1>1, <1>4, <1>6, OfTwo
  <2>2. q \in Nat /\ q * w <= budget * 4
    BY <1>1, <1>4, <1>6, SMTT(30)
  <2>3. limit = Max({1, q})
    BY <1>5, <1>6, <2>1
  <2>4. budget * 4 \in Nat
    OBVIOUS
  <2> HIDE DEF q
  <2>5. limit = IF 1 >= q THEN 1 ELSE q
    BY <2>2, <2>3, OfTwo
  <2>6. Max({w, budget * 4}) = IF w >= budget * 4 THEN w ELSE budget * 4
    BY <1>1, <2>4, OfTwo
  <2>7. CASE 1 >= q
    <3>1. limit = 1 /\ 1 * w = w
      BY <1>1, <2>5, <2>7
    <3>2. QED
      BY <1>1, <2>4, <2>6, <3>1 DEF Unlimited
  <2>8. CASE ~(1 >= q)
    <3>1. limit = q /\ q # 0
      BY <2>2, <2>5, <2>8
    <3>2. q * w <= Max({w, budget * 4})
      BY <1>1, <2>2, <2>4, <2>6
    <3>3. QED
      BY <2>2, <3>1, <3>2 DEF Unlimited
  <2>9. QED
    BY <2>7, <2>8
<1>7. QED
  BY <1>3, <1>6 DEF w, limit, within, Unlimited, BytesPerToken

\* A limit in lines is not above what was asked for, and that within the budget.
LEMMA ClampsAreLimits ==
    ASSUME NEW file \in FilesToRead, file.readable, ~file.partial, NEW budget \in Nat, NEW n \in Nat
    PROVE  LET limit == ComputeLineLimit(file, budget)
               within == Bytes(file) \div BytesPerToken <= budget
           IN /\ Clamp(n, file, budget) \in Nat /\ Clamp(n, file, budget) <= n
              /\ within => Clamp(n, file, budget) = n
              /\ ~within => Clamp(n, file, budget) <= limit
<1> DEFINE limit == ComputeLineLimit(file, budget)
           within == Bytes(file) \div BytesPerToken <= budget
<1>1. limit \in Nat /\ (within => limit = Unlimited) /\ (~within => limit # Unlimited)
  BY LimitsArePaidFor
<1>2. Clamp(n, file, budget) = IF limit = Unlimited THEN n ELSE Min({n, limit})
  BY DEF Clamp
<1> HIDE DEF limit, within
<1>3. Min({n, limit}) = IF n <= limit THEN n ELSE limit
  BY <1>1, OfTwo
<1>4. QED
  BY <1>1, <1>2, <1>3 DEF limit, within

\* A Read of at most limit lines shows as many of them.
LEMMA ShownAreFew ==
    ASSUME NEW file \in FilesToRead, NEW read, read.offset \in Nat, read.limit \in Nat, read.hasLimit,
           NEW most \in Nat, read.limit * file.width <= most
    PROVE  Cardinality(Shown(read, file)) * file.width <= most
<1> DEFINE o == read.offset
           m == read.limit
           w == file.width
           S == Shown(read, file)
<1>1. w \in Nat /\ file.lines \in Nat
  BY DEF FilesToRead
<1>2. S \subseteq (o + 1)..(o + m)
  BY <1>1 DEF Shown
<1> HIDE DEF S, o, m, w
<1>3. o \in Nat /\ m \in Nat /\ m * w <= most
  BY DEF o, m, w
<1>4. IsFiniteSet((o + 1)..(o + m)) /\ Cardinality((o + 1)..(o + m)) = m
  <2>1. o + 1 \in Int /\ o + m \in Int
    BY <1>3
  <2>2. IF o + 1 > o + m THEN m = 0 ELSE ((o + m) - (o + 1)) + 1 = m
    BY <1>3
  <2>3. QED
    BY <2>1, <2>2, FS_Interval
<1>5. Cardinality(S) \in Nat /\ Cardinality(S) <= m
  BY <1>2, <1>4, FS_Subset, FS_CardinalityType
<1>6. Cardinality(S) * w <= m * w
  <2> DEFINE c == Cardinality(S)
  <2> HIDE DEF c
  <2>1. c \in Nat /\ c <= m
    BY <1>5 DEF c
  <2>2. c * w <= m * w
    BY <1>1, <1>3, <2>1, SMTT(30)
  <2>3. QED
    BY <2>2 DEF c
<1>7. Cardinality(S) * w \in Nat /\ m * w \in Nat
  BY <1>1, <1>3, <1>5
<1>8. QED
  BY <1>3, <1>6, <1>7 DEF S, w

\* A Read shows the lines that were asked for, when it starts where they do.
LEMMA ReadsShowWhatIsAsked ==
    ASSUME NEW file \in FilesToRead, file.readable, ~file.partial, NEW budget \in Nat,
           NEW read, read.offset \in Nat, read.limit \in Nat, read.hasLimit \in BOOLEAN,
           LET limit == ComputeLineLimit(file, budget)
               within == Bytes(file) \div BytesPerToken <= budget
           IN ~within => read.hasLimit /\ read.limit <= limit
    PROVE  Bytes(file) \div BytesPerToken <= budget
               \/ Cardinality(Shown(read, file)) * file.width
                      <= Max({file.width, budget * BytesPerToken})
<1> DEFINE limit == ComputeLineLimit(file, budget)
           most == Max({file.width, budget * BytesPerToken})
<1> SUFFICES ASSUME ~(Bytes(file) \div BytesPerToken <= budget)
             PROVE  Cardinality(Shown(read, file)) * file.width <= most
  OBVIOUS
<1>1. limit \in Nat /\ limit * file.width <= most /\ read.hasLimit /\ read.limit <= limit
  BY LimitsArePaidFor
<1>2. file.width \in Nat
  BY DEF FilesToRead
<1>3. most \in Nat
  <2>1. budget * BytesPerToken \in Nat
    BY DEF BytesPerToken
  <2>2. QED
    BY <1>2, <2>1, OfTwo
<1> HIDE DEF limit, most
<1>4. read.limit * file.width <= most
  <2>1. read.limit * file.width <= limit * file.width
    BY <1>1, <1>2, SMTT(30)
  <2>2. read.limit * file.width \in Nat /\ limit * file.width \in Nat
    BY <1>1, <1>2
  <2>3. QED
    BY <1>1, <1>3, <2>1, <2>2
<1>5. QED
  BY <1>1, <1>3, <1>4, ShownAreFew

\* What a Read shows that starts at offset and is cut to n lines.
LEMMA ClampedReads ==
    ASSUME NEW file \in FilesToRead, file.readable, ~file.partial, NEW budget \in Nat,
           NEW n \in Nat, NEW offset \in Nat, NEW path
    PROVE  LET read == Read(path, offset, TRUE, Clamp(n, file, budget))
               within == Bytes(file) \div BytesPerToken <= budget
               shown == Shown(read, file)
           IN /\ shown \subseteq {k \in 1..file.lines : k > offset /\ k <= offset + n}
              /\ within => shown = {k \in 1..file.lines : k > offset /\ k <= offset + n}
              /\ within \/ Cardinality(shown) * file.width <= Max({file.width, budget * BytesPerToken})
<1> DEFINE clamp == Clamp(n, file, budget)
           read == Read(path, offset, TRUE, clamp)
           within == Bytes(file) \div BytesPerToken <= budget
           limit == ComputeLineLimit(file, budget)
<1>1. read.offset = offset /\ read.hasLimit = TRUE /\ read.limit = clamp
  BY DEF Read
<1>2. clamp \in Nat /\ clamp <= n /\ (within => clamp = n) /\ (~within => clamp <= limit)
  BY ClampsAreLimits
<1>3. file.lines \in Nat
  BY DEF FilesToRead
<1> HIDE DEF read, clamp, limit, within
<1>4. Shown(read, file) = {k \in 1..file.lines : k > offset /\ k <= offset + clamp}
  BY <1>1 DEF Shown
<1>5. \A k \in 1..file.lines : k <= offset + clamp => k <= offset + n
  BY <1>2, <1>3
<1>6. within \/ Cardinality(Shown(read, file)) * file.width <= Max({file.width, budget * BytesPerToken})
  <2>1. read.offset \in Nat /\ read.limit \in Nat /\ read.hasLimit \in BOOLEAN
    BY <1>1, <1>2
  <2>2. ~within => read.hasLimit /\ read.limit <= limit
    BY <1>1, <1>2
  <2>3. QED
    BY <2>1, <2>2, ReadsShowWhatIsAsked DEF within, limit
<1>7. Shown(read, file) \subseteq {k \in 1..file.lines : k > offset /\ k <= offset + n}
  BY <1>4, <1>5
<1>8. within => Shown(read, file) = {k \in 1..file.lines : k > offset /\ k <= offset + n}
  BY <1>2, <1>4
<1>9. QED
  BY <1>6, <1>7, <1>8 DEF read, clamp, within

\* SwapShowsWhatIsAsked, for arguments in any number, files and budgets of any
\* size.
LEMMA SwapsAlwaysShowWhatIsAsked ==
    ASSUME NEW name \in {"cat", "head", "tail", "find"}, NEW args \in Seq(ArgumentsOf),
           NEW file \in FilesToRead, NEW config \in SwapLimits
    PROVE  SwapShowsWhatIsAsked(name, args, file, config)
<1> DEFINE swap == Swap(name, args, file, config)
           parsed == ParseNFile(args, DefaultLines)
           n == IF name = "cat" THEN 0 ELSE parsed.n
           asked == Asked(name, n, file)
           budget == config.budget
           limit == ComputeLineLimit(file, budget)
           within == Bytes(file) \div BytesPerToken <= budget
           paid(read) ==
               Cardinality(Shown(read, file)) * file.width <= Max({file.width, budget * BytesPerToken})
           l == file.lines
<1> SUFFICES ASSUME swap.tool = "Read", file.readable, ~file.partial
             PROVE  /\ Shown(swap, file) \subseteq asked
                    /\ within => Shown(swap, file) = asked
                    /\ ~within => paid(swap)
  BY DEF SwapShowsWhatIsAsked
<1>1. budget \in Nat /\ l \in Nat
  BY DEF SwapLimits, FilesToRead
<1>2. parsed.n \in Nat
  BY CountsAreNumbers DEF DefaultLines
<1>3. limit \in Nat /\ (within => limit = Unlimited) /\ (~within => limit # Unlimited)
  BY <1>1, LimitsArePaidFor
<1>4. PassThrough.tool # "Read"
  BY DEF PassThrough
<1>5. CASE name = "cat"
  <2> DEFINE read == Read(args[1], 0, limit # Unlimited, limit)
  <2>1. swap = SwapCat(args, file, budget) /\ asked = 1..l
    BY <1>5 DEF Swap, Asked
  <2>2. swap = read
    BY <1>4, <2>1 DEF SwapCat
  <2>3. read.offset = 0 /\ read.hasLimit = (limit # Unlimited) /\ read.limit = limit
    BY DEF Read
  <2>4. (limit # Unlimited) \in BOOLEAN /\ read.hasLimit \in BOOLEAN
    BY <2>3
  <2> HIDE DEF read, limit, within
  <2>5. (within => ~read.hasLimit) /\ (~within => read.hasLimit) /\ (read.hasLimit <=> limit # Unlimited)
    BY <1>3, <2>3
  <2>6. within \/ paid(read)
    <3>1. read.offset \in Nat /\ read.limit \in Nat /\ read.hasLimit \in BOOLEAN
      BY <1>3, <2>3, <2>4
    <3>2. ~within => read.hasLimit /\ read.limit <= limit
      BY <1>3, <2>3, <2>5
    <3> HIDE DEF budget
    <3>3. QED
      BY <1>1, <3>1, <3>2, ReadsShowWhatIsAsked DEF limit, within
  <2>7. Shown(read, file) \subseteq 1..l /\ (within => Shown(read, file) = 1..l)
    <3>1. \A k \in 1..l : k > read.offset
      BY <1>1, <2>3
    <3>2. QED
      BY <2>5, <3>1 DEF Shown
  <2> HIDE DEF swap, asked, paid, l
  <2>8. QED
    BY <2>1, <2>2, <2>6, <2>7
<1>6. CASE name = "head"
  <2> DEFINE read == Read(parsed.file, 0, TRUE, Clamp(parsed.n, file, budget))
             range == {k \in 1..l : k > 0 /\ k <= 0 + parsed.n}
  <2>1. swap = SwapHead(args, file, budget) /\ asked = 1..Min({parsed.n, l})
    BY <1>6 DEF Swap, Asked
  <2>2. swap = read
    BY <1>4, <2>1 DEF SwapHead
  <2>3. Shown(read, file) \subseteq range /\ (within => Shown(read, file) = range) /\ (within \/ paid(read))
    <3> HIDE DEF parsed, budget
    <3>1. QED
      BY <1>1, <1>2, ClampedReads
  <2> HIDE DEF read, limit, within, swap, asked, paid, parsed, l
  <2>4. Min({parsed.n, l}) = IF parsed.n <= l THEN parsed.n ELSE l
    BY <1>1, <1>2, OfTwo
  <2>5. range = asked
    BY <1>1, <1>2, <2>1, <2>4
  <2> HIDE DEF range
  <2>6. QED
    BY <2>2, <2>3, <2>5
<1>7. CASE name = "tail"
  <2> DEFINE offset == IF parsed.n > l THEN 0 ELSE l - parsed.n
             read == Read(parsed.file, offset, TRUE, Clamp(parsed.n, file, budget))
             range == {k \in 1..l : k > offset /\ k <= offset + parsed.n}
  <2>1. /\ swap = SwapTail(args, file, budget, config.tailMax)
        /\ asked = (IF parsed.n > l THEN 1 ELSE l - parsed.n + 1)..l
    BY <1>7 DEF Swap, Asked
  <2>2. CountLines(file) = l
    <3>1. CountLines(file) = l - 0
      BY DEF CountLines, LastLine
    <3> HIDE DEF l
    <3>2. QED
      BY <1>1, <3>1
  <2>3. swap = read
    <3> HIDE DEF l
    <3>1. QED
      BY <1>4, <2>1, <2>2 DEF SwapTail
  <2>4. offset \in Nat
    <3> HIDE DEF parsed, l
    <3>1. QED
      BY <1>1, <1>2
  <2>5. Shown(read, file) \subseteq range /\ (within => Shown(read, file) = range) /\ (within \/ paid(read))
    <3> HIDE DEF parsed, budget, offset
    <3>1. QED
      BY <1>1, <1>2, <2>4, ClampedReads
  <2> HIDE DEF read, limit, within, swap, asked, paid, parsed, l
  <2>6. range = asked
    BY <1>1, <1>2, <2>1
  <2> HIDE DEF range
  <2>7. QED
    BY <2>3, <2>5, <2>6
<1>8. CASE name = "find"
  <2>1. swap = SwapFind(args, config.depthMax)
    BY <1>8 DEF Swap
  <2>2. SwapFind(args, config.depthMax).tool # "Read"
    BY DEF SwapFind, PassThrough
  <2>3. QED
    BY <2>1, <2>2
<1>9. QED
  BY <1>5, <1>6, <1>7, <1>8

-----------------------------------------------------------------------------
(* Outputs of any length, and the rules and filters that shape them        *)

Texts == [lines : Seq(Lines), ended : BOOLEAN, omitted : Nat]
Modes == {"passthrough", "failures-only", "errors-only", "truncate", "match-lines"}
RulesOfFilters ==
    [matches : {"yes", "no"}, max : Nat, expression : {"none", "broken", "valid"}, mode : Modes]
Listing(L) == [label : L, pattern : [compiles : BOOLEAN, lines : SUBSET Lines]]
FilterLists(L) == Seq(Listing(L))

\* What is kept of the lines that pass a test: all of those and no other.
LEMMA KeptPassing ==
    ASSUME NEW lines \in Seq(Lines), NEW passing,
           NEW I \in SUBSET (DOMAIN lines),
           \A k \in DOMAIN lines : k \in I <=> lines[k] \in passing,
           NEW kept, kept = Kept(lines, I)
    PROVE  /\ kept \in Seq(Lines)
           /\ \A k \in DOMAIN kept : kept[k] \in passing
           /\ kept = <<>> => \A k \in DOMAIN lines : lines[k] \notin passing
           /\ Kept(kept, {k \in DOMAIN kept : kept[k] \in passing}) = kept
<1>1. kept \in Seq(Lines)
  BY KeptType
<1>2. DOMAIN lines = 1..Len(lines) /\ DOMAIN kept = 1..Len(kept)
  BY <1>1
<1>3. /\ \A j \in 1..Len(Kept(lines, I)) : \E i \in I \cap (1..Len(lines)) : Kept(lines, I)[j] = lines[i]
      /\ \A i \in I \cap (1..Len(lines)) : \E j \in 1..Len(Kept(lines, I)) : Kept(lines, I)[j] = lines[i]
  BY ONLY lines \in Seq(Lines), KeptElements
<1>4. \A k \in DOMAIN kept : kept[k] \in passing
  BY <1>2, <1>3
<1>5. kept = <<>> => \A k \in DOMAIN lines : lines[k] \notin passing
  <2>1. Len(<<>>) = 0
    OBVIOUS
  <2>2. QED
    BY <1>2, <1>3, <2>1
<1>6. Kept(kept, {k \in DOMAIN kept : kept[k] \in passing}) = kept
  <2> DEFINE J == {k \in DOMAIN kept : kept[k] \in passing}
  <2>1. 1..Len(kept) \subseteq J
    BY <1>2, <1>4
  <2> HIDE DEF J
  <2>2. Kept(kept, J) = kept
    BY <1>1, <2>1, KeptAll
  <2>3. QED
    BY <2>2 DEF J
<1>7. QED
  BY <1>1, <1>4, <1>5, <1>6

\* What a test lets through is of the printed, in its order, and passes the test.
PartThat(kept, printed, passing) ==
    /\ kept \in Seq(Lines)
    /\ IsSubsequence(kept, printed.lines)
    /\ Kept(kept, {k \in DOMAIN kept : kept[k] \in passing}) = kept
    /\ Only(printed, passing) = IF kept = <<>> THEN <<>> ELSE <<Text(kept, FALSE)>>

LEMMA OnlyPassing ==
    ASSUME NEW printed \in Texts, NEW passing,
           NEW kept, kept = Kept(printed.lines, {k \in DOMAIN printed.lines : printed.lines[k] \in passing})
    PROVE  PartThat(kept, printed, passing)
<1> DEFINE lines == printed.lines
           I == {k \in DOMAIN lines : lines[k] \in passing}
<1>1. lines \in Seq(Lines) /\ kept = Kept(lines, I)
  BY DEF Texts
<1>2. Only(printed, passing) = IF kept = <<>> THEN <<>> ELSE <<Text(kept, FALSE)>>
  BY DEF Only
<1>3. I \in SUBSET (DOMAIN lines) /\ \A k \in DOMAIN lines : k \in I <=> lines[k] \in passing
  OBVIOUS
<1> HIDE DEF lines, I
<1>4. kept \in Seq(Lines) /\ Kept(kept, {k \in DOMAIN kept : kept[k] \in passing}) = kept
  BY <1>1, <1>3, KeptPassing
<1>5. IsSubsequence(kept, lines)
  BY <1>1, <1>3 DEF IsSubsequence
<1>6. QED
  BY <1>2, <1>4, <1>5 DEF lines, PartThat

\* A printed without a part is one of its parts, and so is one cut short.
LEMMA PartsOfLines ==
    ASSUME NEW lines \in Seq(Lines)
    PROVE  /\ IsSubsequence(lines, lines) /\ IsSubsequence(<<>>, lines)
           /\ \A m \in 0..Len(lines) : IsSubsequence(SubSeq(lines, 1, m), lines)
<1>1. DOMAIN lines = 1..Len(lines) /\ DOMAIN lines \in SUBSET (DOMAIN lines) /\ {} \in SUBSET (DOMAIN lines)
  OBVIOUS
<1>2. Kept(lines, DOMAIN lines) = lines /\ Kept(lines, {}) = <<>>
  BY <1>1, KeptAll
<1>3. ASSUME NEW m \in 0..Len(lines)
      PROVE  1..m \in SUBSET (DOMAIN lines) /\ Kept(lines, 1..m) = SubSeq(lines, 1, m)
  <2>1. 1..m \in SUBSET (DOMAIN lines)
    OBVIOUS
  <2>2. QED
    BY <2>1, KeptFirst
<1>4. QED
  BY <1>1, <1>2, <1>3 DEF IsSubsequence

\* Of one element.
LEMMA OfOne ==
    ASSUME NEW a, NEW s, s = <<a>>
    PROVE  s # <<>> /\ s[1] = a
OBVIOUS

\* Everything a rule makes of an output is of its lines.
LEMMA MadeByARule ==
    ASSUME NEW printed \in Texts, printed.omitted = 0, NEW exit, NEW rule \in RulesOfFilters,
           NEW made, made = ApplyFilter(printed, exit, rule)
    PROVE  /\ made = <<>> \/ made = <<made[1]>>
           /\ made # <<>> =>
                 /\ made[1] \in Texts
                 /\ IsSubsequence(made[1].lines, printed.lines)
                 /\ made[1].omitted > 0 => Len(made[1].lines) + made[1].omitted = Len(printed.lines)
           /\ exit # 0 /\ rule.mode \notin {"errors-only", "truncate"} => made = <<printed>>
           /\ rule.mode = "errors-only" => made = Only(printed, IsError)
<1>1. printed.lines \in Seq(Lines) /\ rule.max \in Nat /\ rule.mode \in Modes
  BY DEF Texts, RulesOfFilters
<1>2. IsSubsequence(printed.lines, printed.lines)
  BY <1>1, PartsOfLines
<1>3. ASSUME made = <<printed>>
      PROVE  /\ made = <<made[1]>> /\ made[1] \in Texts /\ IsSubsequence(made[1].lines, printed.lines)
             /\ made[1].omitted > 0 => Len(made[1].lines) + made[1].omitted = Len(printed.lines)
  <2>1. made[1] = printed
    BY <1>3
  <2>2. QED
    BY <1>2, <1>3, <2>1
<1>4. ASSUME NEW passing, made = Only(printed, passing)
      PROVE  \/ made = <<>>
             \/ /\ made = <<made[1]>> /\ made[1] \in Texts /\ IsSubsequence(made[1].lines, printed.lines)
                /\ made[1].omitted > 0 => Len(made[1].lines) + made[1].omitted = Len(printed.lines)
  <2>1. PICK kept : kept = Kept(printed.lines, {k \in DOMAIN printed.lines : printed.lines[k] \in passing})
    OBVIOUS
  <2>5. /\ kept \in Seq(Lines) /\ IsSubsequence(kept, printed.lines)
        /\ Only(printed, passing) = IF kept = <<>> THEN <<>> ELSE <<Text(kept, FALSE)>>
    <3>1. PartThat(kept, printed, passing)
      BY <2>1, OnlyPassing
    <3>2. QED
      BY <3>1 DEF PartThat
  <2>6. made = IF kept = <<>> THEN <<>> ELSE <<Text(kept, FALSE)>>
    BY <1>4, <2>5
  <2>2. Text(kept, FALSE) \in Texts /\ Text(kept, FALSE).lines = kept /\ Text(kept, FALSE).omitted = 0
    BY <2>5 DEF Text, Texts
  <2>3. CASE kept # <<>>
    <3>1. PICK of : of = Text(kept, FALSE)
      OBVIOUS
    <3>2. made = <<of>>
      BY <2>3, <2>6, <3>1
    <3>3. made[1] = of
      BY <3>2, OfOne
    <3>4. of \in Texts /\ IsSubsequence(of.lines, printed.lines) /\ of.omitted = 0
      BY <2>2, <2>5, <3>1
    <3>5. ~(of.omitted > 0)
      BY <3>4
    <3>6. QED
      BY <3>2, <3>3, <3>4, <3>5
  <2>4. QED
    BY <2>3, <2>6
<1>5. CASE rule.mode = "passthrough"
  <2>1. made = <<printed>>
    BY <1>5 DEF ApplyFilter
  <2>2. QED
    BY <1>3, <1>5, <2>1
<1>6. CASE rule.mode = "failures-only"
  <2>1. made = IF exit # 0 THEN <<printed>> ELSE <<>>
    BY <1>6 DEF ApplyFilter
  <2>2. QED
    BY <1>3, <1>6, <2>1
<1>7. CASE rule.mode = "errors-only"
  <2>1. made = Only(printed, IsError)
    BY <1>7 DEF ApplyFilter
  <2>2. QED
    BY <1>4, <1>7, <2>1
<1>8. CASE rule.mode = "truncate"
  <2> DEFINE cut == [lines |-> SubSeq(printed.lines, 1, rule.max), ended |-> FALSE,
                     omitted |-> Len(printed.lines) - rule.max]
  <2>1. made = <<Truncated(printed, rule.max)>>
    BY <1>8 DEF ApplyFilter
  <2>2. CASE Len(printed.lines) <= rule.max
    BY <1>3, <1>8, <2>1, <2>2 DEF Truncated
  <2>3. CASE ~(Len(printed.lines) <= rule.max)
    <3>1. made = <<cut>>
      BY <2>1, <2>3 DEF Truncated
    <3>2. rule.max \in 0..Len(printed.lines)
      BY <1>1, <2>3
    <3>3. /\ SubSeq(printed.lines, 1, rule.max) \in Seq(Lines)
          /\ Len(SubSeq(printed.lines, 1, rule.max)) = rule.max
      BY <1>1, <3>2
    <3>4. Len(printed.lines) - rule.max \in Nat /\ rule.max + (Len(printed.lines) - rule.max) = Len(printed.lines)
      BY <1>1, <3>2
    <3>5. cut \in Texts
      BY <3>3, <3>4 DEF Texts
    <3>6. IsSubsequence(cut.lines, printed.lines) /\ Len(cut.lines) + cut.omitted = Len(printed.lines)
      BY <1>1, <3>2, <3>3, <3>4, PartsOfLines
    <3> HIDE DEF cut
    <3>7. made[1] = cut
      BY <3>1
    <3>8. QED
      BY <1>8, <3>1, <3>5, <3>6, <3>7
  <2>4. QED
    BY <2>2, <2>3
<1>9. CASE rule.mode = "match-lines"
  <2>1. made = IF exit # 0 \/ rule.expression # "valid" THEN <<printed>> ELSE Only(printed, IsMatched)
    BY <1>9 DEF ApplyFilter
  <2>2. QED
    BY <1>3, <1>4, <1>9, <2>1
<1>10. QED
  BY <1>1, <1>5, <1>6, <1>7, <1>8, <1>9 DEF Modes

\* The rule that is found is one of the list.
LEMMA RuleIsFound ==
    ASSUME NEW rules \in Seq(RulesOfFilters)
    PROVE  FindRule(rules) = <<>> \/ (FindRule(rules) = <<FindRule(rules)[1]>> /\ FindRule(rules)[1] \in RulesOfFilters)
<1> DEFINE T == {k \in DOMAIN rules : rules[k].matches = "yes"}
<1>1. T \in SUBSET (DOMAIN rules)
  OBVIOUS
<1>2. T = {} => FindRule(rules) = <<>>
  BY DEF FindRule
<1>3. T # {} => FindRule(rules) = <<rules[Min(T)]>>
  BY DEF FindRule
<1> HIDE DEF T
<1>4. T # {} => Min(T) \in T
  BY <1>1, SmallestIndex
<1>5. T # {} => rules[Min(T)] \in RulesOfFilters
  <2> HIDE DEF RulesOfFilters
  <2>1. QED
    BY <1>1, <1>4
<1>6. QED
  BY <1>2, <1>3, <1>5

\* What run_filter makes of an output.
MadeOf(made, printed, exit, rule) ==
    /\ made.kind \in {"passthrough", "replace", "suppress"}
    /\ made.text \in Texts /\ IsSubsequence(made.text.lines, printed.lines)
    /\ made.kind = "passthrough" => made.text = printed
    /\ made.kind = "suppress" => made.text = Text(<<>>, FALSE)
    /\ made.text.omitted > 0 => Len(made.text.lines) + made.text.omitted = Len(printed.lines)
    /\ rule # <<>> /\ exit # 0 /\ rule[1].mode \notin {"errors-only", "truncate"}
          => made.kind = "passthrough"
    /\ rule # <<>> /\ rule[1].mode = "errors-only"
          => Only(made.text, IsError) = Only(printed, IsError)

LEMMA MadeByRules ==
    ASSUME NEW printed \in Texts, printed.omitted = 0, NEW exit, NEW rules \in Seq(RulesOfFilters),
           NEW made, made = RunFilter(printed, exit, rules),
           NEW rule, rule = FindRule(rules)
    PROVE  MadeOf(made, printed, exit, rule)
<1> USE DEF MadeOf
<1>1. PICK of : of = ApplyFilter(printed, exit, rule[1])
  OBVIOUS
<1>2. PICK nothing : nothing = Text(<<>>, FALSE)
  OBVIOUS
<1>3. /\ nothing \in Texts /\ nothing.lines = <<>> /\ nothing.omitted = 0
      /\ Only(nothing, IsError) = <<>>
  <2>1. Text(<<>>, FALSE) \in Texts /\ Text(<<>>, FALSE).lines = <<>> /\ Text(<<>>, FALSE).omitted = 0
    BY EmptySeq DEF Text, Texts
  <2>2. <<>> \in Seq(Lines) /\ Len(<<>>) = 0
    OBVIOUS
  <2>3. \A I : Kept(<<>>, I) = <<>>
    <3>1. TAKE I
    <3>2. I \cap (1..Len(<<>>)) = {}
      BY <2>2
    <3>3. QED
      BY <2>2, <3>2, KeptAll
  <2>4. Only(nothing, IsError) = <<>>
    BY <1>2, <2>1, <2>3 DEF Only
  <2>5. QED
    BY <1>2, <2>1, <2>4
<1>4. IsSubsequence(printed.lines, printed.lines) /\ IsSubsequence(<<>>, printed.lines) /\ ~(nothing.omitted > 0)
  <2>1. printed.lines \in Seq(Lines)
    BY DEF Texts
  <2>2. QED
    BY <1>3, <2>1, PartsOfLines
<1>5. ASSUME rule # <<>>
      PROVE  /\ of = <<>> \/ of = <<of[1]>>
             /\ of # <<>> =>
                   /\ of[1] \in Texts
                   /\ IsSubsequence(of[1].lines, printed.lines)
                   /\ of[1].omitted > 0 => Len(of[1].lines) + of[1].omitted = Len(printed.lines)
             /\ exit # 0 /\ rule[1].mode \notin {"errors-only", "truncate"} => of = <<printed>>
             /\ rule[1].mode = "errors-only" => of = Only(printed, IsError)
  <2>1. rule[1] \in RulesOfFilters
    BY <1>5, RuleIsFound
  <2>2. PICK first : first = rule[1]
    OBVIOUS
  <2>3. first \in RulesOfFilters /\ of = ApplyFilter(printed, exit, first)
    BY <1>1, <2>1, <2>2
  <2>4. QED
    BY <2>2, <2>3, MadeByARule
<1>6. CASE rule = <<>>
  <2>1. made = Outcome("passthrough", printed)
    BY <1>6 DEF RunFilter
  <2>2. made.kind = "passthrough" /\ made.text = printed
    BY <2>1 DEF Outcome
  <2>3. ~(printed.omitted > 0)
    OBVIOUS
  <2>4. QED
    BY <1>4, <1>6, <2>2, <2>3
<1>7. CASE rule # <<>> /\ of = <<>>
  <2>1. made = Outcome("suppress", nothing)
    BY <1>1, <1>2, <1>7 DEF RunFilter
  <2>2. made.kind = "suppress" /\ made.text = nothing
    BY <2>1 DEF Outcome
  <2>3. of # <<printed>>
    BY <1>7, OfOne
  <2>4. rule[1].mode = "errors-only" => Only(printed, IsError) = <<>>
    BY <1>5, <1>7
  <2>5. QED
    BY <1>2, <1>3, <1>4, <1>5, <1>7, <2>2, <2>3, <2>4
<1>8. CASE rule # <<>> /\ of # <<>> /\ of[1] = printed
  <2>1. made = Outcome("passthrough", printed)
    BY <1>1, <1>8 DEF RunFilter
  <2>2. made.kind = "passthrough" /\ made.text = printed
    BY <2>1 DEF Outcome
  <2>3. ~(printed.omitted > 0)
    OBVIOUS
  <2>4. QED
    BY <1>4, <2>2, <2>3
<1>9. CASE rule # <<>> /\ of # <<>> /\ of[1] # printed
  <2>1. made = Outcome("replace", of[1])
    BY <1>1, <1>9 DEF RunFilter
  <2>2. made.kind = "replace" /\ made.text = of[1]
    BY <2>1 DEF Outcome
  <2>3. of # <<printed>>
    BY <1>9, OfOne
  <2>4. rule[1].mode = "errors-only" => Only(of[1], IsError) = Only(printed, IsError)
    <3>1. HAVE rule[1].mode = "errors-only"
    <3>2. PICK errors : errors = IsError
      OBVIOUS
    <3>3. PICK kept : kept = Kept(printed.lines, {k \in DOMAIN printed.lines : printed.lines[k] \in errors})
      OBVIOUS
    <3>10. PICK shown : shown = Text(kept, FALSE)
      OBVIOUS
    <3>11. /\ Kept(kept, {k \in DOMAIN kept : kept[k] \in errors}) = kept
           /\ Only(printed, errors) = IF kept = <<>> THEN <<>> ELSE <<Text(kept, FALSE)>>
      <4>1. PartThat(kept, printed, errors)
        BY <3>3, OnlyPassing
      <4>2. QED
        BY <4>1, Zenon DEF PartThat
    <3>4. /\ Kept(kept, {k \in DOMAIN kept : kept[k] \in IsError}) = kept
          /\ Only(printed, IsError) = IF kept = <<>> THEN <<>> ELSE <<shown>>
      BY <3>2, <3>10, <3>11, Zenon
    <3>5. shown.lines = kept
      BY <3>10 DEF Text
    <3>6. Only(shown, IsError) = IF kept = <<>> THEN <<>> ELSE <<shown>>
      BY <3>10, <3>4, <3>5, Zenon DEF Only
    <3>7. of = <<shown>>
      BY <1>5, <1>9, <3>1, <3>4
    <3>8. of[1] = shown
      BY <3>7, OfOne
    <3>9. QED
      BY <3>4, <3>6, <3>8
  <2>5. QED
    BY <1>5, <1>9, <2>2, <2>3, <2>4
<1>10. QED
  BY <1>6, <1>7, <1>8, <1>9

\* ShapingKeepsFailures, for outputs of any length and rules in any number.
LEMMA ShapingAlwaysKeepsFailures ==
    ASSUME NEW printed \in Texts, printed.omitted = 0, NEW exit \in Nat, NEW rules \in Seq(RulesOfFilters)
    PROVE  ShapingKeepsFailures(printed, exit, rules)
<1>1. PICK code : code = IF exit = UnknownExit THEN 0 ELSE exit
  OBVIOUS
<1>2. PICK made : made = RunFilter(printed, code, rules)
  OBVIOUS
<1>3. PICK rule : rule = FindRule(rules)
  OBVIOUS
<1>4. PICK shaped : shaped = ShapeCommandOutput(printed, exit, rules)
  OBVIOUS
<1>5. PICK chain : chain = FilterHook(printed, exit, rules)
  OBVIOUS
<1>6. /\ made.kind \in {"passthrough", "replace", "suppress"}
      /\ made.text \in Texts /\ IsSubsequence(made.text.lines, printed.lines)
      /\ made.kind = "passthrough" => made.text = printed
      /\ made.text.omitted > 0 => Len(made.text.lines) + made.text.omitted = Len(printed.lines)
      /\ rule # <<>> /\ code # 0 /\ rule[1].mode \notin {"errors-only", "truncate"}
            => made.kind = "passthrough"
      /\ rule # <<>> /\ rule[1].mode = "errors-only"
            => Only(made.text, IsError) = Only(printed, IsError)
  <2>1. MadeOf(made, printed, code, rule)
    BY <1>2, <1>3, MadeByRules
  <2>2. QED
    BY <2>1 DEF MadeOf
<1>7. made = RunFilter(printed, IF exit = UnknownExit THEN 0 ELSE exit, rules)
  BY <1>1, <1>2
<1>8. /\ made.kind = "passthrough" => shaped = Outcome("unchanged", printed)
      /\ made.kind = "replace" => shaped = Outcome("replaced", made.text)
      /\ made.kind = "suppress" /\ exit # UnknownExit => shaped = Outcome("suppressed", made.text)
      /\ made.kind = "suppress" /\ exit = UnknownExit => shaped = Outcome("unchanged", printed)
  BY <1>4, <1>7 DEF ShapeCommandOutput
<1>9. /\ made.kind = "passthrough" => chain = Outcome("allow", printed)
      /\ made.kind = "replace" => chain = Outcome("filter", made.text)
      /\ made.kind = "suppress" /\ exit # UnknownExit => chain = Outcome("filter", made.text)
      /\ made.kind = "suppress" /\ exit = UnknownExit => chain = Outcome("allow", printed)
  BY <1>5, <1>7 DEF FilterHook
<1>10. printed.lines \in Seq(Lines) /\ IsSubsequence(printed.lines, printed.lines) /\ ~(printed.omitted > 0)
  BY PartsOfLines DEF Texts
<1>11. exit \notin {0, UnknownExit} => code # 0
  BY <1>1
<1>12. ASSUME NEW t, NEW said, NEW does, shaped = Outcome(said, t), chain = Outcome(does, t),
              IsSubsequence(t.lines, printed.lines), does = "allow" <=> said = "unchanged",
              exit = UnknownExit => said # "suppressed",
              code # 0 /\ rule # <<>> /\ rule[1].mode \notin {"errors-only", "truncate"}
                  => said = "unchanged",
              rule # <<>> /\ rule[1].mode = "errors-only" => Only(t, IsError) = Only(printed, IsError),
              t.omitted > 0 => Len(t.lines) + t.omitted = Len(printed.lines)
       PROVE  ShapingKeepsFailures(printed, exit, rules)
  <2>1. shaped.kind = said /\ shaped.text = t /\ chain.kind = does /\ chain.text = t
    BY <1>12 DEF Outcome
  <2>2. QED
    BY <1>3, <1>4, <1>5, <1>11, <1>12, <2>1 DEF ShapingKeepsFailures
<1>13. CASE made.kind = "passthrough"
  BY <1>6, <1>8, <1>9, <1>10, <1>12, <1>13
<1>14. CASE made.kind = "replace"
  BY <1>6, <1>8, <1>9, <1>10, <1>12, <1>14
<1>15. CASE made.kind = "suppress" /\ exit # UnknownExit
  BY <1>6, <1>8, <1>9, <1>10, <1>12, <1>15
<1>16. CASE made.kind = "suppress" /\ exit = UnknownExit
  <2>1. code = 0
    BY <1>1, <1>16
  <2>2. QED
    BY <1>6, <1>8, <1>9, <1>10, <1>12, <1>16, <2>1
<1>17. QED
  BY <1>6, <1>13, <1>14, <1>15, <1>16

\* RedactionHolds, for outputs of any length, rules and filters in any number.
LEMMA RedactionAlwaysHolds ==
    ASSUME NEW printed \in Texts, printed.omitted = 0, NEW exit \in Nat, NEW rules \in Seq(RulesOfFilters),
           NEW L, NEW filters \in FilterLists(L), NEW learns \in BOOLEAN
    PROVE  RedactionHolds(printed, exit, rules, filters, learns)
<1>1. PICK code : code = IF exit = UnknownExit THEN 0 ELSE exit
  OBVIOUS
<1>2. PICK made : made = RunFilter(printed, code, rules)
  OBVIOUS
<1>3. PICK final : final = ApplyRedaction(made.text, filters)
  OBVIOUS
<1>4. PICK shown : shown = CmdFilter(printed, exit, rules, filters, learns)
  OBVIOUS
<1>5. PICK hidden : hidden = UNION {filters[k].pattern.lines :
                                       k \in {j \in DOMAIN filters : filters[j].pattern.compiles}}
  OBVIOUS
<1>6. PICK rule : rule = FindRule(rules)
  OBVIOUS
<1>7. /\ made.kind \in {"passthrough", "replace", "suppress"} /\ made.text \in Texts
      /\ made.kind = "suppress" => made.text = Text(<<>>, FALSE)
  <2>1. MadeOf(made, printed, code, rule)
    BY <1>2, <1>6, MadeByRules
  <2>2. QED
    BY <2>1 DEF MadeOf
<1>8. made = RunFilter(printed, IF exit = UnknownExit THEN 0 ELSE exit, rules)
  BY <1>1, <1>2
<1>9. /\ made.kind = "suppress" => shown = ShownAs("message", made.text)
      /\ made.kind # "suppress" /\ learns => shown = ShownAs("system message", printed)
      /\ made.kind # "suppress" /\ ~learns /\ final # printed => shown = ShownAs("message", final)
      /\ made.kind # "suppress" /\ ~learns /\ final = printed => shown = ShownAs("nothing", printed)
  BY <1>3, <1>4, <1>8, Zenon DEF CmdFilter
<1>10. \A line : line \in hidden <=>
          \E k \in DOMAIN filters : filters[k].pattern.compiles /\ line \in filters[k].pattern.lines
  BY <1>5
<1>11. hidden \subseteq Lines
  <2>1. \A k \in DOMAIN filters : filters[k] \in Listing(L)
    BY DEF FilterLists
  <2>2. ASSUME NEW f \in Listing(L)
        PROVE  f.pattern.lines \in SUBSET Lines
    BY DEF Listing
  <2>3. QED
    BY <1>5, <2>1, <2>2
<1>12. RedactedLine \notin hidden /\ RedactedLine \notin Lines
  BY <1>11 DEF Lines, RedactedLine
<1>13. PICK before : before = made.text.lines
  OBVIOUS
<1>14. before \in Seq(Lines)
  BY <1>7, <1>13 DEF Texts
<1>15. final.lines = [k \in DOMAIN before |->
                        IF before[k] \in hidden THEN RedactedLine ELSE before[k]]
  <2>1. made.text.lines = before /\ made.text \in Texts
    BY <1>7, <1>13
  <2>2. final = [made.text EXCEPT !.lines = [k \in DOMAIN @ |->
                    IF @[k] \in hidden THEN RedactedLine ELSE @[k]]]
    BY <1>3, <1>5 DEF ApplyRedaction
  <2>3. QED
    BY <2>1, <2>2 DEF Texts
<1>16. PICK after : after = final.lines
  OBVIOUS
<1>17. /\ Len(after) = Len(before)
       /\ \A k \in DOMAIN after : after[k] \notin hidden /\ (after[k] = RedactedLine => before[k] \in hidden)
  <2>1. /\ DOMAIN after = DOMAIN before
        /\ \A k \in DOMAIN before : after[k] = IF before[k] \in hidden THEN RedactedLine ELSE before[k]
    BY <1>15, <1>16
  <2>2. Len(after) = Len(before)
    BY <1>14, <1>15, <1>16
  <2>3. \A k \in DOMAIN before : before[k] \in Lines
    BY <1>14
  <2>4. QED
    BY <1>12, <2>1, <2>2, <2>3
<1>18. ASSUME NEW t, NEW emits, shown = ShownAs(emits, t),
              \/ emits = "system message"
              \/ /\ Len(t.lines) = Len(before)
                 /\ \A k \in DOMAIN t.lines :
                       t.lines[k] \notin hidden /\ (t.lines[k] = RedactedLine => before[k] \in hidden)
       PROVE  RedactionHolds(printed, exit, rules, filters, learns)
  <2>1. shown.emits = emits /\ shown.text = t
    BY <1>18 DEF ShownAs
  <2>2. QED
    BY <1>4, <1>8, <1>10, <1>13, <1>18, <2>1 DEF RedactionHolds
<1>19. CASE made.kind = "suppress"
  <2>1. before = <<>> /\ DOMAIN before = {}
    BY <1>7, <1>13, <1>19 DEF Text
  <2>2. QED
    BY <1>9, <1>13, <1>18, <1>19, <2>1
<1>20. CASE made.kind # "suppress" /\ learns
  BY <1>9, <1>18, <1>20
<1>21. CASE made.kind # "suppress" /\ ~learns
  <2>1. shown = ShownAs("message", final) \/ shown = ShownAs("nothing", final)
    BY <1>9, <1>21
  <2>2. QED
    BY <1>16, <1>17, <1>18, <2>1
<1>22. QED
  BY <1>19, <1>20, <1>21

-----------------------------------------------------------------------------
(* Places in a script, and scripts that are checked *)

\* The bytes before each place of a text, and between two places.
BytesBefore(b, source) ==
    /\ b \in [0..Len(source) -> Nat] /\ b[0] = 0
    /\ \A k \in 1..Len(source) : b[k] = b[k - 1] + Width(source[k])
    /\ \A i \in 0..Len(source) : \A j \in i..Len(source) :
          ByteCount(SubSeq(source, i + 1, j)) = b[j] - b[i]

LEMMA WidthsAreNumbers ==
    \A c : Width(c) \in {1, 3}
BY DEF Width

LEMMA BytesAddUp ==
    ASSUME NEW V, NEW source \in Seq(V)
    PROVE  \E b : BytesBefore(b, source)
<1> DEFINE WidthsOf(s) == [i \in DOMAIN s |-> Width(s[i])]
<1>1. ASSUME NEW s \in Seq(V)
      PROVE  /\ WidthsOf(s) \in Seq(Nat) /\ Len(WidthsOf(s)) = Len(s)
             /\ \A i \in 1..Len(s) : WidthsOf(s)[i] = Width(s[i])
  <2>1. DOMAIN s = 1..Len(s) /\ Len(s) \in Nat
    OBVIOUS
  <2>2. \A i \in 1..Len(s) : Width(s[i]) \in Nat
    BY WidthsAreNumbers
  <2>3. QED
    BY <2>1, <2>2
<1>2. \A s : ByteCount(s) = Summed(WidthsOf(s))
  BY DEF ByteCount
<1> HIDE DEF WidthsOf
<1>3. PICK b : Adds(b, WidthsOf(source))
  BY <1>1, SummedGrows
<1>4. /\ b \in [0..Len(source) -> Nat] /\ b[0] = 0
      /\ \A k \in 1..Len(source) : b[k] = b[k - 1] + Width(source[k])
  BY <1>1, <1>3 DEF Adds
<1>5. ASSUME NEW i \in 0..Len(source), NEW j \in i..Len(source)
      PROVE  ByteCount(SubSeq(source, i + 1, j)) = b[j] - b[i]
  <2>1. PICK part : part = SubSeq(source, i + 1, j)
    OBVIOUS
  <2>2. PICK n : n = j - i
    OBVIOUS
  <2>3. /\ part \in Seq(V) /\ Len(part) = n /\ n \in Nat /\ j = i + n
        /\ \A m \in 1..n : part[m] = source[i + m]
    <3>1. i \in Nat /\ j \in Nat /\ n \in Nat /\ j = i + n /\ i <= j /\ j <= Len(source)
      BY <2>2
    <3>2. part \in Seq(V)
      BY <2>1, <3>1
    <3>3. Len(part) = j - i
      BY <2>1, <3>1
    <3>4. ASSUME NEW m \in 1..n
          PROVE  part[m] = source[i + m]
      <4>1. m \in 1..(j - (i + 1) + 1) /\ i + 1 + m - 1 = i + m
        BY <3>1
      <4>2. QED
        BY <2>1, <3>1, <4>1
    <3>5. QED
      BY <2>2, <3>1, <3>2, <3>3, <3>4
  <2>4. PICK f : Adds(f, WidthsOf(part))
    BY <1>1, <2>3, SummedGrows
  <2>5. /\ f \in [0..n -> Nat] /\ f[0] = 0
        /\ \A m \in 1..n : f[m] = f[m - 1] + Width(source[i + m])
        /\ Summed(WidthsOf(part)) = f[n]
    <3>1. PICK w : w = WidthsOf(part)
      OBVIOUS
    <3>2. Len(w) = n /\ \A m \in 1..n : w[m] = Width(source[i + m])
      BY <1>1, <2>3, <3>1
    <3>3. Adds(f, w)
      BY <2>4, <3>1
    <3>4. /\ f \in [0..n -> Nat] /\ f[0] = 0
          /\ \A m \in 1..n : f[m] = f[m - 1] + w[m]
          /\ Summed(w) = f[n]
      BY <3>2, <3>3 DEF Adds
    <3>5. QED
      BY <3>1, <3>2, <3>4
  <2> DEFINE S == {m \in 0..n : f[m] = b[i + m] - b[i]}
  <2>6. 0 \in S
    <3>1. i \in 0..Len(source) /\ i + 0 = i /\ b[i] \in Nat /\ 0 \in 0..n
      BY <1>4, <2>3
    <3>2. b[i + 0] - b[i] = 0
      BY <3>1
    <3>3. QED
      BY <2>5, <3>1, <3>2
  <2>7. ASSUME NEW m \in 1..n, m - 1 \in S
        PROVE  m \in S
    <3>1. /\ m \in 0..n /\ m - 1 \in 0..n /\ i + m \in 1..Len(source)
          /\ i + (m - 1) = (i + m) - 1 /\ i + (m - 1) \in 0..Len(source)
      <4>1. i \in Nat /\ m \in Nat /\ m >= 1 /\ m <= n
        BY <2>3
      <4>2. PICK len \in Nat : len = Len(source) /\ n \in Nat /\ i + n <= len
        BY <2>3
      <4>3. i + m <= len /\ i + m >= 1 /\ i + (m - 1) = (i + m) - 1
        BY <4>1, <4>2
      <4> QED
        BY <4>1, <4>2, <4>3
    <3>2. f[m - 1] = b[(i + m) - 1] - b[i]
      BY <2>7, <3>1
    <3>3. b[i + m] = b[(i + m) - 1] + Width(source[i + m])
      BY <1>4, <3>1
    <3>4. f[m] = f[m - 1] + Width(source[i + m])
      BY <2>5
    <3>5. b[(i + m) - 1] \in Nat /\ b[i] \in Nat /\ Width(source[i + m]) \in Nat
      <4>1. (i + m) - 1 \in 0..Len(source) /\ i \in 0..Len(source)
        BY <3>1
      <4>2. b[(i + m) - 1] \in Nat /\ b[i] \in Nat
        BY <1>4, <4>1
      <4> QED
        BY <4>2, WidthsAreNumbers
    <3>6. f[m] = b[i + m] - b[i]
      BY <3>2, <3>3, <3>4, <3>5
    <3>7. QED
      BY <3>1, <3>6
  <2>8. n \in S
    <3>1. 0..n \subseteq S
      <4> HIDE DEF S
      <4>1. QED
        BY <2>3, <2>6, <2>7, UpTo
    <3>2. n \in 0..n
      BY <2>3
    <3>3. QED
      BY <3>1, <3>2
  <2>9. QED
    BY <1>2, <2>1, <2>3, <2>5, <2>8
<1>6. QED
  BY <1>4, <1>5 DEF BytesBefore

\* Behind more characters there are more bytes.
LEMMA BytesGrow ==
    ASSUME NEW source, Len(source) \in Nat, NEW b, BytesBefore(b, source),
           NEW i \in 0..Len(source), NEW j \in (i + 1)..Len(source)
    PROVE  b[i] < b[j]
<1>1. PICK n : n = Len(source)
  OBVIOUS
<1>2. /\ b \in [0..n -> Nat] /\ n \in Nat
      /\ \A k \in 1..n : b[k] = b[k - 1] + Width(source[k])
  BY <1>1 DEF BytesBefore
<1>3. \A k \in 1..n : b[k - 1] < b[k] /\ b[k] \in Nat /\ b[k - 1] \in Nat
  <2>1. TAKE k \in 1..n
  <2>2. Width(source[k]) \in Nat /\ Width(source[k]) >= 1
    BY WidthsAreNumbers
  <2>3. k \in 0..n /\ k - 1 \in 0..n
    BY <1>2
  <2>4. QED
    BY <1>2, <2>2, <2>3
<1> DEFINE S == {k \in 0..n : k > i => b[i] < b[k]}
<1>4. i \in 0..n /\ b[i] \in Nat /\ j \in 0..n /\ j > i
  BY <1>1, <1>2
<1>5. 0 \in S
  BY <1>2, <1>4
<1>6. ASSUME NEW k \in 1..n, k - 1 \in S
      PROVE  k \in S
  <2>1. k \in 0..n
    BY <1>2
  <2>2. CASE k - 1 > i
    BY <1>3, <1>4, <1>6, <2>1, <2>2
  <2>3. CASE ~(k - 1 > i)
    <3>1. k > i => k - 1 = i
      BY <1>4, <2>1, <2>3
    <3>2. QED
      BY <1>3, <2>1, <3>1
  <2>4. QED
    BY <2>2, <2>3
<1>7. 0..n \subseteq S
  <2> HIDE DEF S
  <2>1. QED
    BY <1>2, <1>5, <1>6, UpTo
<1>8. QED
  BY <1>4, <1>7

\* PlacesAreRight, for scripts of any length.
LEMMA PlacesAreAlwaysRight ==
    ASSUME NEW V, NEW source \in Seq(V)
    PROVE  PlacesAreRight(source)
<1>1. PICK n : n = Len(source)
  OBVIOUS
<1>2. n \in Nat /\ DOMAIN source = 1..n
  BY <1>1
<1>3. PICK b : BytesBefore(b, source)
  BY BytesAddUp
<1>4. /\ b \in [0..n -> Nat] /\ b[0] = 0
      /\ \A k \in 1..n : b[k] = b[k - 1] + Width(source[k])
      /\ \A i \in 0..n : \A j \in i..n : ByteCount(SubSeq(source, i + 1, j)) = b[j] - b[i]
  BY <1>1, <1>3 DEF BytesBefore
<1>12. 0 \in 0..n /\ n \in 0..n /\ \A k \in 0..n : b[k] \in Nat
  <2>1. b \in [0..n -> Nat]
    BY <1>4
  <2>2. QED
    BY <1>2, <2>1
<1>5. \A k \in 0..n : ByteCount(SubSeq(source, 1, k)) = b[k]
  <2>1. TAKE k \in 0..n
  <2>2. 0 \in 0..n /\ k \in 0..n /\ 0 + 1 = 1 /\ b[k] \in Nat
    BY <1>2, <1>12
  <2>3. ByteCount(SubSeq(source, 0 + 1, k)) = b[k] - b[0]
    BY <1>4, <2>2
  <2>4. b[k] - b[0] = b[k]
    BY <1>4, <2>2
  <2>5. QED
    BY <2>2, <2>3, <2>4
<1>6. ByteCount(source) = b[n]
  <2>1. SubSeq(source, 1, n) = source
    BY <1>1
  <2>2. n \in 0..n
    BY <1>2
  <2>3. QED
    BY <1>5, <2>1, <2>2
<1>7. \A i \in 0..n : \A j \in (i + 1)..n : b[i] < b[j]
  BY <1>1, <1>2, <1>3, BytesGrow
<1> DEFINE ends == {i \in DOMAIN source : source[i] = NewLine}
<1>9. ends \in SUBSET (1..n) /\ IsFiniteSet(ends) /\ Cardinality(ends) \in Nat
  <2>1. ends \in SUBSET (1..n)
    BY <1>2
  <2>2. IsFiniteSet(1..n)
    BY <1>2, FS_Interval
  <2>3. QED
    BY <2>1, <2>2, FS_Subset, FS_CardinalityType
<1> HIDE DEF ends
<1> DEFINE UpToEnd(i) == {j \in ends : j <= i}
           LineStart(l) == ByteCount(SubSeq(source, 1, IF l = 1 THEN 0
                              ELSE CHOOSE i \in ends : Cardinality({j \in ends : j <= i}) = l - 1))
<1>10. ASSUME NEW offset \in 0..(ByteCount(source) + 1),
              NEW p, p = LineCol(source, offset), NEW byte, byte = LineStart(p.line) + p.col - 1
       PROVE  /\ p.line \in 1..(Cardinality(ends) + 1)
              /\ byte <= offset
              /\ offset <= ByteCount(source) => offset - byte < 3
              /\ \E k \in 0..Len(source) : byte = ByteCount(SubSeq(source, 1, k))
              /\ p.line <= Cardinality(ends) => byte < LineStart(p.line + 1)
  <2>1. PICK k \in 0..n :
           /\ k = Max({j \in 0..Len(source) : ByteCount(SubSeq(source, 1, j)) <= offset})
           /\ b[k] <= offset /\ \A j \in 0..n : b[j] <= offset => j <= k
    <3> DEFINE J == {j \in 0..Len(source) : ByteCount(SubSeq(source, 1, j)) <= offset}
    <3>1. J = {j \in 0..n : b[j] <= offset}
      BY <1>1, <1>5
    <3>8. b[0] <= offset
      BY <1>4, <1>6, <1>12
    <3>2. 0 \in J /\ J \in SUBSET Nat /\ \A j \in J : j <= n
      BY <1>2, <1>12, <3>1, <3>8
    <3> HIDE DEF J
    <3>3. \E k \in J : \A j \in J : j <= k
      BY <1>2, <3>2, Largest
    <3>4. \E k \in J : \A j \in J : k >= j
      BY <3>2, <3>3
    <3>5. Max(J) \in J /\ \A j \in J : Max(J) >= j
      BY <3>4, Zenon DEF Max
    <3>6. Max(J) \in 0..n /\ b[Max(J)] <= offset /\ \A j \in 0..n : b[j] <= offset => j <= Max(J)
      BY <3>1, <3>2, <3>5
    <3>7. QED
      BY <3>6 DEF J
  <2>2. PICK before : before = SubSeq(source, 1, k)
    OBVIOUS
  <2>3. /\ DOMAIN before = 1..k /\ before \in Seq(V) /\ Len(before) = k
        /\ \A i \in 1..k : before[i] = source[i]
    BY <1>1, <1>2, <2>2
  <2>4. PICK passed : passed = {i \in DOMAIN before : before[i] = NewLine}
    OBVIOUS
  <2>5. passed = UpToEnd(k) /\ passed \in SUBSET ends /\ passed \in SUBSET (1..k)
    <3>1. passed = {i \in 1..k : source[i] = NewLine}
      BY <2>3, <2>4
    <3>2. ends = {i \in 1..n : source[i] = NewLine}
      BY <1>2 DEF ends
    <3>3. \A i : i \in 1..k <=> i \in 1..n /\ i <= k
      BY <1>2
    <3>4. QED
      BY <3>1, <3>2, <3>3
  <2>6. IsFiniteSet(passed) /\ Cardinality(passed) \in Nat /\ Cardinality(passed) <= Cardinality(ends)
    BY <1>9, <2>5, FS_Subset, FS_CardinalityType
  <2>7. PICK from \in 0..k : from = Max({0} \cup passed) /\ from \in {0} \cup passed
                             /\ \A i \in passed : i <= from
    <3> DEFINE F == {0} \cup passed
    <3>1. 0 \in F /\ F \in SUBSET Nat /\ (\A i \in F : i <= k) /\ k \in Nat /\ F \in SUBSET (0..k)
      BY <1>2, <2>5
    <3>2. passed \subseteq F
      OBVIOUS
    <3> HIDE DEF F
    <3>3. \E i \in F : \A j \in F : j <= i
      BY <3>1, Largest
    <3>4. \E i \in F : \A j \in F : i >= j
      BY <3>1, <3>3
    <3>5. Max(F) \in F /\ \A j \in F : Max(F) >= j
      BY <3>4, Zenon DEF Max
    <3>6. Max(F) \in 0..k /\ \A i \in passed : i <= Max(F)
      BY <3>1, <3>2, <3>5
    <3>7. QED
      BY <3>5, <3>6 DEF F
  <2>8. p.line = Cardinality(passed) + 1 /\ p.col = ByteCount(SubSeq(before, from + 1, k)) + 1
    <3>1. p = [line |-> Cardinality(passed) + 1, col |-> ByteCount(SubSeq(before, from + 1, k)) + 1]
      BY <1>10, <2>1, <2>2, <2>4, <2>7 DEF LineCol
    <3>2. QED
      BY <3>1
  <2>9. p.col = (b[k] - b[from]) + 1
    <3>1. SubSeq(before, from + 1, k) = SubSeq(source, from + 1, k)
      BY <1>1, <1>2, <2>2
    <3>2. from \in 0..n /\ k \in from..n
      BY <1>2, <2>7
    <3>3. ByteCount(SubSeq(source, from + 1, k)) = b[k] - b[from]
      BY <1>4, <3>2
    <3>4. QED
      BY <2>8, <3>1, <3>3
  <2>10. LineStart(p.line) = b[from]
    <3>1. CASE passed = {}
      <4>1. Cardinality(passed) = 0 /\ p.line = 1 /\ from = 0
        BY <2>7, <2>8, <3>1, FS_EmptySet
      <4>2. 0 \in 0..n
        BY <1>2
      <4>3. QED
        BY <1>5, <4>1, <4>2
    <3>2. CASE passed # {}
      <4>1. Cardinality(passed) # 0
        BY <2>6, <3>2, FS_EmptySet
      <4>2. p.line # 1 /\ p.line - 1 = Cardinality(passed)
        BY <2>6, <2>8, <4>1
      <4>3. from \in passed
        <5>1. PICK i \in passed : TRUE
          BY <3>2
        <5>2. i \in 1..k /\ i <= from
          BY <2>5, <2>7
        <5>3. from # 0
          BY <5>2
        <5>4. QED
          BY <2>7, <5>3
      <4>4. UpToEnd(from) = passed
        <5>1. \A j \in ends : j <= from => j <= k
          BY <1>2, <1>9, <2>7
        <5>2. QED
          BY <2>5, <2>7, <5>1
      <4>5. ASSUME NEW i \in ends, Cardinality(UpToEnd(i)) = Cardinality(passed)
            PROVE  i = from
        <5>1. i \in Nat /\ from \in Nat /\ i \in UpToEnd(i) /\ from \in UpToEnd(from)
          BY <1>9, <2>5, <2>7, <4>3
        <5>2. IsFiniteSet(UpToEnd(i))
          <6>1. UpToEnd(i) \in SUBSET ends
            OBVIOUS
          <6>2. QED
            BY <1>9, <6>1, FS_Subset
        <5>3. CASE i < from
          <6>1. UpToEnd(i) \in SUBSET passed
            <7>1. \A j \in ends : j <= i => j <= from
              BY <1>9, <5>1, <5>3
            <7>2. QED
              BY <4>4, <7>1
          <6>2. UpToEnd(i) = passed
            BY <2>6, <4>5, <6>1, FS_Subset
          <6>3. QED
            BY <4>3, <5>1, <5>3, <6>2
        <5>4. CASE from < i
          <6>1. passed \in SUBSET UpToEnd(i)
            <7>1. \A j \in ends : j <= from => j <= i
              BY <1>9, <5>1, <5>4
            <7>2. QED
              BY <4>4, <7>1
          <6>2. UpToEnd(i) = passed
            BY <4>5, <5>2, <6>1, FS_Subset
          <6>3. i \in passed
            BY <5>1, <6>2
          <6>4. i <= from
            BY <2>7, <6>3
          <6>5. QED
            BY <5>1, <5>4, <6>4
        <5>5. QED
          BY <5>1, <5>3, <5>4
      <4>6. (CHOOSE i \in ends : Cardinality({j \in ends : j <= i}) = p.line - 1) = from
        <5>1. from \in ends /\ Cardinality({j \in ends : j <= from}) = p.line - 1
          BY <2>5, <4>2, <4>3, <4>4
        <5>2. \A i \in ends : Cardinality({j \in ends : j <= i}) = p.line - 1 => i = from
          BY <4>2, <4>5
        <5>3. QED
          BY <5>1, <5>2, Zenon
      <4>7. from \in 0..n
        BY <1>2, <2>7
      <4>8. LineStart(p.line) = ByteCount(SubSeq(source, 1, from))
        BY <4>2, <4>6
      <4>9. QED
        BY <1>5, <4>7, <4>8
    <3>3. QED
      BY <3>1, <3>2
  <2>11. byte = b[k] /\ b[k] \in Nat /\ offset \in Nat
    <3>4. k \in 0..n /\ from \in 0..n
      BY <1>2
    <3>1. b[k] \in Nat /\ b[from] \in Nat /\ b[n] \in Nat
      BY <1>12, <3>4
    <3>2. byte = b[from] + ((b[k] - b[from]) + 1) - 1
      BY <1>10, <2>9, <2>10
    <3>3. QED
      BY <1>6, <3>1, <3>2
  <2>12. p.line \in 1..(Cardinality(ends) + 1)
    BY <1>9, <2>6, <2>8
  <2>13. offset <= ByteCount(source) => offset - byte < 3
    <3>1. CASE k = n
      BY <1>6, <2>11, <3>1
    <3>2. CASE k # n
      <4>1. k + 1 \in 1..n /\ k + 1 \in 0..n /\ (k + 1) - 1 = k /\ ~(k + 1 <= k)
        BY <1>2, <3>2
      <4>2. b[k + 1] = b[k] + Width(source[k + 1]) /\ b[k + 1] \in Nat
        BY <1>4, <4>1
      <4>3. Width(source[k + 1]) \in {1, 3}
        BY WidthsAreNumbers
      <4>4. ~(b[k + 1] <= offset)
        BY <2>1, <4>1
      <4>5. QED
        BY <2>11, <4>2, <4>3, <4>4
    <3>3. QED
      BY <3>1, <3>2
  <2>14. \E m \in 0..Len(source) : byte = ByteCount(SubSeq(source, 1, m))
    BY <1>1, <1>5, <2>11
  <2>15. ASSUME p.line <= Cardinality(ends)
         PROVE  byte < LineStart(p.line + 1)
    <3>1. p.line + 1 # 1 /\ (p.line + 1) - 1 = Cardinality(passed) + 1
      BY <2>6, <2>8
    <3>2. ASSUME NEW i \in ends, Cardinality(UpToEnd(i)) = Cardinality(passed) + 1
          PROVE  i \in (k + 1)..n
      <4>1. i \in 1..n
        BY <1>9
      <4>2. CASE i <= k
        <5>1. UpToEnd(i) \in SUBSET passed
          <6>1. \A j \in ends : j <= i => j <= k
            BY <1>2, <1>9, <4>1, <4>2
          <6>2. QED
            BY <2>5, <6>1
        <5>2. Cardinality(UpToEnd(i)) <= Cardinality(passed)
          BY <2>6, <5>1, FS_Subset
        <5>3. QED
          BY <2>6, <3>2, <5>2
      <4>3. QED
        BY <1>2, <4>1, <4>2
    <3>3. \E i \in ends : Cardinality(UpToEnd(i)) = Cardinality(passed) + 1
      <4>1. PICK left : left = ends \ passed
        OBVIOUS
      <4>2. left # {}
        <5>1. ends # passed
          BY <1>9, <2>6, <2>8, <2>15
        <5>2. QED
          BY <2>5, <4>1, <5>1
      <4>3. left \in SUBSET Nat
        <5>1. ends \in SUBSET Nat
          BY <1>9
        <5>2. QED
          BY <4>1, <5>1
      <4>4. PICK i \in left : \A j \in left : i <= j
        BY <4>2, <4>3, Least
      <4>5. UpToEnd(i) = passed \cup {i} /\ i \in ends /\ i \notin passed
        <5>1. i \in ends /\ i \notin passed /\ i \in 1..n /\ ~(i <= k)
          BY <1>9, <2>5, <4>1
        <5>2. \A j \in ends : j <= i <=> j \in passed \/ j = i
          <6>1. TAKE j \in ends
          <6>2. j \in 1..n
            BY <1>9
          <6>3. j \in passed <=> j <= k
            BY <2>5
          <6>4. j \notin passed => i <= j
            BY <4>1, <4>4
          <6>5. QED
            BY <1>2, <5>1, <6>2, <6>3, <6>4
        <5>3. QED
          BY <2>5, <5>1, <5>2
      <4>6. Cardinality(UpToEnd(i)) = Cardinality(passed) + 1
        BY <2>6, <4>5, FS_AddElement
      <4>7. QED
        BY <4>5, <4>6
    <3>4. PICK next : next = CHOOSE i \in ends : Cardinality({j \in ends : j <= i}) = (p.line + 1) - 1
      OBVIOUS
    <3>5. next \in ends /\ Cardinality(UpToEnd(next)) = Cardinality(passed) + 1
      <4>1. \E i \in ends : Cardinality({j \in ends : j <= i}) = (p.line + 1) - 1
        BY <3>1, <3>3
      <4>2. next \in ends /\ Cardinality({j \in ends : j <= next}) = (p.line + 1) - 1
        BY <3>4, <4>1, Zenon
      <4>3. QED
        BY <3>1, <4>2
    <3>6. next \in (k + 1)..n /\ next \in 0..n
      BY <1>2, <3>2, <3>5
    <3>7. LineStart(p.line + 1) = ByteCount(SubSeq(source, 1, next))
      BY <3>1, <3>4
    <3>8. QED
      BY <1>5, <1>7, <2>11, <3>6, <3>7
  <2>16. QED
    BY <2>1, <2>11, <2>12, <2>13, <2>14, <2>15
<1> HIDE DEF UpToEnd
<1>11. \A offset \in 0..(ByteCount(source) + 1) :
          LET p == LineCol(source, offset)
              byte == LineStart(p.line) + p.col - 1
          IN /\ p.line \in 1..(Cardinality(ends) + 1)
             /\ byte <= offset
             /\ offset <= ByteCount(source) => offset - byte < 3
             /\ \E k \in 0..Len(source) : byte = ByteCount(SubSeq(source, 1, k))
             /\ p.line <= Cardinality(ends) => byte < LineStart(p.line + 1)
  <2> HIDE DEF LineStart
  <2>1. TAKE offset \in 0..(ByteCount(source) + 1)
  <2>2. PICK p : p = LineCol(source, offset)
    OBVIOUS
  <2>3. PICK byte : byte = LineStart(p.line) + p.col - 1
    OBVIOUS
  <2>4. /\ p.line \in 1..(Cardinality(ends) + 1)
        /\ byte <= offset
        /\ offset <= ByteCount(source) => offset - byte < 3
        /\ \E k \in 0..Len(source) : byte = ByteCount(SubSeq(source, 1, k))
        /\ p.line <= Cardinality(ends) => byte < LineStart(p.line + 1)
    BY <1>10, <2>2, <2>3, Zenon
  <2>5. QED
    BY <2>2, <2>3, <2>4, Zenon
<1>13. QED
  BY <1>11, Zenon DEF PlacesAreRight, ends

\* When nothing comes of sequences behind each other, there is nothing in any.
LEMMA JoinedNothing ==
    ASSUME NEW V, NEW s \in Seq(Seq(V)), Joined(s) = <<>>
    PROVE  \A k \in 1..Len(s) : s[k] = <<>>
<1>1. PICK f : Joins(f, s, V)
  BY JoinedGrows
<1>2. PICK n : n = Len(s)
  OBVIOUS
<1>3. /\ n \in Nat /\ f \in [0..n -> Seq(V)] /\ f[n] = <<>>
      /\ \A i \in 1..n : f[i] = f[i - 1] \o s[i]
  <2>1. Joined(s) = f[Len(s)] /\ f \in [0..Len(s) -> Seq(V)] /\ \A i \in 1..Len(s) : f[i] = f[i - 1] \o s[i]
    BY <1>1 DEF Joins
  <2>2. Len(s) \in Nat
    OBVIOUS
  <2>3. QED
    BY <1>2, <2>1, <2>2
<1>4. ASSUME NEW i \in 1..n
      PROVE  /\ s[i] \in Seq(V) /\ f[i] \in Seq(V) /\ f[i - 1] \in Seq(V)
             /\ Len(s[i]) \in Nat /\ Len(f[i]) \in Nat /\ Len(f[i - 1]) \in Nat
             /\ Len(f[i]) = Len(f[i - 1]) + Len(s[i])
  <2>1. s[i] \in Seq(V)
    BY <1>2
  <2>2. i \in 0..n /\ i - 1 \in 0..n
    BY <1>3
  <2>3. f[i] \in Seq(V) /\ f[i - 1] \in Seq(V) /\ f[i] = f[i - 1] \o s[i]
    BY <1>3, <2>2
  <2>4. \A q \in Seq(V) : Len(q) \in Nat
    OBVIOUS
  <2>5. Len(f[i - 1] \o s[i]) = Len(f[i - 1]) + Len(s[i])
    BY <2>1, <2>3
  <2>6. QED
    BY <2>1, <2>3, <2>4, <2>5
<1>5. PICK l : l = [k \in 1..n |-> Len(s[k])]
  OBVIOUS
<1>6. PICK t : t = [i \in 0..n |-> Len(f[i])]
  OBVIOUS
<1>7. /\ \A i \in 1..n : l[i] \in Nat /\ t[i] \in Nat /\ t[i - 1] \in Nat /\ t[i] = t[i - 1] + l[i]
      /\ t[n] = 0
  <2>1. \A i \in 1..n : i \in 0..n /\ i - 1 \in 0..n
    BY <1>3
  <2>2. n \in 0..n /\ Len(<<>>) = 0
    BY <1>3
  <2>3. QED
    BY <1>3, <1>4, <1>5, <1>6, <2>1, <2>2
<1> DEFINE S == {i \in 0..n : \A k \in 1..i : l[k] <= t[i]}
<1>10. 0 \in S
  BY <1>3
<1>11. ASSUME NEW i \in 1..n, i - 1 \in S
       PROVE  i \in S
  <2>1. i \in 0..n /\ i \in Nat
    BY <1>3
  <2>2. l[i] \in Nat /\ t[i - 1] \in Nat /\ t[i] = t[i - 1] + l[i]
    BY <1>7
  <2>3. ASSUME NEW k \in 1..i
        PROVE  l[k] <= t[i]
    <3>1. CASE k = i
      BY <2>2, <3>1
    <3>2. CASE k # i
      <4>1. k \in 1..(i - 1) /\ k \in 1..n
        BY <1>3, <2>1, <3>2
      <4>2. l[k] <= t[i - 1] /\ l[k] \in Nat
        BY <1>7, <1>11, <4>1
      <4>3. QED
        BY <2>2, <4>2
    <3>3. QED
      BY <3>1, <3>2
  <2>4. QED
    BY <2>1, <2>3
<1>12. n \in S
  <2>1. 0..n \subseteq S
    <3> HIDE DEF S
    <3>1. QED
      BY <1>3, <1>10, <1>11, UpTo
  <2>2. n \in 0..n
    BY <1>3
  <2>3. QED
    BY <2>1, <2>2
<1>8. ASSUME NEW k \in 1..n
      PROVE  s[k] = <<>>
  <2>1. l[k] = 0
    BY <1>7, <1>12
  <2>2. s[k] \in Seq(V) /\ Len(s[k]) = 0
    BY <1>4, <1>5, <2>1
  <2>3. QED
    BY <2>2, EmptySeq
<1>9. QED
  BY <1>2, <1>8

\* Scripts with what nu said of them.
Said == {"warning", "error"}
CheckedScripts == [checked : BOOLEAN, diagnostics : Seq(Said)]

\* ScriptsAreChecked, for scripts in any number.
LEMMA ScriptsAreAlwaysChecked ==
    ASSUME NEW scripts \in Seq(CheckedScripts)
    PROVE  ScriptsAreChecked(scripts)
<1> DEFINE ErrorsOf(s) == IF ~s.checked THEN <<"io error">>
                          ELSE Kept(s.diagnostics, {k \in DOMAIN s.diagnostics : s.diagnostics[k] = "error"})
           all == [k \in DOMAIN scripts |-> ErrorsOf(scripts[k])]
           V == {"warning", "error", "io error"}
<1>1. ASSUME NEW s \in CheckedScripts
      PROVE  ErrorsOf(s) \in Seq(V)
  <2>1. s.diagnostics \in Seq(Said)
    BY DEF CheckedScripts
  <2>2. PICK I : I = {k \in DOMAIN s.diagnostics : s.diagnostics[k] = "error"}
    OBVIOUS
  <2>3. Kept(s.diagnostics, I) \in Seq(Said)
    BY <2>1, KeptType
  <2>4. ASSUME NEW q \in Seq(Said)
        PROVE  q \in Seq(V)
    <3>1. Len(q) \in Nat /\ q \in [1..Len(q) -> Said]
      OBVIOUS
    <3>3. Said \subseteq V
      BY DEF Said
    <3> HIDE DEF V
    <3>2. QED
      BY <3>1, <3>3
  <2>5. <<"io error">> \in Seq(V)
    OBVIOUS
  <2>6. ErrorsOf(s) = <<"io error">> \/ ErrorsOf(s) = Kept(s.diagnostics, I)
    BY <2>2
  <2> HIDE DEF ErrorsOf, V
  <2>7. QED
    BY <2>3, <2>4, <2>5, <2>6
<1>2. ASSUME NEW s \in CheckedScripts, ErrorsOf(s) = <<>>
      PROVE  s.checked /\ "error" \notin ToSet(s.diagnostics)
  <2>1. s.diagnostics \in Seq(Said) /\ DOMAIN s.diagnostics = 1..Len(s.diagnostics)
    BY DEF CheckedScripts
  <2>2. <<"io error">> # <<>>
    OBVIOUS
  <2>3. s.checked
    BY <1>2, <2>2
  <2>4. PICK I : I = {k \in DOMAIN s.diagnostics : s.diagnostics[k] = "error"}
    OBVIOUS
  <2>5. Kept(s.diagnostics, I) = <<>>
    BY <1>2, <2>3, <2>4
  <2>6. PICK d : d = s.diagnostics
    OBVIOUS
  <2>7. d \in Seq(Said) /\ Kept(d, I) = <<>> /\ I = {k \in 1..Len(d) : d[k] = "error"}
    BY <2>1, <2>4, <2>5, <2>6
  <2>8. \A i \in I \cap (1..Len(d)) : \E j \in 1..Len(Kept(d, I)) : Kept(d, I)[j] = d[i]
    BY <2>7, KeptElements
  <2>9. Len(<<>>) = 0
    OBVIOUS
  <2>10. \A i \in 1..Len(d) : d[i] # "error"
    BY <2>7, <2>8, <2>9
  <2>11. "error" \notin ToSet(d)
    BY <2>7, <2>10 DEF ToSet
  <2>12. QED
    BY <2>3, <2>6, <2>11
<1>3. all \in Seq(Seq(V)) /\ Len(all) = Len(scripts) /\ \A k \in DOMAIN scripts : all[k] = ErrorsOf(scripts[k])
  <2>1. DOMAIN scripts = 1..Len(scripts) /\ Len(scripts) \in Nat /\ \A k \in DOMAIN scripts : scripts[k] \in CheckedScripts
    OBVIOUS
  <2> HIDE DEF ErrorsOf, V
  <2>2. \A k \in DOMAIN scripts : ErrorsOf(scripts[k]) \in Seq(V)
    BY <1>1, <2>1
  <2>3. QED
    BY <2>1, <2>2
<1>4. CheckFiles(scripts) = Joined(all)
  BY DEF CheckFiles
<1> HIDE DEF ErrorsOf, all, V
<1>5. ASSUME NuCheckExit(scripts, TRUE) = 0, NEW k \in DOMAIN scripts
      PROVE  scripts[k].checked /\ "error" \notin ToSet(scripts[k].diagnostics)
  <2>1. scripts # <<>> /\ k \in 1..Len(scripts) /\ scripts[k] \in CheckedScripts
    BY <1>5
  <2>2. CheckFiles(scripts) = <<>>
    BY <1>5, <2>1 DEF NuCheckExit
  <2>3. all[k] = <<>>
    BY <1>3, <1>4, <2>1, <2>2, JoinedNothing
  <2>4. QED
    BY <1>2, <1>3, <2>1, <2>3
<1>6. QED
  BY <1>5 DEF ScriptsAreChecked

-----------------------------------------------------------------------------
(* Files of filters, and what obfsck-mcp suggests                          *)

ListedAs(L, P) == [label : L, pattern : P]
SuggestedAs(L, P) == [label : L, pattern : P, complete : BOOLEAN]
FileKinds == {"absent", "blank", "list", "other"}

\* A file that is not there or blank has no entries.
FiltersFiles(L, P) ==
    {f \in [kind : FileKinds, entries : Seq(ListedAs(L, P))] :
        f.kind \in {"absent", "blank"} => f.entries = <<>>}
Answering(L, P) ==
    [present : BOOLEAN, exit : Nat,
     lines : Seq([kind : {"blank", "json", "text"}, suggestions : Seq(SuggestedAs(L, P))])]

\* What is appended to a file: the suggestions that are new to it.
Appended(made, file, suggested, added) ==
    /\ made.entries = file.entries \o added
    /\ \A k \in 1..Len(added) : \E i \in 1..Len(suggested) : added[k].label = suggested[i].label
    /\ \A i \in 1..Len(suggested) :
          \/ \E k \in 1..Len(file.entries) : Trim(file.entries[k].label) = suggested[i].label
          \/ \E k \in 1..Len(added) : added[k].label = suggested[i].label
    /\ added = <<>> => made = file
    /\ added # <<>> => made.kind = IF file.kind = "other" THEN "other" ELSE "list"

LEMMA WritingAppends ==
    ASSUME NEW L, NEW P, NEW file \in FiltersFiles(L, P), NEW suggested \in Seq(SuggestedAs(L, P)),
           NEW made, made = WriteObfsckFilters(file, suggested)
    PROVE  \E added \in Seq(ListedAs(L, P)) : Appended(made, file, suggested, added)
<1>1. PICK existing : existing = {Trim(file.entries[k].label) : k \in DOMAIN file.entries}
  OBVIOUS
<1>2. PICK I : I = {k \in DOMAIN suggested : suggested[k].label \notin existing}
  OBVIOUS
<1>3. PICK new : new = Kept(suggested, I)
  OBVIOUS
<1>4. PICK added : added = [k \in DOMAIN new |-> [label |-> new[k].label, pattern |-> new[k].pattern]]
  OBVIOUS
<1>5. made = IF new = <<>> THEN file
             ELSE [kind |-> IF file.kind = "other" THEN "other" ELSE "list",
                   entries |-> file.entries \o added]
  BY <1>1, <1>2, <1>3, <1>4, Zenon DEF WriteObfsckFilters
<1>6. file.entries \in Seq(ListedAs(L, P)) /\ file = [kind |-> file.kind, entries |-> file.entries]
  BY DEF FiltersFiles
<1>7. new \in Seq(SuggestedAs(L, P))
  BY <1>3, KeptType
<1>8. /\ \A j \in 1..Len(new) : \E i \in I \cap (1..Len(suggested)) : new[j] = suggested[i]
      /\ \A i \in I \cap (1..Len(suggested)) : \E j \in 1..Len(new) : new[j] = suggested[i]
  <2>1. /\ \A j \in 1..Len(Kept(suggested, I)) : \E i \in I \cap (1..Len(suggested)) :
              Kept(suggested, I)[j] = suggested[i]
        /\ \A i \in I \cap (1..Len(suggested)) : \E j \in 1..Len(Kept(suggested, I)) :
              Kept(suggested, I)[j] = suggested[i]
    BY ONLY suggested \in Seq(SuggestedAs(L, P)), KeptElements
  <2>2. QED
    BY <1>3, <2>1
<1>9. /\ added \in Seq(ListedAs(L, P)) /\ Len(added) = Len(new)
      /\ \A k \in 1..Len(new) : added[k].label = new[k].label
  <2>1. DOMAIN new = 1..Len(new) /\ Len(new) \in Nat
    BY <1>7
  <2>2. ASSUME NEW k \in 1..Len(new)
        PROVE  [label |-> new[k].label, pattern |-> new[k].pattern] \in ListedAs(L, P)
    <3>1. new[k] \in SuggestedAs(L, P)
      BY <1>7
    <3>2. QED
      BY <3>1 DEF SuggestedAs, ListedAs
  <2>3. QED
    BY <1>4, <2>1, <2>2
<1>10. (new = <<>> <=> added = <<>>) /\ (added = <<>> => file.entries \o added = file.entries)
  <2>1. new = <<>> <=> Len(new) = 0
    BY <1>7, EmptySeq
  <2>2. added = <<>> <=> Len(added) = 0
    BY <1>9, EmptySeq
  <2>3. added = <<>> => file.entries \o added = file.entries
    BY <1>6
  <2>4. QED
    BY <1>9, <2>1, <2>2, <2>3
<1>11. \A k \in 1..Len(added) : \E i \in 1..Len(suggested) : added[k].label = suggested[i].label
  <2>1. TAKE k \in 1..Len(added)
  <2>2. k \in 1..Len(new) /\ added[k].label = new[k].label
    BY <1>9
  <2>3. PICK i \in 1..Len(suggested) : new[k] = suggested[i]
    BY <1>8, <2>2
  <2>4. QED
    BY <2>2, <2>3
<1>12. ASSUME NEW i \in 1..Len(suggested)
       PROVE  \/ \E k \in 1..Len(file.entries) : Trim(file.entries[k].label) = suggested[i].label
              \/ \E k \in 1..Len(added) : added[k].label = suggested[i].label
  <2>1. DOMAIN file.entries = 1..Len(file.entries) /\ DOMAIN suggested = 1..Len(suggested)
    BY <1>6
  <2>2. CASE suggested[i].label \in existing
    BY <1>1, <2>1, <2>2
  <2>3. CASE suggested[i].label \notin existing
    <3>1. i \in I \cap (1..Len(suggested))
      BY <1>2, <2>1, <2>3
    <3>2. QED
      BY <1>8, <1>9, <3>1, ZenonT(60)
  <2>4. QED
    BY <2>2, <2>3
<1>13. /\ made.entries = file.entries \o added
       /\ added = <<>> => made = file
       /\ added # <<>> => made.kind = IF file.kind = "other" THEN "other" ELSE "list"
  <2>1. CASE new = <<>>
    BY <1>5, <1>10, <2>1
  <2>2. CASE new # <<>>
    BY <1>5, <1>10, <2>2
  <2>3. QED
    BY <2>1, <2>2
<1>14. Appended(made, file, suggested, added)
  BY <1>11, <1>12, <1>13 DEF Appended
<1>15. QED
  BY <1>9, <1>14

\* What is appended leaves a file of filters.
LEMMA FilesStayFiles ==
    ASSUME NEW L, NEW P, NEW file \in FiltersFiles(L, P), NEW suggested \in Seq(SuggestedAs(L, P))
    PROVE  WriteObfsckFilters(file, suggested) \in FiltersFiles(L, P)
<1>1. PICK made : made = WriteObfsckFilters(file, suggested)
  OBVIOUS
<1>2. PICK added \in Seq(ListedAs(L, P)) : Appended(made, file, suggested, added)
  BY <1>1, WritingAppends
<1>3. /\ added = <<>> => made = file
      /\ made.entries = file.entries \o added
      /\ added # <<>> => made.kind \in {"other", "list"}
  BY <1>2 DEF Appended
<1>4. made = [kind |-> made.kind, entries |-> made.entries]
  <2>1. file = [kind |-> file.kind, entries |-> file.entries]
    BY DEF FiltersFiles
  <2>2. PICK now, all : made = file \/ made = [kind |-> now, entries |-> all]
    BY <1>1 DEF WriteObfsckFilters
  <2>3. QED
    BY <2>1, <2>2
<1>5. CASE added = <<>>
  BY <1>1, <1>3, <1>5
<1>6. CASE added # <<>>
  <2>1. file.entries \in Seq(ListedAs(L, P))
    BY DEF FiltersFiles
  <2>2. made.entries \in Seq(ListedAs(L, P))
    BY <1>3, <2>1
  <2>3. QED
    BY <1>1, <1>3, <1>4, <1>6, <2>2 DEF FiltersFiles, FileKinds
<1>7. QED
  BY <1>5, <1>6

\* What obfsck-mcp suggests.
LEMMA SuggestionsAreTyped ==
    ASSUME NEW L, NEW P, NEW mcp \in Answering(L, P)
    PROVE  FilterSuggestions(mcp) \in Seq(SuggestedAs(L, P))
<1> DEFINE Line == [kind : {"blank", "json", "text"}, suggestions : Seq(SuggestedAs(L, P))]
<1>1. PICK lines : lines = mcp.lines
  OBVIOUS
<1>2. lines \in Seq(Line)
  BY <1>1 DEF Answering
<1>3. PICK said : said = Kept(lines, {k \in DOMAIN lines : lines[k].kind # "blank"})
  OBVIOUS
<1>4. said \in Seq(Line)
  <2> HIDE DEF Line
  <2>1. QED
    BY <1>2, <1>3, KeptType
<1>5. \/ Response(mcp) = NoAnswer
      \/ said # <<>> /\ Response(mcp) = <<said[Len(said)]>>
  BY <1>1, <1>3 DEF Response, Last
<1>6. CASE Response(mcp) = NoAnswer
  BY <1>6, EmptySeq DEF FilterSuggestions
<1>7. CASE Response(mcp) # NoAnswer
  <2>1. PICK last : last = said[Len(said)]
    OBVIOUS
  <2>2. last \in Line
    <3> HIDE DEF Line
    <3>1. Len(said) \in 1..Len(said)
      BY <1>4, <1>5, <1>7, EmptySeq
    <3>2. QED
      BY <1>4, <2>1, <3>1
  <2>3. PICK all : all = last.suggestions
    OBVIOUS
  <2>4. all \in Seq(SuggestedAs(L, P))
    BY <2>2, <2>3
  <2>5. Response(mcp)[1] = last
    BY <1>5, <1>7, <2>1
  <2>6. FilterSuggestions(mcp) = Kept(all, {k \in DOMAIN all : all[k].complete})
    BY <1>7, <2>3, <2>5, Zenon DEF FilterSuggestions
  <2>7. QED
    BY <2>4, <2>6, KeptType
<1>8. QED
  BY <1>6, <1>7

LEMMA TrimOnce ==
    \A label : Trim(Trim(label)) = Trim(label) /\ (label # Padded => Trim(label) = label)
BY DEF Trim, Padded

\* DiscoverKeeps, for files, answers and scans of any size.
LEMMA DiscoverAlwaysKeeps ==
    ASSUME NEW L, NEW P, NEW files, files.filters \in FiltersFiles(L, P),
           NEW scan, NEW generate, NEW rtk, NEW mcp \in Answering(L, P)
    PROVE  DiscoverKeeps(files, scan, generate, rtk, mcp)
<1> DEFINE new == DiscoverFiles(files, scan, generate, rtk, mcp)
           again == DiscoverFiles(new, scan, generate, rtk, mcp)
           suggested == FilterSuggestions(mcp)
           labels == {suggested[k].label : k \in DOMAIN suggested}
           loaded == LoadObfsckFilters(new.filters)
<1>1. new = DiscoverFiles(files, scan, generate, rtk, mcp)
  OBVIOUS
<1>2. again = DiscoverFiles(new, scan, generate, rtk, mcp)
  OBVIOUS
<1>3. suggested = FilterSuggestions(mcp)
  OBVIOUS
<1>5. labels = {suggested[k].label : k \in DOMAIN suggested}
  OBVIOUS
<1>27. loaded = LoadObfsckFilters(new.filters)
  OBVIOUS
<1> HIDE DEF new, again, suggested, labels, loaded
<1>4. suggested \in Seq(SuggestedAs(L, P)) /\ DOMAIN suggested = 1..Len(suggested)
  <2>1. suggested \in Seq(SuggestedAs(L, P))
    BY <1>3, SuggestionsAreTyped
  <2>2. QED
    BY <2>1
<1>6. PICK file : file = files.filters
  OBVIOUS
<1>7. PICK made : made = new.filters
  OBVIOUS
<1>8. PICK asks : asks = (files.ctx /\ generate /\ scan.unhandled # {})
  OBVIOUS
<1>9. /\ asks => made = WriteObfsckFilters(file, suggested)
      /\ ~asks => made = file
      /\ asks => again.filters = WriteObfsckFilters(made, suggested)
      /\ ~asks => again.filters = made
      /\ scan.scanned = 0 \/ ~files.ctx => new.tools = files.tools
  <2>1. CASE ~files.ctx
    BY <1>1, <1>2, <1>6, <1>7, <1>8, <2>1 DEF DiscoverFiles
  <2>2. CASE files.ctx
    <3>1. PICK t, f : /\ new = [ctx |-> files.ctx, tools |-> t, filters |-> f]
                      /\ f = IF generate /\ scan.unhandled # {}
                             THEN WriteObfsckFilters(file, suggested) ELSE file
                      /\ scan.scanned = 0 => t = files.tools
      BY <1>1, <1>3, <1>6, <2>2 DEF DiscoverFiles
    <3>2. new.ctx /\ new.tools = t /\ new.filters = f
      BY <2>2, <3>1
    <3>3. PICK t2, f2 : /\ again = [ctx |-> new.ctx, tools |-> t2, filters |-> f2]
                        /\ f2 = IF generate /\ scan.unhandled # {}
                                THEN WriteObfsckFilters(made, suggested) ELSE made
      BY <1>2, <1>3, <1>7, <3>2 DEF DiscoverFiles
    <3>4. again.filters = f2
      BY <3>3
    <3>5. QED
      BY <1>7, <1>8, <2>2, <3>1, <3>2, <3>3, <3>4
  <2>3. QED
    BY <2>1, <2>2
<1>10. PICK added \in Seq(ListedAs(L, P)) :
          /\ made.entries = file.entries \o added
          /\ added = <<>> => made = file
          /\ asks => Appended(made, file, suggested, added)
          /\ ~asks => added = <<>>
  <2>1. CASE asks
    <3>1. file \in FiltersFiles(L, P) /\ made = WriteObfsckFilters(file, suggested)
      BY <1>6, <1>9, <2>1
    <3>2. PICK a \in Seq(ListedAs(L, P)) : Appended(made, file, suggested, a)
      BY <1>4, <3>1, WritingAppends
    <3>3. made.entries = file.entries \o a /\ (a = <<>> => made = file)
      BY <3>2, Zenon DEF Appended
    <3>4. QED
      BY <2>1, <3>2, <3>3, Zenon
  <2>2. CASE ~asks
    <3>1. <<>> \in Seq(ListedAs(L, P))
      OBVIOUS
    <3>2. file.entries \in Seq(ListedAs(L, P))
      BY <1>6 DEF FiltersFiles
    <3>3. file.entries = file.entries \o <<>>
      BY <3>2
    <3>4. QED
      BY <1>9, <2>2, <3>1, <3>3
  <2>3. QED
    BY <2>1, <2>2
<1>11. PICK old : old = file.entries
  OBVIOUS
<1>12. PICK entries : entries = made.entries
  OBVIOUS
<1>13. /\ old \in Seq(ListedAs(L, P)) /\ entries = old \o added /\ entries \in Seq(ListedAs(L, P))
       /\ DOMAIN old = 1..Len(old) /\ DOMAIN entries = 1..Len(entries)
       /\ \A k \in 1..Len(old) : k \in 1..Len(entries) /\ entries[k] = old[k]
       /\ \A k \in 1..Len(added) : Len(old) + k \in 1..Len(entries) /\ entries[Len(old) + k] = added[k]
       /\ \A k \in 1..Len(entries) : (\E i \in 1..Len(old) : entries[k] = old[i])
                                     \/ \E i \in 1..Len(added) : entries[k] = added[i]
  <2>1. old \in Seq(ListedAs(L, P))
    BY <1>6, <1>11 DEF FiltersFiles
  <2>2. entries = old \o added
    BY <1>10, <1>11, <1>12
  <2>3. PICK E : E = ListedAs(L, P)
    OBVIOUS
  <2>4. old \in Seq(E) /\ added \in Seq(E) /\ Len(old) \in Nat /\ Len(added) \in Nat
    BY <2>1, <2>3
  <2>5. entries \in Seq(E) /\ Len(entries) = Len(old) + Len(added)
    BY <2>2, <2>4
  <2>6. \A k \in 1..Len(old) : k \in 1..Len(entries) /\ entries[k] = old[k]
    BY <2>2, <2>4, <2>5
  <2>7. \A k \in 1..Len(added) : Len(old) + k \in 1..Len(entries) /\ entries[Len(old) + k] = added[k]
    BY <2>2, <2>4, <2>5
  <2>8. ASSUME NEW k \in 1..Len(entries)
        PROVE  (\E i \in 1..Len(old) : entries[k] = old[i]) \/ \E i \in 1..Len(added) : entries[k] = added[i]
    <3>1. CASE k \in 1..Len(old)
      BY <2>6, <3>1
    <3>2. CASE k \notin 1..Len(old)
      <4>1. k - Len(old) \in 1..Len(added) /\ Len(old) + (k - Len(old)) = k
        BY <2>4, <2>5, <3>2
      <4>2. QED
        BY <2>7, <4>1
    <3>3. QED
      BY <3>1, <3>2
  <2>9. QED
    BY <2>1, <2>2, <2>3, <2>4, <2>5, <2>6, <2>7, <2>8
<1>14. IsPrefix(old, entries)
  <2>1. Len(old) \in Nat /\ Len(entries) \in Nat /\ Len(old) <= Len(entries)
    BY <1>10, <1>13
  <2>2. SubSeq(old, 1, Len(old)) = old
    BY <1>13
  <2>3. SubSeq(entries, 1, Len(old)) = old
    BY <1>13, <2>1
  <2>4. QED
    BY <2>1, <2>2, <2>3 DEF IsPrefix
<1>15. asks => \A l \in labels : \/ \E k \in 1..Len(old) : Trim(old[k].label) = l
                                \/ \E k \in 1..Len(added) : added[k].label = l
  <2>1. ASSUME asks, NEW l \in labels
        PROVE  \/ \E k \in 1..Len(old) : Trim(old[k].label) = l
               \/ \E k \in 1..Len(added) : added[k].label = l
    <3>1. PICK i \in 1..Len(suggested) : suggested[i].label = l
      BY <1>4, <1>5
    <3>2. Appended(made, file, suggested, added)
      BY <1>10, <2>1
    <3>3. \/ \E k \in 1..Len(file.entries) : Trim(file.entries[k].label) = suggested[i].label
          \/ \E k \in 1..Len(added) : added[k].label = suggested[i].label
      BY <3>2, Zenon DEF Appended
    <3>4. QED
      BY <1>11, <3>1, <3>3
  <2>2. QED
    BY <2>1
<1>16. asks => \A k \in 1..Len(added) : added[k].label \in labels
  BY <1>4, <1>5, <1>10 DEF Appended
<1>17. ASSUME Padded \notin labels
       PROVE  again.filters = made
  <2>1. CASE asks
    <3>1. PICK existing : existing = {Trim(made.entries[k].label) : k \in DOMAIN made.entries}
      OBVIOUS
    <3>2. \A l \in labels : l \in existing
      <4>1. TAKE l \in labels
      <4>2. CASE \E k \in 1..Len(old) : Trim(old[k].label) = l
        <5>1. PICK k \in 1..Len(old) : Trim(old[k].label) = l
          BY <4>2
        <5>2. k \in DOMAIN entries /\ entries[k] = old[k]
          BY <1>13
        <5>3. QED
          BY <1>12, <3>1, <5>1, <5>2
      <4>3. CASE \E k \in 1..Len(added) : added[k].label = l
        <5>1. PICK k \in 1..Len(added) : added[k].label = l
          BY <4>3
        <5>2. Trim(l) = l
          BY <1>17, TrimOnce
        <5>3. Len(old) + k \in DOMAIN entries /\ entries[Len(old) + k].label = l
          BY <1>13, <5>1
        <5>4. QED
          BY <1>12, <3>1, <5>2, <5>3
      <4>4. QED
        BY <1>15, <2>1, <4>2, <4>3
    <3>3. PICK I : I = {k \in DOMAIN suggested : suggested[k].label \notin existing}
      OBVIOUS
    <3>4. I \cap (1..Len(suggested)) = {}
      BY <1>5, <3>2, <3>3
    <3>5. Kept(suggested, I) = <<>>
      BY <1>4, <3>4, KeptAll
    <3>6. WriteObfsckFilters(made, suggested) = made
      BY <3>1, <3>3, <3>5 DEF WriteObfsckFilters
    <3>7. QED
      BY <1>9, <2>1, <3>6
  <2>2. QED
    BY <1>9, <2>1
<1>18. loaded = LoadObfsckFilters(made)
  BY <1>7, <1>27
<1>19. PICK before : before = LoadObfsckFilters(file)
  OBVIOUS
<1>20. /\ before = IF file.kind = "list" /\ \A k \in 1..Len(old) : old[k].label # NoScalar
                   THEN old ELSE <<>>
       /\ loaded = IF made.kind = "list" /\ \A k \in 1..Len(entries) : entries[k].label # NoScalar
                   THEN entries ELSE <<>>
  BY <1>11, <1>12, <1>13, <1>18, <1>19 DEF LoadObfsckFilters
<1>21. ASSUME NoScalar \notin labels, file.kind # "other",
              \A k \in 1..Len(old) : old[k].label # NoScalar
       PROVE  \A k \in 1..Len(entries) : entries[k].label # NoScalar
  <2>1. \A k \in 1..Len(added) : added[k].label # NoScalar
    <3>1. CASE asks
      BY <1>16, <1>21, <3>1
    <3>2. CASE ~asks
      <4>1. Len(added) = 0
        BY <1>10, <3>2
      <4>2. QED
        BY <4>1
    <3>3. QED
      BY <3>1, <3>2
  <2>2. QED
    BY <1>13, <1>21, <2>1
<1>22. file.kind = "list" => made.kind = "list"
  <2>1. CASE asks
    BY <1>10, <2>1 DEF Appended
  <2>2. CASE ~asks
    BY <1>9, <2>2
  <2>3. QED
    BY <2>1, <2>2
<1>23. ASSUME NoScalar \notin labels, file.kind # "other"
       PROVE  IsPrefix(before, loaded)
  <2>1. CASE before = <<>>
    <3>1. loaded \in Seq(ListedAs(L, P))
      BY <1>13, <1>20, EmptySeq
    <3>2. Len(<<>>) = 0 /\ SubSeq(<<>>, 1, 0) = <<>> /\ SubSeq(loaded, 1, 0) = <<>> /\ 0 <= Len(loaded)
      BY <3>1
    <3>3. QED
      BY <2>1, <3>2 DEF IsPrefix
  <2>2. CASE before # <<>>
    <3>1. file.kind = "list" /\ before = old /\ \A k \in 1..Len(old) : old[k].label # NoScalar
      BY <1>20, <2>2
    <3>2. loaded = entries
      BY <1>20, <1>21, <1>22, <1>23, <3>1
    <3>3. QED
      BY <1>14, <3>1, <3>2
  <2>3. QED
    BY <2>1, <2>2
<1>24. ASSUME NoScalar \notin labels, file.kind # "other", asks,
              \A k \in 1..Len(old) : old[k].label # NoScalar,
              NEW l \in labels
       PROVE  \E k \in DOMAIN loaded : Trim(loaded[k].label) = Trim(l)
  <2>1. old # <<>> => file.kind = "list"
    BY <1>6, <1>11, <1>24 DEF FiltersFiles, FileKinds
  <2>2. added # <<>> => made.kind = "list"
    BY <1>10, <1>24 DEF Appended
  <2>3. CASE \E k \in 1..Len(old) : Trim(old[k].label) = l
    <3>1. PICK k \in 1..Len(old) : Trim(old[k].label) = l
      BY <2>3
    <3>2. old # <<>>
      BY <3>1
    <3>3. loaded = entries
      BY <1>20, <1>21, <1>22, <1>24, <2>1, <3>2
    <3>4. Trim(old[k].label) = Trim(l)
      BY <3>1, TrimOnce
    <3>5. k \in DOMAIN loaded /\ loaded[k] = old[k]
      BY <1>13, <3>3
    <3>6. QED
      BY <3>4, <3>5
  <2>4. CASE \E k \in 1..Len(added) : added[k].label = l
    <3>1. PICK k \in 1..Len(added) : added[k].label = l
      BY <2>4
    <3>2. added # <<>>
      BY <3>1
    <3>3. loaded = entries
      BY <1>20, <1>21, <1>24, <2>2, <3>2
    <3>4. Len(old) + k \in DOMAIN loaded /\ loaded[Len(old) + k].label = l
      BY <1>13, <3>1, <3>3
    <3>5. QED
      BY <3>4
  <2>5. QED
    BY <1>15, <1>24, <2>3, <2>4
<1>25. /\ IsPrefix(files.filters.entries, new.filters.entries)
       /\ NoScalar \notin labels /\ files.filters.kind # "other" =>
             IsPrefix(LoadObfsckFilters(files.filters), loaded)
       /\ Padded \notin labels => again.filters = new.filters
  BY <1>6, <1>7, <1>11, <1>12, <1>14, <1>17, <1>19, <1>23
<1>26. ASSUME NoScalar \notin labels, files.filters.kind # "other",
              files.ctx /\ generate /\ scan.unhandled # {}
              /\ (\A k \in DOMAIN files.filters.entries : files.filters.entries[k].label # NoScalar)
       PROVE  {Trim(l) : l \in labels} \subseteq {Trim(loaded[k].label) : k \in DOMAIN loaded}
  <2>1. asks /\ file.kind # "other" /\ \A k \in 1..Len(old) : old[k].label # NoScalar
    BY <1>6, <1>8, <1>11, <1>13, <1>26
  <2>2. \A l \in labels : \E k \in DOMAIN loaded : Trim(loaded[k].label) = Trim(l)
    BY <1>24, <1>26, <2>1
  <2>3. QED
    BY <2>2
<1>28. scan.scanned = 0 \/ ~files.ctx => new.tools = files.tools
  BY <1>9
<1>29. QED
  BY <1>25, <1>26, <1>28 DEF DiscoverKeeps, new, again, suggested, labels, loaded

\* ToolsFailOpen, whatever rtk says.
LEMMA ToolsAlwaysFailOpen ==
    ASSUME NEW scan, NEW rtk
    PROVE  ToolsFailOpen(scan, rtk)
<1>1. ASSUME ~DetectRtk(rtk) \/ rtk.exit # 0 \/ rtk.prints # "json"
      PROVE  RtkSavings(rtk) = NullRtk.savings
  <2>1. NullRtk.savings = <<>>
    BY DEF NullRtk
  <2>2. DetectRtk(rtk) => Stdout(rtk) # <<"json">>
    <3>1. <<rtk.prints>> = <<"json">> => rtk.prints = "json"
      OBVIOUS
    <3>2. NoAnswer # <<"json">>
      BY DEF NoAnswer
    <3>3. QED
      BY <1>1, <3>1, <3>2 DEF Stdout
  <2>3. RtkSavings(rtk) = <<>>
    BY <2>2 DEF RtkSavings
  <2>4. QED
    BY <2>1, <2>3
<1>2. ASSUME ~rtk.present \/ rtk.exit # 0
      PROVE  ProcessRtk(rtk) = NullRtk /\ ~RtkProbe(rtk).supported
  <2>1. Stdout(rtk) = NoAnswer
    BY <1>2 DEF Stdout
  <2>2. RtkRewrites(rtk) = FALSE
    BY <2>1 DEF RtkRewrites
  <2>3. RtkVerify(rtk) = NoAnswer
    BY <2>1 DEF RtkVerify
  <2>4. RtkSavings(rtk) = <<>>
    <3>1. NoAnswer # <<"json">>
      BY DEF NoAnswer
    <3>2. QED
      BY <2>1, <3>1 DEF RtkSavings
  <2>5. ProcessRtk(rtk) = NullRtk
    BY <2>2, <2>3, <2>4, Zenon DEF ProcessRtk, NullRtk
  <2>6. ~RtkProbe(rtk).supported
    BY <2>2 DEF RtkProbe
  <2>7. QED
    BY <2>5, <2>6
<1>3. QED
  BY <1>1, <1>2 DEF ToolsFailOpen

-----------------------------------------------------------------------------
(* The calendar: years of an era of 400, and months, begin in March *)

\* The first day of a year of an era, that begins in March, and how long it is.
StartOf(y) == (365 * y + y \div 4) - y \div 100
YearDays(y) == IF IsLeap(y + 1) THEN 366 ELSE 365

LEMMA Divides ==
    ASSUME NEW z \in Int, NEW d \in Nat \ {0}
    PROVE  /\ z \div d \in Int /\ z % d \in 0..(d - 1)
           /\ z = (d * (z \div d)) + (z % d)
BY SMTT(30)

LEMMA Quotient ==
    ASSUME NEW y \in Int, NEW d \in Nat \ {0}, NEW q \in Int, d * q <= y, y < d * q + d
    PROVE  y \div d = q
BY SMTT(30)

\* The leap days of an era are taken off as they should be: a is how many times
\* 1460 days have gone by, c how many centuries.
LEMMA LeapDaysTakenOff ==
    ASSUME NEW a \in Int, NEW b \in Int, NEW c \in 0..3, NEW t \in Int, NEW q \in Int,
           NEW y \in Int, NEW d \in Int,
           0 <= b, b < 1460, d = 1460 * a + b, 36524 * c <= d, d <= 36524 * c + 36523,
           0 <= (b + c) - a - 365 * t, (b + c) - a - 365 * t < 365, y = 4 * a + t,
           4 * q <= y, y < 4 * q + 4
    PROVE  /\ 100 * c <= y /\ y < 100 * c + 100
           /\ d - (365 * y + q - c) \in 0..365
           /\ d - (365 * y + q - c) = 365 => y + 1 = 4 * q + 4 /\ y + 1 # 100 * c + 100
<1>1. 100 * c <= y /\ y < 100 * c + 100
    BY SMTT(30)
<1>2. d - (365 * y + q - c) >= 0
    BY SMTT(30)
<1>3. d - (365 * y + q - c) <= 365
    BY SMTT(30)
<1>4. d - (365 * y + q - c) = 365 => y + 1 = 4 * q + 4 /\ y + 1 # 100 * c + 100
    BY SMTT(30)
<1> QED
    BY <1>1, <1>2, <1>3, <1>4, SMTT(30)

\* The day of the year of a day of an era.
LEMMA DaysHaveYears ==
    ASSUME NEW d \in Int, 0 <= d, d <= 146096
    PROVE  /\ YearOfEra(d) \in 0..399
           /\ d - StartOf(YearOfEra(d)) \in 0..365
           /\ d - StartOf(YearOfEra(d)) = 365 => IsLeap(YearOfEra(d) + 1)
           /\ d = 146096 => YearOfEra(d) = 399 /\ d - StartOf(399) = 365
           /\ d = 0 => YearOfEra(d) = 0 /\ d - StartOf(0) = 0
<1>1. CASE d = 146096
  <2>1. d \div 1460 = 100 /\ d \div 36524 = 4 /\ d \div 146096 = 1
    BY <1>1, SMTT(30)
  <2>2. YearOfEra(d) = 399
    BY <1>1, <2>1, SMTT(30) DEF YearOfEra, DaysPer400Y, DaysPer100Y, DaysPer4Y, DaysPerYear
  <2>3. StartOf(399) = 145731
    BY SMTT(30) DEF StartOf
  <2>4. IsLeap(400)
    BY SMTT(30) DEF IsLeap
  <2> QED
    BY <1>1, <2>2, <2>3, <2>4, SMTT(30)
<1>2. CASE d < 146096
  <2> DEFINE a == d \div 1460
             b == d % 1460
             c == d \div 36524
             y == YearOfEra(d)
             t == ((b + c) - a) \div 365
             q == y \div 4
  <2>1. a \in Int /\ b \in 0..1459 /\ d = 1460 * a + b
    BY Divides, SMTT(30)
  <2>2. c \in 0..3 /\ 36524 * c <= d /\ d <= 36524 * c + 36523
    BY <1>2, Divides, SMTT(30)
  <2>3. d \div 146096 = 0
    BY <1>2, SMTT(30)
  <2>4. y = ((d - a) + c) \div 365
    BY <2>1, <2>2, <2>3, SMTT(30) DEF YearOfEra, DaysPer400Y, DaysPer100Y, DaysPer4Y, DaysPerYear
  <2> HIDE DEF a, b, c, y
  <2>5. t \in Int /\ 0 <= (b + c) - a - 365 * t /\ (b + c) - a - 365 * t < 365
    BY <2>1, <2>2, Divides, SMTT(30)
  <2> HIDE DEF t
  <2>6. y = 4 * a + t
    BY <2>1, <2>2, <2>4, <2>5, SMTT(30)
  <2>7. y \in Int /\ q \in Int /\ 4 * q <= y /\ y < 4 * q + 4
    <3>1. y \in Int
      BY <2>1, <2>5, <2>6, SMTT(30)
    <3> QED
      BY <3>1, SMTT(30)
  <2> HIDE DEF q
  <2>8. /\ 100 * c <= y /\ y < 100 * c + 100
        /\ d - (365 * y + q - c) \in 0..365
        /\ d - (365 * y + q - c) = 365 => y + 1 = 4 * q + 4 /\ y + 1 # 100 * c + 100
    BY <2>1, <2>2, <2>5, <2>6, <2>7, LeapDaysTakenOff, SMTT(30)
  <2>9. y \in 0..399 /\ y \div 100 = c
    BY <2>1, <2>2, <2>5, <2>6, <2>8, SMTT(30)
  <2>10. StartOf(y) = 365 * y + q - c
    BY <2>1, <2>2, <2>5, <2>6, <2>7, <2>9, SMTT(30) DEF StartOf, q
  <2>11. y + 1 = 4 * q + 4 /\ y + 1 # 100 * c + 100 => IsLeap(y + 1)
    BY <2>2, <2>7, <2>8, <2>9, SMTT(90) DEF IsLeap
  <2>12. d = 0 => y = 0
    BY <2>2, <2>4, SMTT(30) DEF a, c
  <2>13. StartOf(0) = 0
    BY SMTT(30) DEF StartOf
  <2> QED
    BY <1>2, <2>8, <2>9, <2>10, <2>11, <2>12, <2>13, SMTT(30) DEF y
<1> QED
    BY <1>1, <1>2, SMTT(30)


\* Leap years come again after an era.
LEMMA LeapYearsComeAgain ==
    ASSUME NEW y \in Nat, NEW era \in Nat
    PROVE  IsLeap(y + era * 400) <=> IsLeap(y)
<1> DEFINE x == y + era * 400
<1>1. x % 4 = y % 4 /\ x % 100 = y % 100 /\ x % 400 = y % 400
  <2>1. x \in Nat /\ x = y + 400 * era /\ era * 400 = 400 * era
    BY SMTT(30)
  <2> HIDE DEF x
  <2>2. x % 4 = y % 4
    BY <2>1, SMTT(30)
  <2>3. x % 100 = y % 100
    BY <2>1, SMTT(30)
  <2>4. x % 400 = y % 400
    BY <2>1, SMTT(30)
  <2> QED
    BY <2>2, <2>3, <2>4
<1> QED
    BY <1>1 DEF IsLeap

\* A year begins when the year before it is over.
LEMMA YearsFollow ==
    ASSUME NEW y \in Int, 0 <= y, y <= 398
    PROVE  StartOf(y + 1) = StartOf(y) + YearDays(y)
<1>1. CASE (y + 1) % 100 = 0
  <2>1. (y + 1) \div 4 = (y \div 4) + 1 /\ (y + 1) \div 100 = (y \div 100) + 1
    BY <1>1, SMTT(30)
  <2>2. ~IsLeap(y + 1)
    BY <1>1, SMTT(30) DEF IsLeap
  <2> QED
    BY <2>1, <2>2, SMTT(30) DEF StartOf, YearDays
<1>2. CASE (y + 1) % 100 # 0 /\ (y + 1) % 4 = 0
  <2>1. (y + 1) \div 4 = (y \div 4) + 1 /\ (y + 1) \div 100 = y \div 100
    BY <1>2, SMTT(30)
  <2>2. IsLeap(y + 1)
    BY <1>2, SMTT(30) DEF IsLeap
  <2> QED
    BY <2>1, <2>2, SMTT(30) DEF StartOf, YearDays
<1>3. CASE (y + 1) % 100 # 0 /\ (y + 1) % 4 # 0
  <2>1. (y + 1) \div 4 = y \div 4 /\ (y + 1) \div 100 = y \div 100
    BY <1>3, SMTT(30)
  <2>2. ~IsLeap(y + 1)
    BY <1>3, SMTT(30) DEF IsLeap
  <2> QED
    BY <2>1, <2>2, SMTT(30) DEF StartOf, YearDays
<1> QED
    BY <1>1, <1>2, <1>3

\* A later year begins no earlier than the one before is over.
LEMMA LaterYears ==
    ASSUME NEW x \in Int, NEW y \in Int, 0 <= x, x < y, y <= 399
    PROVE  StartOf(x) + YearDays(x) <= StartOf(y)
<1>1. StartOf(x + 1) = StartOf(x) + YearDays(x)
    BY YearsFollow, SMTT(30)
<1>2. StartOf(x + 1) <= StartOf(y)
  <2> DEFINE z == x + 1
  <2>1. z \in Int /\ z <= y
    BY SMTT(30)
  <2> HIDE DEF z
  <2>2. z \div 4 <= y \div 4 /\ y \div 100 - z \div 100 <= y - z
    BY <2>1, SMTT(30)
  <2>3. StartOf(z) <= StartOf(y)
    BY <2>1, <2>2, SMTT(30) DEF StartOf
  <2> QED
    BY <2>3 DEF z
<1> QED
    BY <1>1, <1>2

\* A day is in one year only.
LEMMA YearOfDay ==
    ASSUME NEW d \in Int, NEW y \in Int, 0 <= d, d <= 146096, 0 <= y, y <= 399,
           StartOf(y) <= d, d < StartOf(y) + YearDays(y)
    PROVE  YearOfEra(d) = y
<1> DEFINE x == YearOfEra(d)
<1>1. x \in Int /\ 0 <= x /\ x <= 399 /\ StartOf(x) <= d /\ d < StartOf(x) + YearDays(x)
  <2>1. x \in 0..399 /\ d - StartOf(x) \in 0..365 /\ (d - StartOf(x) = 365 => IsLeap(x + 1))
    BY DaysHaveYears
  <2> HIDE DEF x
  <2>2. StartOf(x) \in Int
    BY <2>1, SMTT(30) DEF StartOf
  <2> QED
    BY <2>1, <2>2, SMTT(30) DEF YearDays
<1> HIDE DEF x
<1>2. StartOf(x) \in Int /\ StartOf(y) \in Int /\ YearDays(x) \in Int /\ YearDays(y) \in Int
    BY <1>1, SMTT(30) DEF StartOf, YearDays
<1>3. ~(x < y) /\ ~(y < x)
    BY <1>1, <1>2, LaterYears, SMTT(30)
<1>4. x = y
    BY <1>1, <1>3, SMTT(30)
<1> QED
    BY <1>4 DEF x

\* The day after a day of an era: the next one of its year, or the first of the
\* next year.
LEMMA DaysFollow ==
    ASSUME NEW d \in Int, 0 <= d, d <= 146095
    PROVE  LET y == YearOfEra(d)
               doy == d - StartOf(y)
           IN  \/ /\ doy + 1 < YearDays(y) /\ YearOfEra(d + 1) = y
               \/ /\ doy + 1 = YearDays(y) /\ YearOfEra(d + 1) = y + 1
                  /\ (d + 1) - StartOf(y + 1) = 0
<1> DEFINE y == YearOfEra(d)
<1>1. y \in 0..399 /\ d - StartOf(y) \in 0..365 /\ (d - StartOf(y) = 365 => IsLeap(y + 1))
    BY DaysHaveYears, SMTT(30)
<1> HIDE DEF y
<1>2. StartOf(y) \in Int /\ YearDays(y) \in {365, 366} /\ d + 1 \in Int
    BY <1>1, SMTT(30) DEF StartOf, YearDays
<1>3. d - StartOf(y) < YearDays(y)
    BY <1>1, <1>2, SMTT(30) DEF YearDays
<1>4. CASE d - StartOf(y) + 1 < YearDays(y)
  <2>1. YearOfEra(d + 1) = y
    BY <1>1, <1>2, <1>4, YearOfDay, SMTT(90)
  <2> QED
    BY <2>1, <1>4 DEF y
<1>5. CASE d - StartOf(y) + 1 = YearDays(y)
  <2>1. y # 399
    <3>1. StartOf(399) = 145731
      BY SMTT(30) DEF StartOf
    <3>2. YearDays(399) = 366
      BY SMTT(30) DEF YearDays, IsLeap
    <3> QED
      BY <1>1, <1>2, <1>5, <3>1, <3>2, SMTT(30)
  <2>2. StartOf(y + 1) = StartOf(y) + YearDays(y)
    BY <1>1, <2>1, YearsFollow, SMTT(30)
  <2>3. YearDays(y + 1) \in {365, 366}
    BY DEF YearDays
  <2>4. d + 1 = StartOf(y + 1)
    BY <1>1, <1>2, <1>5, <2>2, SMTT(30)
  <2>5. YearOfEra(d + 1) = y + 1
    BY <1>1, <1>2, <2>1, <2>3, <2>4, YearOfDay, SMTT(30)
  <2> QED
    BY <1>2, <1>5, <2>4, <2>5, SMTT(30) DEF y
<1> QED
    BY <1>1, <1>2, <1>3, <1>4, <1>5, SMTT(30)


-----------------------------------------------------------------------------
\* The months of a year that begins in March: the first day of each, what it is
\* called, and the date of a day.
FirstDay(mp) == (153 * mp + 2) \div 5
MonthOf(doy) == (5 * doy + 2) \div 153
Called(mp) == IF mp < 10 THEN mp + 3 ELSE mp - 9
DateOf(year, doy) ==
    [year |-> year + (IF Called(MonthOf(doy)) <= 2 THEN 1 ELSE 0),
     month |-> Called(MonthOf(doy)),
     day |-> (doy - FirstDay(MonthOf(doy))) + 1]

LEMMA MonthsBegin ==
    /\ FirstDay(0) = 0 /\ FirstDay(1) = 31 /\ FirstDay(2) = 61 /\ FirstDay(3) = 92
    /\ FirstDay(4) = 122 /\ FirstDay(5) = 153 /\ FirstDay(6) = 184 /\ FirstDay(7) = 214
    /\ FirstDay(8) = 245 /\ FirstDay(9) = 275 /\ FirstDay(10) = 306 /\ FirstDay(11) = 337
    /\ FirstDay(12) = 367
BY SMTT(30) DEF FirstDay

\* A day is in the month that has begun, and the next has not.
LEMMA DaysHaveMonths ==
    ASSUME NEW doy \in Int, 0 <= doy, doy <= 365
    PROVE  /\ MonthOf(doy) \in 0..11
           /\ FirstDay(MonthOf(doy)) <= doy /\ doy < FirstDay(MonthOf(doy) + 1)
           /\ \A mp \in 0..11 : FirstDay(mp) <= doy /\ doy < FirstDay(mp + 1) => MonthOf(doy) = mp
<1> DEFINE m == MonthOf(doy)
<1>1. m \in Int /\ 153 * m <= 5 * doy + 2 /\ 5 * doy + 2 < 153 * m + 153
  <2> DEFINE z == 5 * doy + 2
  <2>1. z \in Int
    BY SMTT(30)
  <2> HIDE DEF z
  <2>2. z \div 153 \in Int /\ 153 * (z \div 153) <= z /\ z < 153 * (z \div 153) + 153
    BY <2>1, SMTT(30)
  <2> QED
    BY <2>2 DEF z, MonthOf
<1> HIDE DEF m
<1>2. \A k \in Int : /\ FirstDay(k) \in Int
                     /\ 5 * FirstDay(k) <= 153 * k + 2 /\ 153 * k + 2 < 5 * FirstDay(k) + 5
  <2> TAKE k \in Int
  <2> DEFINE z == 153 * k + 2
  <2>1. z \in Int
    BY SMTT(30)
  <2> HIDE DEF z
  <2>2. z \div 5 \in Int /\ 5 * (z \div 5) <= z /\ z < 5 * (z \div 5) + 5
    BY <2>1, SMTT(30)
  <2> QED
    BY <2>2 DEF z, FirstDay
<1>3. m \in 0..11
    BY <1>1, SMTT(30)
<1>4. FirstDay(m) <= doy /\ doy < FirstDay(m + 1)
    BY <1>1, <1>2, <1>3, SMTT(30)
<1>5. ASSUME NEW mp \in 0..11, FirstDay(mp) <= doy, doy < FirstDay(mp + 1)
      PROVE  m = mp
    BY <1>1, <1>2, <1>3, <1>5, SMTT(30)
<1> QED
    BY <1>3, <1>4, <1>5 DEF m

\* Between the first days of two months is the length of the month.
LEMMA MonthsAreAsLong ==
    ASSUME NEW year \in Int, NEW mp \in 0..10
    PROVE  MonthDays(year, Called(mp)) = FirstDay(mp + 1) - FirstDay(mp)
<1>1. mp = 0 \/ mp = 1 \/ mp = 2 \/ mp = 3 \/ mp = 4 \/ mp = 5 \/ mp = 6 \/ mp = 7
      \/ mp = 8 \/ mp = 9 \/ mp = 10
    BY SMTT(30)
<1> QED
    BY <1>1, MonthsBegin, SMTT(30) DEF MonthDays, Called

\* The day after a day of a year that begins in March.
LEMMA DatesFollowInAYear ==
    ASSUME NEW year \in Nat, NEW doy \in Int, 0 <= doy,
           doy < (IF IsLeap(year + 1) THEN 366 ELSE 365)
    PROVE  /\ doy + 1 < (IF IsLeap(year + 1) THEN 366 ELSE 365) =>
                 DateOf(year, doy + 1) = NextDate(DateOf(year, doy))
           /\ doy + 1 = (IF IsLeap(year + 1) THEN 366 ELSE 365) =>
                 DateOf(year + 1, 0) = NextDate(DateOf(year, doy))
<1> DEFINE m == MonthOf(doy)
           last == IF IsLeap(year + 1) THEN 365 ELSE 364
<1>0. last \in {364, 365} /\ doy <= 365
    BY SMTT(30)
<1>1. m \in 0..11 /\ FirstDay(m) <= doy /\ doy < FirstDay(m + 1)
    BY <1>0, DaysHaveMonths, SMTT(30)
<1>2. FirstDay(m) \in Int /\ FirstDay(m + 1) \in Int
  <2> HIDE DEF m
  <2> QED
    BY <1>1, SMTT(30) DEF FirstDay
<1> HIDE DEF m
<1>3. Called(m) \in 1..12 /\ (Called(m) = 12 <=> m = 9) /\ (Called(m) = 2 <=> m = 11)
      /\ (Called(m) <= 2 <=> m >= 10)
    BY <1>1, SMTT(30) DEF Called
<1> DEFINE date == DateOf(year, doy)
<1>4. date = [year |-> year + (IF m >= 10 THEN 1 ELSE 0), month |-> Called(m),
              day |-> (doy - FirstDay(m)) + 1]
    BY <1>3 DEF DateOf, m
<1> HIDE DEF date
<1>5. CASE doy + 1 < FirstDay(m + 1) /\ doy # last
  <2>1. MonthOf(doy + 1) = m
    <3>1. doy + 1 <= 365 /\ doy + 1 \in Int
      BY <1>0, <1>5, SMTT(30)
    <3> QED
      BY <1>1, <1>2, <1>5, <3>1, DaysHaveMonths, SMTT(30)
  <2>2. date.day < MonthDays(date.year, date.month)
    <3>1. CASE m <= 10
      <4>1. MonthDays(date.year, Called(m)) = FirstDay(m + 1) - FirstDay(m)
        BY <1>1, <1>4, <3>1, MonthsAreAsLong, SMTT(30)
      <4> QED
        BY <1>1, <1>2, <1>4, <1>5, <4>1, SMTT(30)
    <3>2. CASE m = 11
      <4>1. date.month = 2 /\ date.year = year + 1 /\ date.day = doy - 336
        BY <1>3, <1>4, <3>2, MonthsBegin, SMTT(30)
      <4>2. MonthDays(year + 1, 2) = IF IsLeap(year + 1) THEN 29 ELSE 28
        BY DEF MonthDays
      <4> QED
        BY <1>5, <4>1, <4>2, SMTT(30)
    <3> QED
      BY <1>1, <3>1, <3>2, SMTT(30)
  <2>3. NextDate(date) = [date EXCEPT !.day = @ + 1]
    <3>1. date.day \in Int /\ MonthDays(date.year, date.month) \in Int
      BY <1>2, <1>4, SMTT(30) DEF MonthDays
    <3>2. ~(date.day >= MonthDays(date.year, date.month))
      BY <2>2, <3>1, SMTT(30)
    <3> QED
      BY <2>2, <3>2 DEF NextDate
  <2>4. DateOf(year, doy + 1) =
           [year |-> year + (IF m >= 10 THEN 1 ELSE 0), month |-> Called(m),
            day |-> ((doy + 1) - FirstDay(m)) + 1]
    BY <2>1, <1>3 DEF DateOf
  <2>5. DateOf(year, doy + 1) = NextDate(date)
    BY <1>2, <1>4, <2>3, <2>4, SMTT(30)
  <2> QED
    BY <2>5, <1>5, SMTT(30) DEF date
<1>6. CASE doy + 1 = FirstDay(m + 1) /\ doy # last /\ m <= 10
  <2>1. MonthOf(doy + 1) = m + 1
    <3>1. doy + 1 <= 365 /\ doy + 1 \in Int
      BY <1>0, <1>6, SMTT(30)
    <3>2. FirstDay((m + 1) + 1) > doy + 1
      <4>1. m = 0 \/ m = 1 \/ m = 2 \/ m = 3 \/ m = 4 \/ m = 5 \/ m = 6 \/ m = 7
            \/ m = 8 \/ m = 9 \/ m = 10
        BY <1>1, <1>6, SMTT(30)
      <4> QED
        BY <1>6, <4>1, MonthsBegin, SMTT(30)
    <3> QED
      BY <1>1, <1>2, <1>6, <3>1, <3>2, DaysHaveMonths, SMTT(30)
  <2>2. date.day = MonthDays(date.year, date.month)
    <3>1. MonthDays(date.year, Called(m)) = FirstDay(m + 1) - FirstDay(m)
      BY <1>1, <1>4, <1>6, MonthsAreAsLong, SMTT(30)
    <3> QED
      BY <1>1, <1>2, <1>4, <1>6, <3>1, SMTT(30)
  <2>3. DateOf(year, doy + 1) =
           [year |-> year + (IF m + 1 >= 10 THEN 1 ELSE 0), month |-> Called(m + 1), day |-> 1]
    <3>1. Called(m + 1) <= 2 <=> m + 1 >= 10
      BY <1>1, <1>6, SMTT(30) DEF Called
    <3>2. ((doy + 1) - FirstDay(m + 1)) + 1 = 1
      BY <1>2, <1>6, SMTT(30)
    <3> QED
      BY <2>1, <3>1, <3>2 DEF DateOf
  <2>4. CASE m # 9
    <3>1. Called(m + 1) = Called(m) + 1 /\ date.month < 12 /\ (m + 1 >= 10 <=> m >= 10)
      BY <1>1, <1>3, <1>4, <1>6, <2>4, SMTT(30) DEF Called
    <3>2. NextDate(date) = [year |-> date.year, month |-> date.month + 1, day |-> 1]
      <4>1. date.day \in Int
        BY <1>2, <1>4, SMTT(30)
      <4>2. ~(date.day < MonthDays(date.year, date.month)) /\ date.day >= MonthDays(date.year, date.month)
        BY <2>2, <4>1, SMTT(30)
      <4> QED
        BY <3>1, <4>2 DEF NextDate
    <3>3. date.year = year + (IF m + 1 >= 10 THEN 1 ELSE 0) /\ date.month + 1 = Called(m + 1)
      <4>1. date.year = year + (IF m >= 10 THEN 1 ELSE 0) /\ date.month = Called(m)
        BY <1>4
      <4> QED
        BY <3>1, <4>1
    <3>4. DateOf(year, doy + 1) = NextDate(date)
      BY <2>3, <3>2, <3>3
    <3> QED
      BY <1>6, <3>4, SMTT(30) DEF date
  <2>5. CASE m = 9
    <3>1. Called(10) = 1 /\ date.month = 12 /\ date.year = year
      BY <1>4, <2>5, SMTT(30) DEF Called
    <3>2. NextDate(date) = [year |-> date.year + 1, month |-> 1, day |-> 1]
      <4>1. date.day \in Int
        BY <1>2, <1>4, SMTT(30)
      <4>2. ~(date.day < MonthDays(date.year, date.month)) /\ ~(date.month < 12)
        BY <2>2, <3>1, <4>1, SMTT(30)
      <4> QED
        BY <4>2 DEF NextDate
    <3>3. DateOf(year, doy + 1) = NextDate(date)
      BY <2>3, <2>5, <3>1, <3>2, SMTT(30)
    <3> QED
      BY <1>6, <3>3, SMTT(30) DEF date
  <2> QED
    BY <2>4, <2>5
<1>7. CASE doy = last
  <2>1. m = 11
    <3>1. FirstDay(11) <= doy /\ doy < FirstDay(11 + 1)
      BY <1>7, MonthsBegin, SMTT(30)
    <3> QED
      BY <1>0, <3>1, DaysHaveMonths, SMTT(30) DEF m
  <2>2. date.month = 2 /\ date.year = year + 1 /\ date.day = doy - 336
    BY <1>3, <1>4, <2>1, MonthsBegin, SMTT(30)
  <2>3. date.day = MonthDays(date.year, date.month)
    BY <1>7, <2>2, SMTT(30) DEF MonthDays
  <2>4. NextDate(date) = [year |-> date.year, month |-> date.month + 1, day |-> 1]
    <3>1. date.day \in Int
      BY <2>2, SMTT(30)
    <3>2. ~(date.day < MonthDays(date.year, date.month)) /\ date.day >= MonthDays(date.year, date.month)
      BY <2>3, <3>1, SMTT(30)
    <3> QED
      BY <2>2, <3>2, SMTT(30) DEF NextDate
  <2>5. DateOf(year + 1, 0) = [year |-> year + 1, month |-> 3, day |-> 1]
    <3>1. MonthOf(0) = 0
      BY SMTT(30) DEF MonthOf
    <3>2. Called(0) = 3
      BY SMTT(30) DEF Called
    <3> QED
      BY <3>1, <3>2, MonthsBegin, SMTT(30) DEF DateOf
  <2>6. DateOf(year + 1, 0) = NextDate(date)
    <3>1. date.year = year + 1 /\ date.month + 1 = 3
      BY <2>2, SMTT(30)
    <3> QED
      BY <2>4, <2>5, <3>1
  <2> QED
    BY <1>7, <2>6, SMTT(30) DEF date
<1>8. doy + 1 < FirstDay(m + 1) \/ (doy + 1 = FirstDay(m + 1) /\ m <= 10) \/ doy = last
    <2>1. m = 11 => FirstDay(m + 1) = 367
      BY MonthsBegin, SMTT(30)
    <2> QED
      BY <1>0, <1>1, <1>2, <2>1, SMTT(30)
<1> QED
    BY <1>5, <1>6, <1>7, <1>8

-----------------------------------------------------------------------------
\* unix_secs_to_ymd (DatesFollowTheCalendar): a day later is the next day of
\* the calendar, however many days after 1970.
THEOREM DatesAlwaysFollow == \A days \in Nat : DatesFollowTheCalendar(days)
<1> SUFFICES ASSUME NEW days \in Nat
             PROVE  DatesFollowTheCalendar(days)
    OBVIOUS
<1> DEFINE z == days + 719468
           era == z \div 146097
           d == z % 146097
           doy == d - StartOf(YearOfEra(d))
           year == YearOfEra(d) + era * 400
<1>1. z \in Nat /\ d \in Int /\ 0 <= d /\ d <= 146096 /\ era \in Nat /\ z = (146097 * era) + d
  <2>1. z \in Nat
    BY SMTT(30)
  <2> HIDE DEF z
  <2>2. d \in Int /\ 0 <= d /\ d <= 146096 /\ era \in Nat /\ z = (146097 * era) + d
    BY <2>1, SMTT(30)
  <2> QED
    BY <2>1, <2>2
<1>2. Ymd(days) = DateOf(year, doy)
    BY DEF Ymd, DateOf, StartOf, MonthOf, FirstDay, Called, EpochOffset, DaysPer400Y, DaysPerYear
<1>3. Ymd(days + 1) =
         DateOf(YearOfEra((z + 1) % 146097) + ((z + 1) \div 146097) * 400,
                ((z + 1) % 146097) - StartOf(YearOfEra((z + 1) % 146097)))
  <2>1. (days + 1) + 719468 = z + 1
    BY SMTT(30)
  <2> HIDE DEF z
  <2> QED
    BY <2>1 DEF Ymd, DateOf, StartOf, MonthOf, FirstDay, Called, EpochOffset, DaysPer400Y, DaysPerYear
<1> HIDE DEF z, era, d
<1>4. /\ YearOfEra(d) \in 0..399 /\ doy \in 0..365 /\ (doy = 365 => IsLeap(YearOfEra(d) + 1))
      /\ d = 146096 => YearOfEra(d) = 399 /\ doy = 365
  <2>1. d = 146096 => StartOf(YearOfEra(d)) = StartOf(399)
    BY <1>1, DaysHaveYears
  <2> QED
    BY <1>1, <2>1, DaysHaveYears
<1> HIDE DEF doy
<1>5. year \in Nat /\ doy \in Int /\ 0 <= doy
    BY <1>1, <1>4, SMTT(30)
<1>6. IsLeap(year + 1) <=> IsLeap(YearOfEra(d) + 1)
  <2> DEFINE y == YearOfEra(d)
  <2> HIDE DEF y
  <2>1. y + 1 \in Nat /\ (y + era * 400) + 1 = (y + 1) + era * 400
    BY <1>1, <1>4, SMTT(30) DEF y
  <2>2. IsLeap((y + 1) + era * 400) <=> IsLeap(y + 1)
    BY <1>1, <2>1, LeapYearsComeAgain
  <2> QED
    BY <2>1, <2>2 DEF y
<1> HIDE DEF year
<1>7. doy < (IF IsLeap(year + 1) THEN 366 ELSE 365)
    BY <1>4, <1>6, SMTT(30)
<1>8. CASE d = 146096
  <2>1. (z + 1) % 146097 = 0 /\ (z + 1) \div 146097 = era + 1
    BY <1>1, <1>8, SMTT(30)
  <2>2. YearOfEra(0) = 0 /\ 0 - StartOf(0) = 0
    BY DaysHaveYears, SMTT(30)
  <2>3. YearOfEra(0) + (era + 1) * 400 = year + 1
    BY <1>1, <1>4, <1>8, <2>2, SMTT(30) DEF year
  <2>4. IsLeap(year + 1)
    BY <1>4, <1>6, <1>8
  <2>5. DateOf(year + 1, 0) = NextDate(DateOf(year, doy))
    BY <1>4, <1>5, <1>7, <1>8, <2>4, DatesFollowInAYear, SMTT(30)
  <2>6. Ymd(days + 1) = DateOf(year + 1, 0)
    BY <1>3, <2>1, <2>2, <2>3
  <2> QED
    BY <1>2, <2>5, <2>6 DEF DatesFollowTheCalendar
<1>9. CASE d # 146096
  <2>1. (z + 1) % 146097 = d + 1 /\ (z + 1) \div 146097 = era
    BY <1>1, <1>9, SMTT(30)
  <2>2. d <= 146095
    BY <1>1, <1>9, SMTT(30)
  <2>3. Ymd(days + 1) = DateOf(YearOfEra(d + 1) + era * 400, (d + 1) - StartOf(YearOfEra(d + 1)))
    BY <1>3, <2>1
  <2>4. \/ doy + 1 < YearDays(YearOfEra(d)) /\ YearOfEra(d + 1) = YearOfEra(d)
        \/ /\ doy + 1 = YearDays(YearOfEra(d)) /\ YearOfEra(d + 1) = YearOfEra(d) + 1
           /\ (d + 1) - StartOf(YearOfEra(d) + 1) = 0
    BY <1>1, <2>2, DaysFollow DEF doy
  <2>5. YearDays(YearOfEra(d)) = IF IsLeap(year + 1) THEN 366 ELSE 365
    BY <1>6 DEF YearDays
  <2>6. CASE doy + 1 < YearDays(YearOfEra(d)) /\ YearOfEra(d + 1) = YearOfEra(d)
    <3>1. (d + 1) - StartOf(YearOfEra(d)) = doy + 1
      <4> DEFINE s == StartOf(YearOfEra(d))
      <4>1. s \in Int
        BY <1>4, SMTT(30) DEF StartOf
      <4> HIDE DEF s
      <4>2. (d + 1) - s = (d - s) + 1
        BY <1>1, <4>1, SMTT(30)
      <4> QED
        BY <4>2 DEF s, doy
    <3>2. Ymd(days + 1) = DateOf(year, doy + 1)
      BY <2>3, <2>6, <3>1 DEF year
    <3>3. DateOf(year, doy + 1) = NextDate(DateOf(year, doy))
      BY <1>5, <1>7, <2>5, <2>6, DatesFollowInAYear
    <3> QED
      BY <1>2, <3>2, <3>3 DEF DatesFollowTheCalendar
  <2>7. CASE /\ doy + 1 = YearDays(YearOfEra(d)) /\ YearOfEra(d + 1) = YearOfEra(d) + 1
             /\ (d + 1) - StartOf(YearOfEra(d) + 1) = 0
    <3>1. (YearOfEra(d) + 1) + era * 400 = year + 1
      BY <1>1, <1>4, SMTT(30) DEF year
    <3>2. Ymd(days + 1) = DateOf(year + 1, 0)
      BY <2>3, <2>7, <3>1
    <3>3. DateOf(year + 1, 0) = NextDate(DateOf(year, doy))
      BY <1>5, <1>7, <2>5, <2>7, DatesFollowInAYear
    <3> QED
      BY <1>2, <3>2, <3>3 DEF DatesFollowTheCalendar
  <2> QED
    BY <2>4, <2>6, <2>7
<1> QED
    BY <1>8, <1>9

-----------------------------------------------------------------------------
(* The heat map, of any number of firings *)

Cells == (0..6) \X (0..23)
HeatMaps == UNION {[D -> Nat] : D \in SUBSET Cells}

\* The day and the hour of the k-th number of a grid.
PlaceOf(k) == <<(k - 1) \div 24, (k - 1) % 24>>

\* The cell of each place of the grid, and the place of each cell.
LEMMA PlacesOfCells ==
    /\ \A k \in 1..168 : PlaceOf(k) \in Cells
    /\ \A cell \in Cells : cell[1] * 24 + cell[2] + 1 \in 1..168
    /\ \A cell \in Cells, k \in 1..168 :
          PlaceOf(k) = cell <=> k = cell[1] * 24 + cell[2] + 1
<1>1. ASSUME NEW k \in 1..168
      PROVE  /\ (k - 1) \div 24 \in 0..6 /\ (k - 1) % 24 \in 0..23
             /\ k - 1 = 24 * ((k - 1) \div 24) + ((k - 1) % 24)
  BY SMTT(30)
<1>2. ASSUME NEW d \in 0..6, NEW h \in 0..23
      PROVE  /\ d * 24 + h + 1 \in 1..168
             /\ ((d * 24 + h + 1) - 1) \div 24 = d /\ ((d * 24 + h + 1) - 1) % 24 = h
  BY SMTT(30)
<1>3. \A cell \in Cells : cell = <<cell[1], cell[2]>> /\ cell[1] \in 0..6 /\ cell[2] \in 0..23
  BY DEF Cells
<1>4. \A k \in 1..168 : PlaceOf(k) \in Cells
  BY <1>1 DEF Cells, PlaceOf
<1>5. ASSUME NEW cell \in Cells, NEW k \in 1..168
      PROVE  PlaceOf(k) = cell <=> k = cell[1] * 24 + cell[2] + 1
  <2>1. PICK d \in 0..6, h \in 0..23 : cell = <<d, h>> /\ d = cell[1] /\ h = cell[2]
    BY <1>3
  <2>2. PICK x, y : x = (k - 1) \div 24 /\ y = (k - 1) % 24
    OBVIOUS
  <2>3. <<x, y>> = <<d, h>> <=> x = d /\ y = h
    OBVIOUS
  <2>4. x = d /\ y = h <=> k = d * 24 + h + 1
    <3>1. x \in 0..6 /\ y \in 0..23 /\ k - 1 = 24 * x + y
      BY <1>1, <2>2
    <3> QED
      BY <3>1
  <2> QED
    BY <2>1, <2>2, <2>3, <2>4 DEF PlaceOf
<1> QED
  BY <1>2, <1>3, <1>4, <1>5

LEMMA GridsAreNumbers ==
    ASSUME NEW heat \in HeatMaps
    PROVE  /\ Grid(heat) \in Seq(Nat) /\ Len(Grid(heat)) = 168
           /\ \A k \in 1..168 : Grid(heat)[k] = HeatAt(heat, PlaceOf(k))
           /\ \A cell : HeatAt(heat, cell) \in Nat
<1>1. \A cell : HeatAt(heat, cell) \in Nat
  <2>1. PICK D \in SUBSET Cells : heat \in [D -> Nat]
    BY DEF HeatMaps
  <2> QED
    BY <2>1 DEF HeatAt
<1>2. 7 * 24 = 168
  OBVIOUS
<1> QED
  BY <1>1, <1>2 DEF Grid, PlaceOf

\* A firing is in one cell.
LEMMA HeatGrows ==
    ASSUME NEW heat \in HeatMaps, NEW days \in Nat, NEW hour \in 0..23
    PROVE  /\ RecordFiring(heat, days, hour) \in HeatMaps
           /\ Summed(Grid(RecordFiring(heat, days, hour))) = Summed(Grid(heat)) + 1
<1> DEFINE cell == <<Weekday(days), hour>>
           new == RecordFiring(heat, days, hour)
<1>1. cell \in Cells
  <2>1. (days + 3) % 7 \in 0..6
    OBVIOUS
  <2> QED
    BY <2>1 DEF Weekday, Cells
<1>2. PICK D \in SUBSET Cells : heat \in [D -> Nat]
  BY DEF HeatMaps
<1>3. new = [c \in D \cup {cell} |-> IF c = cell THEN HeatAt(heat, cell) + 1 ELSE heat[c]]
  BY <1>2 DEF RecordFiring
<1> HIDE DEF cell, new
<1>4. HeatAt(heat, cell) \in Nat
  BY GridsAreNumbers, ZenonT(60)
<1>5. new \in [D \cup {cell} -> Nat]
  BY <1>2, <1>3, <1>4
<1>6. new \in HeatMaps
  BY <1>1, <1>2, <1>5 DEF HeatMaps
<1>7. \A c : HeatAt(new, c) = IF c = cell THEN HeatAt(heat, cell) + 1 ELSE HeatAt(heat, c)
  BY <1>2, <1>3 DEF HeatAt
<1>8. PICK k \in 1..168 : \A i \in 1..168 : PlaceOf(i) = cell <=> i = k
  BY <1>1, PlacesOfCells
<1>9. PICK s \in Seq(Nat) : s = Grid(heat) /\ Len(s) = 168
                            /\ \A i \in 1..168 : s[i] = HeatAt(heat, PlaceOf(i))
  BY GridsAreNumbers
<1>10. PICK t \in Seq(Nat) : t = Grid(new) /\ Len(t) = 168
                            /\ \A i \in 1..168 : t[i] = HeatAt(new, PlaceOf(i))
  BY <1>6, GridsAreNumbers
<1>17. Len(s) = 168 /\ Len(t) = 168
  BY <1>9, <1>10
<1>18. \A i \in 1..168 : s[i] \in Nat /\ t[i] \in Nat
  <2>1. ASSUME NEW i \in 1..168
        PROVE  i \in 1..Len(s) /\ i \in 1..Len(t)
    BY <1>17
  <2>2. \A i \in 1..Len(s) : s[i] \in Nat
    OBVIOUS
  <2>3. \A i \in 1..Len(t) : t[i] \in Nat
    OBVIOUS
  <2> QED
    BY <2>1, <2>2, <2>3
<1>11. /\ HeatAt(new, cell) = HeatAt(heat, cell) + 1
       /\ \A c : c # cell => HeatAt(new, c) = HeatAt(heat, c)
  BY <1>7
<1>12. ASSUME NEW i \in 1..168
       PROVE  t[i] = s[i] + (IF i = k THEN 1 ELSE 0)
  <2>1. PICK c : c = PlaceOf(i)
    OBVIOUS
  <2>2. t[i] = HeatAt(new, c) /\ s[i] = HeatAt(heat, c)
    BY <1>9, <1>10, <2>1
  <2>4. c = cell <=> i = k
    BY <1>8, <2>1
  <2>3. s[i] \in Nat
    BY <1>18
  <2>5. HeatAt(new, c) = IF c = cell THEN HeatAt(heat, c) + 1 ELSE HeatAt(heat, c)
    BY <1>11
  <2>6. t[i] = IF c = cell THEN s[i] + 1 ELSE s[i]
    BY <2>2, <2>5
  <2> QED
    BY <2>3, <2>4, <2>6
<1>13. k \in 1..Len(s) /\ Len(s) = Len(t)
  BY <1>17
<1>14. t[k] = s[k] + 1
  <2>1. t[k] = s[k] + (IF k = k THEN 1 ELSE 0)
    BY <1>12
  <2> QED
    BY <2>1
<1>15. \A i \in 1..Len(s) : i # k => t[i] = s[i]
  <2>1. ASSUME NEW i \in 1..168, i # k
        PROVE  t[i] = s[i]
    <3>1. s[i] \in Nat /\ t[i] = s[i] + (IF i = k THEN 1 ELSE 0)
      BY <1>18, <1>12
    <3> QED
      BY <2>1, <3>1
  <2> QED
    BY <1>17, <2>1
<1>16. Summed(t) = Summed(s) + 1
  BY <1>13, <1>14, <1>15, SumOfOneMore, Zenon
<1> QED
  BY <1>6, <1>9, <1>10, <1>16 DEF new

\* The shares of the largest number.
LEMMA Shares ==
    ASSUME NEW x \in Nat, NEW m \in Nat \ {0}, x <= m
    PROVE  (x * 4) \div m <= 4 /\ ((x * 4) \div m = 4 => x = m)
<1>1. PICK z \in Nat : z = x * 4
  OBVIOUS
<1>2. PICK q \in Int, r \in 0..(m - 1) : q = z \div m /\ z = (m * q) + r
  BY Divides
<1>3. q <= 4
  <2> SUFFICES ASSUME q >= 5 PROVE FALSE
    BY <1>2
  <2>1. m * q >= m * 5
    BY <1>2, SMTT(30)
  <2> QED
    BY <1>1, <1>2, <2>1
<1>4. q = 4 => x = m
  BY <1>1, <1>2
<1> QED
  BY <1>1, <1>2, <1>3, <1>4

LEMMA HeatAlwaysAddsUp ==
    ASSUME NEW heat \in HeatMaps, NEW firings, Summed(Grid(heat)) = firings
    PROVE  HeatAddsUp(heat, firings)
<1>1. PICK D \in SUBSET Cells : heat \in [D -> Nat]
  BY DEF HeatMaps
<1>2. PICK total \in Nat : total = Summed(Grid(heat))
  BY GridsAreNumbers, SummedType
<1>3. ASSUME NEW cell \in D
      PROVE  HeatAt(heat, cell) = heat[cell] /\ heat[cell] \in Nat /\ heat[cell] <= total
  <2>1. HeatAt(heat, cell) = heat[cell]
    BY <1>1 DEF HeatAt
  <2>2. PICK k \in 1..168 : PlaceOf(k) = cell
    BY <1>1, PlacesOfCells
  <2>3. Grid(heat)[k] = heat[cell]
    BY <2>1, <2>2, GridsAreNumbers, ZenonT(60)
  <2>4. Grid(heat)[k] <= total
    BY <1>2, <2>2, GridsAreNumbers, SumOfZeros, ZenonT(60)
  <2> QED
    BY <1>1, <2>1, <2>3, <2>4
<1> DEFINE counts == {heat[cell] : cell \in DOMAIN heat} \cup {0}
<1>4. counts \in SUBSET Nat /\ counts # {} /\ \A c \in counts : c <= total
  BY <1>1, <1>2, <1>3
<1>5. \A cell \in D : heat[cell] \in counts
  BY <1>1
<1>6. MaxCell(heat) = Max(counts)
  BY DEF MaxCell
<1> HIDE DEF counts
<1>7. Max(counts) \in counts /\ \A c \in counts : Max(counts) >= c
  <2>1. \E m \in counts : \A c \in counts : c <= m
    BY <1>4, Largest
  <2>2. \E m \in counts : \A c \in counts : m >= c
    BY <1>4, <2>1
  <2> QED
    BY <2>2, Zenon DEF Max
<1>8. PICK most \in Nat : most = MaxCell(heat) /\ \A cell \in D : heat[cell] <= most
  BY <1>3, <1>4, <1>5, <1>6, <1>7
<1>9. PICK m \in Nat \ {0} : m = Max({1, most}) /\ most <= m /\ (most > 0 => m = most)
                             /\ (most = 0 => m = 1)
  BY OfTwo
<1>10. ASSUME NEW cell \in D
       PROVE  Intensity(heat, cell) <= 4 /\ (Intensity(heat, cell) = 4 => heat[cell] = MaxCell(heat))
  <2>1. PICK x \in Nat : x = heat[cell] /\ x <= most
    BY <1>3, <1>8
  <2>2. Intensity(heat, cell) = (x * 4) \div m
    BY <1>3, <1>8, <1>9, <2>1 DEF Intensity
  <2>3. (x * 4) \div m <= 4 /\ ((x * 4) \div m = 4 => x = m)
    BY <1>9, <2>1, Shares
  <2>4. x = m => x = most
    BY <1>9, <2>1
  <2> QED
    BY <1>8, <2>1, <2>2, <2>3, <2>4
<1> QED
  BY <1>1, <1>10 DEF HeatAddsUp

-----------------------------------------------------------------------------
(* Printed texts of any length                                             *)

\* The bytes of the beginnings of a text.
BytesOf(b, source) ==
    /\ b \in [0..Len(source) -> Nat] /\ b[0] = 0 /\ b[Len(source)] = ByteCount(source)
    /\ \A k \in 0..Len(source) : ByteCount(SubSeq(source, 1, k)) = b[k] /\ k <= b[k]
    /\ \A j \in 0..Len(source) : \A k \in (j + 1)..Len(source) : b[j] < b[k]

LEMMA BeginningsHaveBytes ==
    ASSUME NEW V, NEW source \in Seq(V)
    PROVE  \E b : BytesOf(b, source)
<1>1. PICK b : BytesBefore(b, source)
  BY BytesAddUp
<1>2. PICK n \in Nat : n = Len(source)
  OBVIOUS
<1>3. /\ b \in [0..n -> Nat] /\ b[0] = 0
      /\ \A k \in 1..n : b[k] = b[k - 1] + Width(source[k])
      /\ \A k \in 0..n : ByteCount(SubSeq(source, 0 + 1, k)) = b[k] - b[0]
  BY <1>1, <1>2 DEF BytesBefore
<1>4. \A k \in 0..n : ByteCount(SubSeq(source, 1, k)) = b[k]
  <2> SUFFICES ASSUME NEW k \in 0..n PROVE ByteCount(SubSeq(source, 1, k)) = b[k]
    OBVIOUS
  <2>1. PICK x \in Nat : x = b[k]
    BY <1>3
  <2>2. ByteCount(SubSeq(source, 0 + 1, k)) = x - 0
    BY <1>3, <2>1
  <2>3. 0 + 1 = 1 /\ x - 0 = x
    OBVIOUS
  <2> QED
    BY <2>1, <2>2, <2>3
<1>5. SubSeq(source, 1, n) = source
  BY <1>2
<1>6. b[n] = ByteCount(source)
  <2>1. n \in 0..n
    OBVIOUS
  <2> QED
    BY <1>4, <1>5, <2>1
<1>7. \A j \in 0..n : \A k \in (j + 1)..n : b[j] < b[k]
  BY <1>1, <1>2, BytesGrow
<1> DEFINE S == {k \in 0..n : k <= b[k]}
<1>8. 0 \in S
  BY <1>3
<1>9. ASSUME NEW k \in 1..n, k - 1 \in S
      PROVE  k \in S
  <2>1. k \in 0..n /\ k - 1 \in 0..n
    OBVIOUS
  <2>2. PICK x \in Nat, y \in Nat : x = b[k - 1] /\ y = b[k]
    BY <1>3, <2>1
  <2>3. x < y /\ k - 1 <= x
    <3>1. k \in (k - 1) + 1..n
      OBVIOUS
    <3> QED
      BY <1>7, <1>9, <2>1, <2>2, <3>1
  <2>4. k <= y
    BY <2>2, <2>3
  <2> QED
    BY <2>1, <2>2, <2>4
<1>10. 0..n \subseteq S
  <2> HIDE DEF S
  <2> QED
    BY <1>8, <1>9, UpTo
<1>11. \A k \in 0..n : k <= b[k]
  BY <1>10
<1> QED
  BY <1>2, <1>3, <1>4, <1>6, <1>7, <1>11 DEF BytesOf

\* What a cut text still shows of the whole: its beginning, and all of it if it
\* has no more than 8 bytes.
Shows(cell, whole) ==
    \E k \in 0..Len(whole) :
        /\ k <= Len(cell)
        /\ SubSeq(cell, 1, k) = SubSeq(whole, 1, k)
        /\ ByteCount(whole) <= 8 => k = Len(whole)

LEMMA BeginningsShow ==
    ASSUME NEW V, NEW whole \in Seq(V), NEW k \in 0..Len(whole),
           ByteCount(whole) <= 8 => k = Len(whole)
    PROVE  /\ SubSeq(whole, 1, k) \in Seq(V) /\ Len(SubSeq(whole, 1, k)) = k
           /\ Shows(SubSeq(whole, 1, k), whole)
<1>1. PICK part : part = SubSeq(whole, 1, k)
  OBVIOUS
<1>4. k \in Nat /\ k <= Len(whole)
  OBVIOUS
<1>5. part \in Seq(V)
  BY <1>1, <1>4
<1>6. Len(part) = k
  BY <1>1, <1>4
<1>2. SubSeq(part, 1, k) = part
  BY <1>5, <1>6
<1>3. k <= Len(part)
  BY <1>4, <1>6
<1>7. SubSeq(part, 1, k) = SubSeq(whole, 1, k)
  BY <1>1, <1>2
<1>8. Shows(part, whole)
  BY <1>3, <1>7 DEF Shows
<1> QED
  BY <1>1, <1>5, <1>6, <1>8

LEMMA SlicesShow ==
    ASSUME NEW V, NEW whole \in Seq(V), NEW width \in Nat, width >= 8, NEW bytes \in Nat,
           \/ bytes = width /\ ByteCount(whole) > width
           \/ bytes = ByteCount(whole) /\ bytes <= width,
           NEW part \in Slice(whole, bytes)
    PROVE  part \in Seq(V) /\ Len(part) <= width /\ Shows(part, whole)
<1>1. PICK b : BytesOf(b, whole)
  BY BeginningsHaveBytes
<1>2. PICK n \in Nat : n = Len(whole)
  OBVIOUS
<1>3. /\ b \in [0..n -> Nat] /\ b[n] = ByteCount(whole)
      /\ \A k \in 0..n : ByteCount(SubSeq(whole, 1, k)) = b[k] /\ k <= b[k]
      /\ \A j \in 0..n : \A k \in (j + 1)..n : b[j] < b[k]
  BY <1>1, <1>2 DEF BytesOf
<1>4. PICK k \in 0..n : part = SubSeq(whole, 1, k) /\ b[k] = bytes
  BY <1>2, <1>3 DEF Slice
<1>5. b[n] <= 8 => k = n
  <2> SUFFICES ASSUME b[n] <= 8, k # n PROVE FALSE
    OBVIOUS
  <2>1. n \in k + 1..n
    OBVIOUS
  <2>2. b[k] < b[n]
    BY <1>3, <2>1
  <2>3. PICK x \in Nat, y \in Nat : x = b[k] /\ y = b[n]
    BY <1>3
  <2>4. x = bytes /\ x < y /\ y <= 8 /\ ((bytes = width /\ y > width) \/ bytes = y)
    BY <1>3, <1>4, <2>2, <2>3
  <2> QED
    BY <2>4
<1>6. k <= width
  <2>1. k <= bytes
    BY <1>3, <1>4
  <2>2. bytes <= width
    OBVIOUS
  <2> QED
    BY <2>1, <2>2
<1>7. ByteCount(whole) <= 8 => k = Len(whole)
  BY <1>2, <1>3, <1>5
<1>8. part \in Seq(V) /\ Len(part) = k /\ Shows(part, whole)
  BY <1>2, <1>4, <1>7, BeginningsShow
<1> QED
  BY <1>6, <1>8

\* Filling up leaves what is shown.
LEMMA FilledUp ==
    ASSUME NEW V, Blank \in V, NEW cell \in Seq(V), NEW width \in Nat
    PROVE  /\ LeftAligned(cell, width) \in Seq(V) /\ RightAligned(cell, width) \in Seq(V)
           /\ Len(cell) <= width => /\ Len(LeftAligned(cell, width)) = width
                                    /\ Len(RightAligned(cell, width)) = width
           /\ \A whole : Shows(cell, whole) => Shows(LeftAligned(cell, width), whole)
<1>1. PICK n \in Nat : n = Len(cell)
  OBVIOUS
<1>2. PICK m \in Nat : m = IF width >= n THEN width - n ELSE 0
  <2>1. (IF width >= n THEN width - n ELSE 0) \in Nat
    OBVIOUS
  <2> QED
    BY <2>1
<1>3. PICK blanks \in Seq(V) : blanks = Blanks(width - n) /\ Len(blanks) = m
  <2>1. 1..(width - n) = 1..m
    BY <1>2
  <2>2. Blanks(width - n) = [i \in 1..m |-> Blank]
    BY <2>1 DEF Blanks
  <2>3. [i \in 1..m |-> Blank] \in Seq(V) /\ Len([i \in 1..m |-> Blank]) = m
    OBVIOUS
  <2> QED
    BY <2>2, <2>3
<1>4. PICK filled \in Seq(V) : filled = cell \o blanks /\ Len(filled) = n + m
                               /\ \A i \in 1..n : filled[i] = cell[i]
  <2>1. PICK filled : filled = cell \o blanks
    OBVIOUS
  <2>2. filled \in Seq(V) /\ Len(filled) = Len(cell) + Len(blanks)
    BY <2>1
  <2>3. \A i \in 1..Len(cell) : filled[i] = cell[i]
    BY <2>1
  <2> QED
    BY <1>1, <1>3, <2>1, <2>2, <2>3
<1>5. LeftAligned(cell, width) = filled
  BY <1>1, <1>3, <1>4 DEF LeftAligned
<1>6. RightAligned(cell, width) \in Seq(V) /\ Len(RightAligned(cell, width)) = m + n
  BY <1>1, <1>3 DEF RightAligned
<1>7. n <= width => m + n = width
  BY <1>2
<1>8. ASSUME NEW whole, Shows(cell, whole)
      PROVE  Shows(filled, whole)
  <2>1. PICK k \in 0..Len(whole) :
            /\ k <= n /\ SubSeq(cell, 1, k) = SubSeq(whole, 1, k)
            /\ ByteCount(whole) <= 8 => k = Len(whole)
    BY <1>1, <1>8 DEF Shows
  <2>2. k \in Nat
    OBVIOUS
  <2>3. SubSeq(filled, 1, k) = SubSeq(cell, 1, k)
    <3>1. \A i \in 1..k : filled[i] = cell[i]
      BY <1>4, <2>1, <2>2
    <3>2. SubSeq(filled, 1, k) = [i \in 1..k |-> filled[i]]
      BY <1>4, <2>1, <2>2
    <3>3. SubSeq(cell, 1, k) = [i \in 1..k |-> cell[i]]
      BY <1>1, <2>1, <2>2
    <3> QED
      BY <3>1, <3>2, <3>3
  <2>4. k <= Len(filled)
    BY <1>4, <2>1, <2>2
  <2> QED
    BY <2>1, <2>3, <2>4 DEF Shows
<1> QED
  BY <1>1, <1>4, <1>5, <1>6, <1>7, <1>8

-----------------------------------------------------------------------------
(* The table of crs insights, for fields of any length                     *)

Signs == {"a", Wide, Blank, "?"}
CellsOfRows == {{}} \cup {{field} : field \in Seq({"a", Wide})}
EightDigits == {n \in Nat : n < 100000000}    \* what the friction column has room for
SessionRows ==
    [date : CellsOfRows, repo : CellsOfRows, branch : CellsOfRows, outcome : CellsOfRows, helpfulness : CellsOfRows,
     friction : EightDigits, summary : CellsOfRows]

LEMMA LettersAreLetters ==
    ASSUME NEW n \in Nat
    PROVE  Letters(n) \in Seq({"a", Wide}) /\ Letters(n) \in Seq(Signs) /\ Len(Letters(n)) = n
BY DEF Letters, Signs

LEMMA DigitsAreFew ==
    ASSUME NEW n \in EightDigits
    PROVE  Digits(n) \in Seq(Signs) /\ Len(Digits(n)) <= 8
<1> DEFINE D == {k \in DOMAIN Powers : n >= Powers[k]}
<1>1. D \subseteq 1..7
  <2>1. DOMAIN Powers = 1..8 /\ Powers[8] = 100000000
    BY DEF Powers
  <2>2. 8 \notin D
    BY <2>1 DEF EightDigits
  <2>3. D \subseteq 1..8
    BY <2>1
  <2> QED
    BY <2>2, <2>3
<1>2. IsFiniteSet(1..7) /\ Cardinality(1..7) = 7
  <2>1. \A a, b \in Int : IsFiniteSet(a..b) /\ (a <= b => Cardinality(a..b) = b - a + 1)
    BY FS_Interval
  <2>2. 1 \in Int /\ 7 \in Int /\ 1 <= 7 /\ 7 - 1 + 1 = 7
    OBVIOUS
  <2>3. IsFiniteSet(1..7) /\ Cardinality(1..7) = 7 - 1 + 1
    BY <2>1, <2>2, Zenon
  <2> QED
    BY <2>2, <2>3
<1>3. IsFiniteSet(D) /\ Cardinality(D) <= 7
  BY <1>1, <1>2, FS_Subset
<1>4. Cardinality(D) \in Nat
  BY <1>3, FS_CardinalityType
<1>5. Digits(n) = Letters(1 + Cardinality(D))
  BY DEF Digits
<1>6. PICK c \in Nat : c = Cardinality(D) /\ c <= 7
  BY <1>3, <1>4
<1>7. PICK m \in Nat : m = 1 + c /\ m <= 8
  <2>1. 1 + c \in Nat /\ 1 + c <= 8
    BY <1>6
  <2> QED
    BY <2>1
<1>8. Digits(n) = Letters(m)
  BY <1>5, <1>6, <1>7
<1> HIDE DEF D
<1> QED
  BY <1>7, <1>8, LettersAreLetters

LEMMA WidthsOfColumns ==
    /\ DOMAIN Columns = 1..7 /\ Columns[7] = "summary"
    /\ \A k \in 1..6 : /\ Columns[k] \in {"date", "repo", "branch", "outcome", "helpfulness", "friction"}
                       /\ Widths[Columns[k]] \in Nat /\ Widths[Columns[k]] >= 8
                       /\ Len(Header[k]) = Widths[Columns[k]]
                       /\ Columns[k] = "friction" => Widths[Columns[k]] = 8
<1>1. DOMAIN Columns = 1..7 /\ Columns[7] = "summary"
  BY DEF Columns
<1>2. \A n \in Nat, w \in Nat : n <= w =>
         Len(LeftAligned(Letters(n), w)) = w /\ Len(RightAligned(Letters(n), w)) = w
  BY LettersAreLetters, FilledUp DEF Signs
<1>3. /\ Columns[1] = "date" /\ Columns[2] = "repo" /\ Columns[3] = "branch" /\ Columns[4] = "outcome"
      /\ Columns[5] = "helpfulness" /\ Columns[6] = "friction"
  BY DEF Columns
<1>4. /\ Widths.date = 10 /\ Widths.repo = 14 /\ Widths.branch = 12 /\ Widths.outcome = 20
      /\ Widths.helpfulness = 16 /\ Widths.friction = 8
  BY DEF Widths
<1>5. /\ Header[1] = LeftAligned(Letters(4), 10) /\ Header[2] = LeftAligned(Letters(4), 14)
      /\ Header[3] = LeftAligned(Letters(6), 12) /\ Header[4] = LeftAligned(Letters(7), 20)
      /\ Header[5] = LeftAligned(Letters(11), 16) /\ Header[6] = RightAligned(Letters(8), 8)
  BY <1>4 DEF Header
<1>8. /\ Len(LeftAligned(Letters(4), 10)) = 10 /\ Len(LeftAligned(Letters(4), 14)) = 14
      /\ Len(LeftAligned(Letters(6), 12)) = 12 /\ Len(LeftAligned(Letters(7), 20)) = 20
      /\ Len(LeftAligned(Letters(11), 16)) = 16 /\ Len(RightAligned(Letters(8), 8)) = 8
  <2>1. Len(LeftAligned(Letters(4), 10)) = 10
    <3>1. 4 \in Nat /\ 10 \in Nat /\ 4 <= 10
      OBVIOUS
    <3> QED
      BY <1>2, <3>1, Zenon
  <2>2. Len(LeftAligned(Letters(4), 14)) = 14
    <3>1. 4 \in Nat /\ 14 \in Nat /\ 4 <= 14
      OBVIOUS
    <3> QED
      BY <1>2, <3>1, Zenon
  <2>3. Len(LeftAligned(Letters(6), 12)) = 12
    <3>1. 6 \in Nat /\ 12 \in Nat /\ 6 <= 12
      OBVIOUS
    <3> QED
      BY <1>2, <3>1, Zenon
  <2>4. Len(LeftAligned(Letters(7), 20)) = 20
    <3>1. 7 \in Nat /\ 20 \in Nat /\ 7 <= 20
      OBVIOUS
    <3> QED
      BY <1>2, <3>1, Zenon
  <2>5. Len(LeftAligned(Letters(11), 16)) = 16
    <3>1. 11 \in Nat /\ 16 \in Nat /\ 11 <= 16
      OBVIOUS
    <3> QED
      BY <1>2, <3>1, Zenon
  <2>6. Len(RightAligned(Letters(8), 8)) = 8
    <3>1. 8 \in Nat /\ 8 \in Nat /\ 8 <= 8
      OBVIOUS
    <3> QED
      BY <1>2, <3>1, Zenon
  <2> QED
    BY <2>1, <2>2, <2>3, <2>4, <2>5, <2>6
<1>6. /\ Len(Header[1]) = 10 /\ Len(Header[2]) = 14 /\ Len(Header[3]) = 12 /\ Len(Header[4]) = 20
      /\ Len(Header[5]) = 16 /\ Len(Header[6]) = 8
  BY <1>5, <1>8, Zenon
<1>7. \A k \in 1..6 : k = 1 \/ k = 2 \/ k = 3 \/ k = 4 \/ k = 5 \/ k = 6
  OBVIOUS
<1>9. /\ Widths[Columns[1]] = 10 /\ Widths[Columns[2]] = 14 /\ Widths[Columns[3]] = 12
      /\ Widths[Columns[4]] = 20 /\ Widths[Columns[5]] = 16 /\ Widths[Columns[6]] = 8
  BY <1>3, <1>4
<1>10. ASSUME NEW k \in 1..6
       PROVE  /\ Columns[k] \in {"date", "repo", "branch", "outcome", "helpfulness", "friction"}
              /\ Columns[k] = "friction" => k = 6
  BY <1>3, <1>7
<1>11. ASSUME NEW k \in 1..6
       PROVE  /\ Len(Header[k]) = Widths[Columns[k]] /\ Widths[Columns[k]] \in {8, 10, 12, 14, 16, 20}
              /\ k = 6 => Widths[Columns[k]] = 8
  BY <1>6, <1>7, <1>9
<1>12. ASSUME NEW k \in 1..6
       PROVE  Widths[Columns[k]] \in Nat /\ Widths[Columns[k]] >= 8
  <2>1. \A w \in {8, 10, 12, 14, 16, 20} : w \in Nat /\ w >= 8
    OBVIOUS
  <2> QED
    BY <1>11, <2>1, Zenon
<1> QED
  BY <1>1, <1>10, <1>11, <1>12, Zenon

\* A cell fits its column and shows what the session has.
LEMMA CellsFit ==
    ASSUME NEW session \in SessionRows, NEW column \in DOMAIN session,
           NEW cell \in CellText(session, column)
    PROVE  /\ cell \in Seq(Signs)
           /\ column # "summary" => Len(cell) <= Widths[column]
           /\ column # "friction" => \A field \in session[column] : Shows(cell, field)
<1>1. {"a", Wide} \subseteq Signs /\ "a" \in Signs /\ Blank \in Signs /\ "?" \in Signs
  BY DEF Signs
<1>2. ASSUME NEW field \in Seq({"a", Wide})
      PROVE  field \in Seq(Signs) /\ ByteCount(field) \in Nat /\ Shows(field, field)
  <2>1. field \in Seq(Signs)
    BY <1>1
  <2>2. PICK b : BytesOf(b, field)
    BY BeginningsHaveBytes
  <2>3. Len(field) \in 0..Len(field)
    OBVIOUS
  <2>4. ByteCount(field) \in Nat
    BY <2>2, <2>3 DEF BytesOf
  <2>5. Shows(field, field)
    BY <2>3 DEF Shows
  <2> QED
    BY <2>1, <2>4, <2>5
<1>3. CASE column = "friction"
  <2>1. cell = Digits(session.friction) /\ session.friction \in EightDigits
    BY <1>3 DEF CellText, SessionRows
  <2>2. Widths.friction = 8
    BY DEF Widths
  <2> QED
    BY <1>3, <2>1, <2>2, DigitsAreFew
<1>4. CASE column = "summary"
  <2>1. session.summary \in CellsOfRows
    BY DEF SessionRows
  <2>2. PICK field \in (IF session.summary = {} THEN {<<>>} ELSE session.summary) :
            cell \in (IF ByteCount(field) > SummaryWidth THEN Slice(field, SummaryWidth) ELSE {field})
    BY <1>4 DEF CellText
  <2>3. field \in Seq({"a", Wide}) /\ \A f \in session.summary : f = field
    <3>1. CASE session.summary = {}
      BY <2>2, <3>1, EmptySeq
    <3>2. CASE session.summary # {}
      <4>1. PICK f \in Seq({"a", Wide}) : session.summary = {f}
        BY <2>1, <3>2 DEF CellsOfRows
      <4> QED
        BY <2>2, <3>2, <4>1
    <3> QED
      BY <3>1, <3>2
  <2>4. cell \in Seq(Signs) /\ Shows(cell, field)
    <3>1. CASE ByteCount(field) > SummaryWidth
      BY <1>2, <2>2, <2>3, <3>1, SlicesShow DEF SummaryWidth
    <3>2. CASE ~(ByteCount(field) > SummaryWidth)
      BY <1>2, <2>2, <2>3, <3>2
    <3> QED
      BY <3>1, <3>2
  <2> QED
    BY <1>4, <2>3, <2>4
<1>5. CASE column \notin {"friction", "summary"}
  <2>1. column \in {"date", "repo", "branch", "outcome", "helpfulness"}
    BY <1>5 DEF SessionRows
  <2>2. session[column] \in CellsOfRows
    BY <2>1 DEF SessionRows
  <2>3. PICK width \in Nat : width = Widths[column] /\ width >= 8
    BY <2>1 DEF Widths
  <2>4. CASE session[column] = {}
    <3>1. cell = Unknown
      BY <1>5, <2>4 DEF CellText
    <3>2. Unknown \in Seq(Signs) /\ Len(Unknown) = 1
      BY <1>1 DEF Unknown
    <3> QED
      BY <2>3, <2>4, <3>1, <3>2
  <2>5. CASE session[column] # {}
    <3>1. PICK field \in Seq({"a", Wide}) : session[column] = {field}
      BY <2>2, <2>5 DEF CellsOfRows
    <3>2. PICK bytes \in Nat : bytes = ByteCount(field)
      BY <1>2
    <3>3. CASE column = "date"
      <4>1. cell \in Slice(field, Min({bytes, Widths.date}))
        BY <1>5, <2>5, <3>1, <3>2, <3>3 DEF CellText
      <4>2. PICK size \in Nat : size = Min({bytes, width})
                                /\ size = (IF bytes <= width THEN bytes ELSE width)
        <5>1. (IF bytes <= width THEN bytes ELSE width) \in Nat
          OBVIOUS
        <5>2. Min({bytes, width}) = IF bytes <= width THEN bytes ELSE width
          BY OfTwo
        <5> QED
          BY <5>1, <5>2
      <4>3. cell \in Slice(field, size)
        BY <2>3, <3>3, <4>1, <4>2
      <4>4. (size = width /\ bytes > width) \/ (size = bytes /\ size <= width)
        BY <4>2
      <4>5. cell \in Seq({"a", Wide}) /\ Len(cell) <= width /\ Shows(cell, field)
        BY <2>3, <3>2, <4>3, <4>4, SlicesShow
      <4> QED
        BY <1>2, <2>3, <3>1, <4>5
    <3>4. CASE column # "date"
      <4>1. cell \in Trunc(field, width)
        BY <1>5, <2>3, <2>5, <3>1, <3>4 DEF CellText
      <4>2. CASE bytes <= width
        <5>1. cell = LeftAligned(field, width)
          BY <3>2, <4>1, <4>2 DEF Trunc
        <5>2. Len(field) <= width
          <6>1. PICK b : BytesOf(b, field)
            BY BeginningsHaveBytes
          <6>2. Len(field) \in 0..Len(field)
            OBVIOUS
          <6>3. Len(field) <= bytes
            BY <3>2, <6>1, <6>2 DEF BytesOf
          <6> QED
            BY <4>2, <6>3
        <5>3. field \in Seq(Signs) /\ Shows(field, field)
          BY <1>2
        <5>4. cell \in Seq(Signs) /\ Len(cell) = width /\ Shows(cell, field)
          BY <1>1, <5>1, <5>2, <5>3, FilledUp
        <5> QED
          BY <2>3, <3>1, <5>4
      <4>3. CASE ~(bytes <= width)
        <5>1. cell \in Slice(field, width) /\ bytes > width
          BY <3>2, <4>1, <4>3 DEF Trunc
        <5>2. cell \in Seq({"a", Wide}) /\ Len(cell) <= width /\ Shows(cell, field)
          BY <2>3, <3>2, <5>1, SlicesShow
        <5> QED
          BY <1>2, <2>3, <3>1, <5>2
      <4> QED
        BY <4>2, <4>3
    <3> QED
      BY <3>3, <3>4
  <2> QED
    BY <2>4, <2>5
<1> QED
  BY <1>3, <1>4, <1>5

\* RowLinesUp, for the fields of any session.
LEMMA RowsAlwaysLineUp ==
    ASSUME NEW session \in SessionRows
    PROVE  RowLinesUp(session)
<1> SUFFICES ASSUME NEW row \in FormatInsightRow(session), NEW k \in DOMAIN Columns
             PROVE  /\ Start(row, k) = Start(Header, k)
                    /\ Columns[k] # "friction" =>
                           \A field \in session[Columns[k]] :
                               \E length \in 0..Len(row[k]) :
                                   /\ IsCutFrom(SubSeq(row[k], 1, length), field)
                                   /\ ByteCount(field) <= 8 => length = Len(field)
  BY DEF RowLinesUp
<1> DEFINE Cell(i, cell) == CASE Columns[i] = "summary" -> cell
                              [] Columns[i] = "friction" -> RightAligned(cell, Widths.friction)
                              [] OTHER -> LeftAligned(cell, Widths[Columns[i]])
<1>1. ASSUME NEW i \in 1..7
      PROVE  \E cell \in CellText(session, Columns[i]) : row[i] = Cell(i, cell)
  <2> DEFINE shown == [j \in DOMAIN Columns |-> CellText(session, Columns[j])]
  <2>1. shown[i] # {} /\ row = [j \in DOMAIN Columns |-> Cell(j, CHOOSE cell \in shown[j] : TRUE)]
    BY WidthsOfColumns DEF FormatInsightRow
  <2>2. (CHOOSE cell \in shown[i] : TRUE) \in shown[i]
    BY <2>1
  <2>3. shown[i] = CellText(session, Columns[i])
    BY WidthsOfColumns
  <2>4. row[i] = Cell(i, CHOOSE cell \in shown[i] : TRUE)
    <3> HIDE DEF shown, Cell
    <3> QED
      BY <2>1, WidthsOfColumns
  <2> HIDE DEF shown, Cell
  <2> QED
    BY <2>2, <2>3, <2>4
<1>2. Blank \in Signs
  BY DEF Signs
<1>3. ASSUME NEW i \in 1..7
      PROVE  Columns[i] \in DOMAIN session
  <2>1. i = 7 \/ i \in 1..6
    OBVIOUS
  <2> QED
    BY <2>1, WidthsOfColumns DEF SessionRows
<1>4. ASSUME NEW i \in 1..6
      PROVE  Len(row[i]) = Len(Header[i])
  <2>1. PICK cell \in CellText(session, Columns[i]) : row[i] = Cell(i, cell)
    BY <1>1
  <2>2. PICK column : column = Columns[i]
    OBVIOUS
  <2>3. column # "summary" /\ column \in DOMAIN session /\ Widths[column] \in Nat
        /\ Len(Header[i]) = Widths[column]
    <3>1. column \in DOMAIN session
      BY <1>3, <2>2
    <3>2. column # "summary"
      BY <2>2, WidthsOfColumns
    <3> QED
      BY <2>2, <3>1, <3>2, WidthsOfColumns
  <2>4. cell \in Seq(Signs) /\ Len(cell) <= Widths[column]
    BY <2>1, <2>2, <2>3, CellsFit
  <2>5. row[i] = RightAligned(cell, Widths[column]) \/ row[i] = LeftAligned(cell, Widths[column])
    BY <2>1, <2>2, <2>3
  <2> HIDE DEF Cell
  <2> QED
    BY <1>2, <2>3, <2>4, <2>5, FilledUp
<1>5. k \in 1..7
  BY WidthsOfColumns
<1>6. Start(row, k) = Start(Header, k)
  <2>1. \A i \in 1..k - 1 : i \in 1..6
    BY <1>5
  <2>2. \A i \in 1..k - 1 : Len(row[i]) + Gap = Len(Header[i]) + Gap
    BY <1>4, <2>1
  <2>3. [i \in 1..k - 1 |-> Len(row[i]) + Gap] = [i \in 1..k - 1 |-> Len(Header[i]) + Gap]
    BY <2>2, Zenon
  <2> QED
    BY <2>3, Zenon DEF Start
<1>7. ASSUME Columns[k] # "friction", NEW field \in session[Columns[k]]
      PROVE  \E length \in 0..Len(row[k]) : /\ IsCutFrom(SubSeq(row[k], 1, length), field)
                                            /\ ByteCount(field) <= 8 => length = Len(field)
  <2>1. PICK cell \in CellText(session, Columns[k]) : row[k] = Cell(k, cell)
    BY <1>1, <1>5
  <2>2. cell \in Seq(Signs) /\ Shows(cell, field)
    BY <1>3, <1>5, <1>7, <2>1, CellsFit
  <2>3. Shows(row[k], field) /\ row[k] \in Seq(Signs)
    <3>1. CASE Columns[k] = "summary"
      BY <2>1, <2>2, <3>1
    <3>2. CASE Columns[k] # "summary"
      <4>1. row[k] = LeftAligned(cell, Widths[Columns[k]])
        BY <1>7, <2>1, <3>2
      <4>2. k \in 1..6
        BY <1>5, <3>2, WidthsOfColumns
      <4>3. PICK w \in Nat : w = Widths[Columns[k]]
        BY <4>2, WidthsOfColumns
      <4> HIDE DEF Cell
      <4>4. row[k] = LeftAligned(cell, w)
        BY <4>1, <4>3
      <4> QED
        BY <1>2, <2>2, <4>4, FilledUp, ZenonT(60)
    <3> QED
      BY <3>1, <3>2
  <2>4. PICK j \in 0..Len(field) : /\ j <= Len(row[k]) /\ SubSeq(row[k], 1, j) = SubSeq(field, 1, j)
                                   /\ ByteCount(field) <= 8 => j = Len(field)
    BY <2>3 DEF Shows
  <2>5. field \in Seq({"a", Wide})
    <3>1. session[Columns[k]] \in CellsOfRows
      <4>1. k = 7 \/ k \in 1..6
        BY <1>5
      <4>2. PICK column : column = Columns[k]
        OBVIOUS
      <4>3. column \in {"date", "repo", "branch", "outcome", "helpfulness", "summary"}
        BY <1>7, <4>1, <4>2, WidthsOfColumns
      <4>4. session[column] \in CellsOfRows
        BY <4>3 DEF SessionRows
      <4> QED
        BY <4>2, <4>4
    <3> QED
      BY <3>1, <1>7 DEF CellsOfRows
  <2>6. j \in 0..Len(row[k])
    BY <2>3, <2>4, <2>5
  <2>7. IsCutFrom(SubSeq(row[k], 1, j), field)
    BY <2>4 DEF IsCutFrom
  <2> QED
    BY <2>4, <2>6, <2>7
<1> QED
  BY <1>6, <1>7

-----------------------------------------------------------------------------
(* The text of crs discover, for any findings                              *)

FindingRows == [count : Nat, tokens : Nat, example : Seq({"a", Wide})]
FoundReports == [intercepted : Seq(FindingRows), unhandled : Seq(FindingRows)]

\* What is rounded is at most 50 off.
LEMMA RoundedIsNear ==
    ASSUME NEW n \in Nat
    PROVE  /\ Max(FormatTokens(n)) \in Nat /\ Min(FormatTokens(n)) \in Nat
           /\ Max(FormatTokens(n)) <= n + 50 /\ n <= Min(FormatTokens(n)) + 50
<1>1. /\ FormatTokens(n) # {}
      /\ \A m \in FormatTokens(n) : m \in Nat /\ m <= n + 50 /\ n <= m + 50
  <2>1. PICK q \in Nat, r \in 0..99 : r = n % 100 /\ n = 100 * q + r
    <3>1. n % 100 \in 0..99 /\ n \div 100 \in Nat /\ n = 100 * (n \div 100) + (n % 100)
      BY SMTT(30)
    <3> QED
      BY <3>1
  <2>2. PICK below \in Nat : below = n - r
    BY <2>1
  <2>3. FormatTokens(n) = IF n < 1000 THEN {n}
                          ELSE {m \in {below, below + 100} : m - n <= 50 /\ n - m <= 50}
    BY <2>1, <2>2 DEF FormatTokens
  <2>4. CASE n < 1000
    BY <2>3, <2>4
  <2>5. CASE ~(n < 1000)
    <3> DEFINE near == {m \in {below, below + 100} : m - n <= 50 /\ n - m <= 50}
    <3>1. \A m \in near : m \in Nat /\ m <= n + 50 /\ n <= m + 50
      OBVIOUS
    <3>2. r <= 50 => below \in near
      BY <2>1, <2>2
    <3>3. r > 50 => below + 100 \in near
      BY <2>1, <2>2
    <3>4. r <= 50 \/ r > 50
      OBVIOUS
    <3>5. FormatTokens(n) = near
      BY <2>3, <2>5
    <3> HIDE DEF near
    <3> QED
      BY <3>1, <3>2, <3>3, <3>4, <3>5
  <2> QED
    BY <2>4, <2>5
<1>2. PICK T : T = FormatTokens(n)
  OBVIOUS
<1>3. T \in SUBSET Nat /\ T # {} /\ \A m \in T : m <= n + 50 /\ n <= m + 50
  BY <1>1, <1>2
<1>4. Max(T) \in T
  <2>1. PICK bound \in Nat : bound = n + 50
    OBVIOUS
  <2>2. \E m \in T : \A k \in T : k <= m
    BY <1>3, <2>1, Largest
  <2>3. \E m \in T : \A k \in T : m >= k
    BY <1>3, <2>2
  <2> QED
    BY <2>3, Zenon DEF Max
<1>5. Min(T) \in T
  <2>1. \E m \in T : \A k \in T : m <= k
    BY <1>3, Least
  <2> QED
    BY <2>1, Zenon DEF Min
<1> QED
  BY <1>2, <1>3, <1>4, <1>5

LEMMA FieldsAreNumbers ==
    ASSUME NEW found \in Seq(FindingRows), NEW field \in {"count", "tokens"}
    PROVE  /\ [k \in DOMAIN found |-> found[k][field]] \in Seq(Nat)
           /\ Len([k \in DOMAIN found |-> found[k][field]]) = Len(found)
           /\ \A k \in 1..Len(found) : found[k][field] \in Nat
<1>1. \A k \in 1..Len(found) : found[k] \in FindingRows
  OBVIOUS
<1>2. \A k \in 1..Len(found) : found[k][field] \in Nat
  BY <1>1 DEF FindingRows
<1>3. DOMAIN found = 1..Len(found) /\ Len(found) \in Nat
  OBVIOUS
<1> QED
  BY <1>2, <1>3

LEMMA TextAlwaysTells ==
    ASSUME NEW report \in FoundReports
    PROVE  TextTellsWhatJsonTells(report)
<1> DEFINE printed == PrintDiscoverText(report)
<1>1. PICK found \in Seq(FindingRows) : found = report.intercepted
  BY DEF FoundReports
<1>2. PICK n \in Nat : n = Len(found) /\ DOMAIN found = 1..n
  OBVIOUS
<1> DEFINE Rounded(k) == IF HasTokens(found) THEN FormatTokens(found[k].tokens) ELSE {}
           all == [k \in 1..n |-> found[k].tokens]
           most == [k \in 1..n |-> Max(Rounded(k))]
           least == [k \in 1..n |-> Min(Rounded(k))]
<1>3. printed.rows = [k \in 1..n |-> [count |-> found[k].count, tokens |-> Rounded(k)]]
  BY <1>1, <1>2 DEF PrintDiscoverText
<1>4. ASSUME NEW total \in printed.total
      PROVE  /\ total.count = SumOver(found, "count")
             /\ total.tokens = IF HasTokens(found) THEN {SumOver(found, "tokens")} ELSE {}
  <2>1. total \in IF found = <<>> THEN {}
                  ELSE {[count |-> SumOver(found, "count"),
                         tokens |-> IF HasTokens(found) THEN {SumOver(found, "tokens")} ELSE {}]}
    BY <1>1 DEF PrintDiscoverText
  <2>2. PICK T : T = IF HasTokens(found) THEN {SumOver(found, "tokens")} ELSE {}
    OBVIOUS
  <2>3. total = [count |-> SumOver(found, "count"), tokens |-> T]
    BY <2>1, <2>2
  <2> QED
    BY <2>2, <2>3
<1>5. PrintDiscoverJson(report).intercepted = found
  BY <1>1 DEF PrintDiscoverJson
<1> HIDE DEF printed
<1>6. SumOver(printed.rows, "count") = SumOver(found, "count")
  <2>1. PICK rows : rows = printed.rows
    OBVIOUS
  <2>2. DOMAIN rows = 1..n /\ \A k \in 1..n : rows[k].count = found[k].count
    BY <1>3, <2>1
  <2>3. [k \in DOMAIN rows |-> rows[k]["count"]] = [k \in DOMAIN found |-> found[k]["count"]]
    BY <1>2, <2>2
  <2> QED
    BY <2>1, <2>3, Zenon DEF SumOver
<1>7. /\ all \in Seq(Nat) /\ Len(all) = n /\ \A k \in 1..n : all[k] = found[k].tokens /\ all[k] \in Nat
      /\ SumOver(found, "tokens") = Summed(all)
  <2>1. all = [k \in DOMAIN found |-> found[k]["tokens"]]
    BY <1>2
  <2>2. all \in Seq(Nat) /\ Len(all) = Len(found)
    BY <2>1, FieldsAreNumbers
  <2>3. \A k \in 1..n : found[k].tokens \in Nat
    BY <1>2, FieldsAreNumbers
  <2>4. SumOver(found, "tokens") = Summed(all)
    BY <2>1, Zenon DEF SumOver
  <2> QED
    BY <1>2, <2>2, <2>3, <2>4
<1>8. ~HasTokens(found) => Summed(all) = 0
  <2> HAVE ~HasTokens(found)
  <2>1. \A k \in 1..n : ~(found[k].tokens > 0)
    BY <1>2 DEF HasTokens
  <2>2. \A k \in 1..Len(all) : all[k] = 0
    <3> TAKE k \in 1..Len(all)
    <3>1. k \in 1..n
      BY <1>7
    <3>2. PICK x \in Nat : x = all[k] /\ ~(x > 0)
      BY <1>7, <2>1, <3>1
    <3> QED
      BY <3>2
  <2> HIDE DEF all
  <2> QED
    BY <1>7, <2>2, SumOfZeros
<1>9. [k \in DOMAIN printed.rows |-> Max(printed.rows[k].tokens)] = most
      /\ [k \in DOMAIN printed.rows |-> Min(printed.rows[k].tokens)] = least
  <2>1. PICK rows : rows = printed.rows
    OBVIOUS
  <2>2. DOMAIN rows = 1..n /\ \A k \in 1..n : rows[k].tokens = Rounded(k)
    <3> HIDE DEF Rounded
    <3> QED
      BY <1>3, <2>1
  <2> HIDE DEF Rounded
  <2> QED
    BY <2>1, <2>2
<1>10. ASSUME HasTokens(found)
       PROVE  Summed(most) <= Summed(all) + 50 * n /\ Summed(all) <= Summed(least) + 50 * n
              /\ Summed(least) \in Nat /\ Summed(all) \in Nat
  <2>1. ASSUME NEW k \in 1..n
        PROVE  /\ most[k] \in Nat /\ least[k] \in Nat
               /\ most[k] <= all[k] + 50 /\ all[k] <= least[k] + 50
    <3>1. PICK x \in Nat : x = all[k] /\ x = found[k].tokens
      BY <1>7
    <3>2. most[k] = Max(FormatTokens(x)) /\ least[k] = Min(FormatTokens(x))
      BY <1>10, <3>1
    <3> HIDE DEF most, least, all
    <3> QED
      BY <3>1, <3>2, RoundedIsNear
  <2>2. most \in Seq(Nat) /\ Len(most) = n /\ least \in Seq(Nat) /\ Len(least) = n
    <3> HIDE DEF Rounded
    <3>1. \A k \in 1..n : Max(Rounded(k)) \in Nat /\ Min(Rounded(k)) \in Nat
      BY <2>1
    <3> QED
      BY <3>1
  <2> HIDE DEF most, least, all
  <2>3. Summed(most) <= Summed(all) + 50 * n
    BY <1>7, <2>1, <2>2, SumsAreNear
  <2>4. Summed(all) <= Summed(least) + 50 * n
    BY <1>7, <2>1, <2>2, SumsAreNear
  <2> QED
    BY <1>7, <2>2, <2>3, <2>4, SummedType
<1> HIDE DEF most, least, all
<1>11. ASSUME NEW total \in printed.total, NEW sum \in total.tokens
       PROVE  /\ Summed(most) <= sum + 50 * n
              /\ Summed(least) >= sum - 50 * n
  <2>1. HasTokens(found) /\ sum = Summed(all)
    BY <1>4, <1>7, <1>11
  <2>2. PICK x \in Nat, y \in Nat, z \in Nat : x = Summed(all) /\ y = Summed(least) /\ z = 50 * n
    BY <1>10, <2>1
  <2>3. x <= y + z
    BY <1>10, <2>1, <2>2
  <2>4. y >= x - z
    BY <2>3
  <2> QED
    BY <1>10, <2>1, <2>2, <2>4
<1>12. ASSUME NEW total \in printed.total, total.tokens = {}
       PROVE  SumOver(found, "tokens") = 0
  BY <1>4, <1>7, <1>8, <1>12
<1> HIDE DEF Rounded
<1> QED
  BY <1>2, <1>4, <1>5, <1>6, <1>9, <1>11, <1>12 DEF TextTellsWhatJsonTells, printed

-----------------------------------------------------------------------------
(* Messages of any length                                                  *)

Outcomes == [kind : {"pass", "deny", "rewrite", "run", "notify"}, text : Seq({"a", Wide}), count : {1}]

LEMMA MessagesAlwaysCutLate ==
    ASSUME NEW outcome \in Outcomes
    PROVE  MessageIsCutLate(outcome)
<1> SUFFICES ASSUME outcome.kind \in {"deny", "rewrite"}
             PROVE  /\ IsCutFrom(FormatLogOutcome(outcome), outcome.text)
                    /\ ByteCount(FormatLogOutcome(outcome)) <= MaxMessage
                    /\ FormatLogOutcome(outcome) # outcome.text =>
                          ByteCount(SubSeq(outcome.text, 1, Len(FormatLogOutcome(outcome)) + 1))
                              > MaxMessage
  BY DEF MessageIsCutLate
<1>1. PICK whole \in Seq({"a", Wide}) : whole = outcome.text
  BY DEF Outcomes
<1>2. PICK n \in Nat : n = Len(whole)
  OBVIOUS
<1>3. PICK b : BytesOf(b, whole)
  BY BeginningsHaveBytes
<1>4. /\ b \in [0..n -> Nat] /\ b[0] = 0
      /\ \A k \in 0..n : ByteCount(SubSeq(whole, 1, k)) = b[k]
  BY <1>2, <1>3 DEF BytesOf
<1> DEFINE fitting == {k \in 0..Len(whole) : ByteCount(SubSeq(whole, 1, k)) <= MaxMessage}
<1>5. FormatLogOutcome(outcome) = SubSeq(whole, 1, Max(fitting))
  BY <1>1 DEF FormatLogOutcome, TruncateDisplay
<1>6. 0 \in fitting /\ fitting \subseteq 0..n
      /\ \A k \in 0..n : k \in fitting <=> b[k] <= MaxMessage
  BY <1>2, <1>4 DEF MaxMessage
<1> HIDE DEF fitting
<1>7. Max(fitting) \in fitting /\ \A k \in fitting : Max(fitting) >= k
  <2>1. fitting \in SUBSET Nat /\ fitting # {} /\ \A k \in fitting : k <= n
    BY <1>6
  <2>2. \E m \in fitting : \A k \in fitting : k <= m
    BY <2>1, Largest
  <2>3. \E m \in fitting : \A k \in fitting : m >= k
    BY <2>1, <2>2
  <2> QED
    BY <2>3, Zenon DEF Max
<1>8. PICK m \in 0..n : m = Max(fitting) /\ b[m] <= MaxMessage /\ \A k \in 0..n : k > m => ~(b[k] <= MaxMessage)
  <2>2. PICK m : m = Max(fitting)
    OBVIOUS
  <2>1. \A k \in 0..n : k > m => k \notin fitting
    <3>1. m \in 0..n /\ \A k \in fitting : m >= k
      BY <1>6, <1>7, <2>2
    <3> QED
      BY <3>1
  <2>3. m \in fitting /\ m \in 0..n
    BY <1>6, <1>7, <2>2
  <2>4. b[m] <= MaxMessage
    BY <1>6, <2>3
  <2>5. \A k \in 0..n : k > m => ~(b[k] <= MaxMessage)
    BY <1>6, <2>1, <2>2
  <2> QED
    BY <2>2, <2>3, <2>4, <2>5
<1>9. PICK shown : shown = FormatLogOutcome(outcome) /\ shown = SubSeq(whole, 1, m)
  BY <1>5, <1>8
<1>10. Len(shown) = m
  <2>1. m \in Nat /\ m <= Len(whole)
    BY <1>2
  <2> QED
    BY <1>9, <2>1
<1>11. IsCutFrom(shown, whole)
  BY <1>2, <1>9 DEF IsCutFrom
<1>12. ByteCount(shown) <= MaxMessage
  BY <1>4, <1>8, <1>9
<1>13. shown # whole => ByteCount(SubSeq(whole, 1, m + 1)) > MaxMessage
  <2> HAVE shown # whole
  <2>1. m # n
    <3> SUFFICES ASSUME m = n PROVE FALSE
      OBVIOUS
    <3>1. SubSeq(whole, 1, n) = whole
      BY <1>2
    <3> QED
      BY <1>9, <3>1
  <2>2. PICK k \in 0..n : k = m + 1 /\ k > m
    BY <2>1
  <2>3. PICK x \in Nat : x = b[k] /\ ~(x <= MaxMessage)
    BY <1>4, <1>8, <2>2
  <2>4. x > MaxMessage
    BY <2>3 DEF MaxMessage
  <2> QED
    BY <1>4, <2>2, <2>3, <2>4
<1> QED
  BY <1>1, <1>9, <1>10, <1>11, <1>12, <1>13

-----------------------------------------------------------------------------
(* The behaviours of MCHookWork *)

\* The inputs are of the kinds the lemmas above are about.
CommandWords == {"git", "./git", "sh", "x", "-c"}
Labels == {"secret", "token", Padded, NoScalar}
Patterns == {Secrets, Errors}

LEMMA OneIsASequence == \A S : \A a \in S : <<a>> \in Seq(S)
OBVIOUS

LEMMA CommandsOfRules == Commands(HookRules, CommandWords)
<1> SUFFICES ASSUME NEW rule \in HookRules PROVE rule.command \in Seq(CommandWords)
  BY DEF Commands
<1>1. rule.command \in {<<>>, <<"git">>, <<"./git">>, <<"sh", "x", "-c">>}
  BY DEF HookRules
<1>2. <<>> \in Seq(CommandWords)
  BY EmptySeq
<1>3. <<"git">> \in Seq(CommandWords) /\ <<"./git">> \in Seq(CommandWords)
  BY OneIsASequence DEF CommandWords
<1>4. <<"sh", "x", "-c">> \in Seq(CommandWords)
  BY DEF CommandWords
<1> QED
  BY <1>1, <1>2, <1>3, <1>4

LEMMA InputsOfSwaps ==
    Arguments \subseteq ArgumentsOf /\ Files \subseteq FilesToRead /\ SwapConfigs \subseteq SwapLimits
BY DEF Arguments, Arg, ArgumentsOf, Files, FilesToRead, SwapConfigs, SwapLimits

LEMMA InputsOfOutputs ==
    /\ \A rule \in FilterRules : <<rule>> \in Seq(RulesOfFilters)
    /\ Filters \subseteq FilterLists({"secret", "bad", "token"})
    /\ {0, 1, UnknownExit} \subseteq Nat
<1>1. FilterRules \subseteq RulesOfFilters
  BY DEF FilterRules, RulesOfFilters, Modes
<1>2. \A rule \in FilterRules : <<rule>> \in Seq(RulesOfFilters)
  BY <1>1, OneIsASequence
<1> DEFINE L == {"secret", "bad", "token"}
<1>3. /\ AFilter("secret", Errors) \in Listing(L) /\ AFilter("bad", NoRegex) \in Listing(L)
      /\ AFilter("token", Secrets) \in Listing(L)
  BY DEF AFilter, Errors, NoRegex, Secrets, Listing, Lines
<1>4. <<AFilter("secret", Errors), AFilter("bad", NoRegex), AFilter("token", Secrets)>> \in Seq(Listing(L))
  BY <1>3
<1>5. <<>> \in Seq(Listing(L))
  BY EmptySeq
<1>6. {0, 1, UnknownExit} \subseteq Nat
  BY DEF UnknownExit
<1> QED
  BY <1>2, <1>4, <1>5, <1>6 DEF Filters, FilterLists

\* Every script of Scripts is one that nu was asked about.
LEMMA InputsOfScripts == Scripts \subseteq Seq(CheckedScripts)
<1> DEFINE One == [checked : BOOLEAN, diagnostics : {<<>>, <<"warning", "error">>, <<"warning">>}]
<1>1. <<>> \in Seq(Said) /\ <<"warning">> \in Seq(Said) /\ <<"warning", "error">> \in Seq(Said)
  BY EmptySeq DEF Said
<1>2. One \subseteq CheckedScripts
  BY <1>1 DEF CheckedScripts
<1>3. Scripts \subseteq Seq(One)
  <2> SUFFICES ASSUME NEW scripts \in Scripts PROVE scripts \in Seq(One)
    OBVIOUS
  <2> HIDE DEF One
  <2>1. Scripts = UNION {[1..m -> One] : m \in 0..2}
    BY DEF Scripts, SeqOf, One
  <2>2. PICK m \in 0..2 : scripts \in [1..m -> One]
    BY <2>1
  <2>3. 0..2 \subseteq Nat
    OBVIOUS
  <2> QED
    BY <2>2, <2>3, SeqDef
<1> HIDE DEF One
<1>4. Seq(One) \subseteq Seq(CheckedScripts)
  BY <1>2
<1> QED
  BY <1>3, <1>4

\* What obfsck-mcp answers, and the files it is taken to.
LEMMA InputsOfTools ==
    Mcps \subseteq Answering(Labels, Patterns) /\ FilterFiles \subseteq FiltersFiles(Labels, Patterns)
<1> DEFINE A == SuggestedAs(Labels, Patterns)
           Line == [kind : {"blank", "json", "text"}, suggestions : Seq(A)]
           E == ListedAs(Labels, Patterns)
<1>1. /\ Suggestion("token", FALSE) \in A /\ Suggestion("secret", TRUE) \in A
      /\ Suggestion("token", TRUE) \in A /\ Suggestion(Padded, TRUE) \in A
      /\ Suggestion(NoScalar, TRUE) \in A
  BY DEF Suggestion, SuggestedAs, Labels, Patterns
<1>2. /\ AFilter("secret", Errors) \in E /\ AFilter(NoScalar, Errors) \in E
  BY DEF AFilter, ListedAs, Labels, Patterns
<1> HIDE DEF A, E
<1>3. /\ <<Suggestion("token", FALSE), Suggestion("secret", TRUE)>> \in Seq(A)
      /\ <<Suggestion("token", TRUE), Suggestion("secret", TRUE)>> \in Seq(A)
      /\ <<Suggestion(NoScalar, TRUE), Suggestion("token", TRUE)>> \in Seq(A)
  <2>1. \A x, y \in A : <<x, y>> \in Seq(A)
    OBVIOUS
  <2> QED
    BY <1>1, <2>1, Zenon
<1>4. <<Suggestion(Padded, TRUE)>> \in Seq(A) /\ <<>> \in Seq(A)
  BY <1>1, OneIsASequence, EmptySeq, Zenon
<1>5. \A s \in Seq(A) : [kind |-> "json", suggestions |-> s] \in Line
  OBVIOUS
<1>6. /\ [kind |-> "blank", suggestions |-> <<>>] \in Line
      /\ [kind |-> "text", suggestions |-> <<>>] \in Line
  BY <1>4
<1> HIDE DEF Line
<1>7. SaidLines \subseteq Seq(Line)
  <2> SUFFICES ASSUME NEW l \in SaidLines PROVE l \in Seq(Line)
    OBVIOUS
  <2>1. PICK s \in Seq(A) : l = <<[kind |-> "json", suggestions |-> s]>>
    BY <1>3, <1>4 DEF SaidLines
  <2>2. [kind |-> "json", suggestions |-> s] \in Line
    BY <1>5
  <2> QED
    BY <2>1, <2>2, OneIsASequence
<1>8. /\ <<>> \in Seq(Line) /\ <<[kind |-> "blank", suggestions |-> <<>>]>> \in Seq(Line)
      /\ <<[kind |-> "text", suggestions |-> <<>>]>> \in Seq(Line)
  BY <1>6, OneIsASequence, EmptySeq
<1>9. ToolLines \subseteq Seq(Line)
  <2> DEFINE Ends == {<<>>, <<[kind |-> "blank", suggestions |-> <<>>]>>,
                      <<[kind |-> "text", suggestions |-> <<>>]>>}
  <2>1. Ends \subseteq Seq(Line)
    BY <1>8
  <2>2. ToolLines = {<<>>} \cup {l \o end : l \in SaidLines, end \in Ends}
    BY DEF ToolLines
  <2> HIDE DEF Ends
  <2> SUFFICES ASSUME NEW lines \in ToolLines PROVE lines \in Seq(Line)
    OBVIOUS
  <2>3. CASE lines = <<>>
    BY <1>8, <2>3
  <2>4. CASE \E l \in SaidLines, end \in Ends : lines = l \o end
    <3>1. PICK l \in Seq(Line), end \in Seq(Line) : lines = l \o end
      BY <1>7, <2>1, <2>4
    <3> QED
      BY <3>1
  <2> QED
    BY <2>2, <2>3, <2>4
<1>10. Mcps \subseteq Answering(Labels, Patterns)
  <2>1. Answering(Labels, Patterns) = [present : BOOLEAN, exit : Nat, lines : Seq(Line)]
    BY DEF Answering, Line, A
  <2> QED
    BY <1>9, <2>1 DEF Mcps
<1>11. /\ <<>> \in Seq(E) /\ <<AFilter("secret", Errors)>> \in Seq(E)
       /\ <<AFilter(NoScalar, Errors)>> \in Seq(E)
  BY <1>2, OneIsASequence, EmptySeq
<1>12. FilterFiles \subseteq FiltersFiles(Labels, Patterns)
  <2>1. FiltersFiles(Labels, Patterns) = {f \in [kind : FileKinds, entries : Seq(E)] :
                                             f.kind \in {"absent", "blank"} => f.entries = <<>>}
    BY DEF FiltersFiles, E
  <2> SUFFICES ASSUME NEW f \in FilterFiles
               PROVE  /\ f \in [kind : FileKinds, entries : Seq(E)]
                      /\ f.kind \in {"absent", "blank"} => f.entries = <<>>
    BY <2>1
  <2>2. f \in [kind : {"absent", "blank", "other"}, entries : {<<>>}]
            \/ f \in [kind : {"list"}, entries : {<<>>, <<AFilter("secret", Errors)>>,
                                                  <<AFilter(NoScalar, Errors)>>}]
    BY DEF FilterFiles
  <2> QED
    BY <1>11, <2>2 DEF FileKinds
<1> QED
  BY <1>10, <1>12

\* Where the days, the rows, the findings and the messages begin, and what is
\* put into them.
LEMMA NothingIsHot == NoHeat \in HeatMaps /\ Summed(Grid(NoHeat)) = 0
<1>1. NoHeat \in [{} -> Nat] /\ DOMAIN NoHeat = {}
  BY DEF NoHeat
<1>2. NoHeat \in HeatMaps
  BY <1>1 DEF HeatMaps
<1>3. \A cell : HeatAt(NoHeat, cell) = 0
  BY <1>1 DEF HeatAt
<1> HIDE DEF NoHeat, Grid, HeatAt
<1>4. PICK heat \in HeatMaps : heat = NoHeat
  BY <1>2
<1>5. PICK s \in Seq(Nat) :
          /\ s = Grid(heat) /\ Len(s) = 168
          /\ \A k \in 1..168 : s[k] = HeatAt(heat, PlaceOf(k))
  BY GridsAreNumbers
<1>6. Len(s) = 168 /\ s = Grid(NoHeat)
  BY <1>4, <1>5
<1>7. \A k \in 1..Len(s) : s[k] = 0
  <2>1. Len(s) = 168
    BY <1>5
  <2>2. ASSUME NEW k \in 1..168
        PROVE  s[k] = 0
    <3>1. s[k] = HeatAt(heat, PlaceOf(k))
      BY <1>5
    <3>2. PICK cell : cell = PlaceOf(k)
      OBVIOUS
    <3> QED
      BY <1>3, <1>4, <3>1, <3>2
  <2> QED
    BY <2>1, <2>2, ZenonT(60)
<1>8. Summed(s) = 0
  <2>1. (\A i \in 1..Len(s) : s[i] = 0) => Summed(s) = 0
    BY SumOfZeros
  <2> QED
    BY <1>7, <2>1, Zenon
<1> QED
  BY <1>2, <1>6, <1>8

LEMMA InputsOfMessages == Messages \subseteq Seq({"a", Wide})
<1> SUFFICES ASSUME NEW message \in Messages PROVE message \in Seq({"a", Wide})
  OBVIOUS
<1>1. PICK n \in MaxMessage - 4..MaxMessage : message = Letters(n)
  BY DEF Messages
<1>2. n \in Nat
  BY DEF MaxMessage
<1> QED
  BY <1>1, <1>2, LettersAreLetters

LEMMA CellsOfLetters ==
    /\ {} \in CellsOfRows
    /\ \A n \in Nat : {Letters(n)} \in CellsOfRows /\ {Append(Letters(n), Wide)} \in CellsOfRows
<1> SUFFICES ASSUME NEW n \in Nat
             PROVE  Letters(n) \in Seq({"a", Wide}) /\ Append(Letters(n), Wide) \in Seq({"a", Wide})
  BY DEF CellsOfRows
<1>1. Letters(n) \in Seq({"a", Wide})
  BY LettersAreLetters
<1> QED
  BY <1>1, AppendProperties

LEMMA PlainRowIsARow == PlainRow \in SessionRows
<1>1. \A n \in {20, 7, 4, 14, 12, 30} : {Letters(n)} \in CellsOfRows
  <2>1. {20, 7, 4, 14, 12, 30} \subseteq Nat
    OBVIOUS
  <2> QED
    BY <2>1, CellsOfLetters
<1> HIDE DEF CellsOfRows, Letters
<1>2. /\ {Letters(20)} \in CellsOfRows /\ {Letters(7)} \in CellsOfRows /\ {Letters(4)} \in CellsOfRows
      /\ {Letters(14)} \in CellsOfRows /\ {Letters(12)} \in CellsOfRows /\ {Letters(30)} \in CellsOfRows
  BY <1>1
<1> QED
  BY <1>2 DEF PlainRow, SessionRows, EightDigits

LEMMA OddCellsAreCells ==
    ASSUME NEW column \in DOMAIN OddCells, NEW cell \in OddCells[column]
    PROVE  IF column = "friction" THEN cell \in EightDigits ELSE cell \in CellsOfRows
<1>1. ASSUME NEW width \in Nat, width >= 3
      PROVE  Around(width) \subseteq CellsOfRows
  <2> SUFFICES ASSUME NEW c \in Around(width) PROVE c \in CellsOfRows
    OBVIOUS
  <2>1. c = {} \/ \E n \in width - 3..width + 1 : c = {Letters(n)} \/ c = {Append(Letters(n), Wide)}
    BY DEF Around
  <2>2. \A n \in width - 3..width + 1 : n \in Nat
    BY <1>1
  <2> QED
    BY <2>1, <2>2, CellsOfLetters
<1>2. {{}, {Letters(9)}, {Letters(10)}} \subseteq CellsOfRows
  <2>1. 9 \in Nat /\ 10 \in Nat
    OBVIOUS
  <2> QED
    BY <2>1, CellsOfLetters
<1>3. /\ Widths.repo = 14 /\ Widths.branch = 12 /\ Widths.outcome = 20 /\ Widths.helpfulness = 16
      /\ SummaryWidth = 60
  BY DEF Widths, SummaryWidth
<1>4. /\ Around(Widths.repo) \subseteq CellsOfRows /\ Around(Widths.branch) \subseteq CellsOfRows
      /\ Around(Widths.outcome) \subseteq CellsOfRows /\ Around(Widths.helpfulness) \subseteq CellsOfRows
      /\ Around(SummaryWidth) \subseteq CellsOfRows
  BY <1>1, <1>3
<1>5. DOMAIN OddCells =
          {"date", "repo", "branch", "outcome", "helpfulness", "friction", "summary"}
  BY DEF OddCells
<1>6. column = "friction" => OddCells[column] \subseteq EightDigits
  BY DEF OddCells, EightDigits
<1>7. /\ OddCells["date"] \subseteq CellsOfRows /\ OddCells["repo"] \subseteq CellsOfRows
      /\ OddCells["branch"] \subseteq CellsOfRows /\ OddCells["outcome"] \subseteq CellsOfRows
      /\ OddCells["helpfulness"] \subseteq CellsOfRows /\ OddCells["summary"] \subseteq CellsOfRows
  <2>1. /\ OddCells["date"] = {{}, {Letters(9)}, {Letters(10)}} /\ OddCells["repo"] = Around(Widths.repo)
        /\ OddCells["branch"] = Around(Widths.branch) /\ OddCells["outcome"] = Around(Widths.outcome)
        /\ OddCells["helpfulness"] = Around(Widths.helpfulness) /\ OddCells["summary"] = Around(SummaryWidth)
    BY DEF OddCells
  <2> QED
    BY <1>2, <1>4, <2>1
<1> QED
  BY <1>5, <1>6, <1>7

LEMMA InputsOfReports ==
    DOMAIN Findings = {"intercepted", "unhandled"}
        /\ \A list \in DOMAIN Findings : Findings[list] \subseteq FindingRows
<1> DEFINE V == {"a", Wide}
<1>1. <<"a">> \in Seq(V)
  BY OneIsASequence
<1>2. Letters(36) \in Seq(V) /\ Letters(34) \in Seq(V) /\ Letters(35) \in Seq(V)
  BY LettersAreLetters
<1>3. <<Wide, "a">> \in Seq(V)
  OBVIOUS
<1> HIDE DEF V
<1>4. Append(Letters(34), Wide) \in Seq(V)
  BY <1>2, AppendProperties DEF V
<1>5. Letters(35) \o <<Wide, "a">> \in Seq(V)
  BY <1>2, <1>3, ConcatProperties
<1>6. DOMAIN Findings = {"intercepted", "unhandled"}
  BY DEF Findings
<1>7. FindingRows = [count : Nat, tokens : Nat, example : Seq(V)]
  BY DEF FindingRows, V
<1>8. ASSUME NEW finding \in Findings["intercepted"]
      PROVE  finding \in FindingRows
  <2>1. finding \in [count : {1, 3}, tokens : {0, 7, 1050, 1949}, example : {<<"a">>}]
    BY <1>8 DEF Findings
  <2>2. finding = [count |-> finding.count, tokens |-> finding.tokens, example |-> finding.example]
        /\ finding.count \in Nat /\ finding.tokens \in Nat /\ finding.example = <<"a">>
    BY <2>1
  <2> QED
    BY <1>1, <1>7, <2>2
<1>9. ASSUME NEW finding \in Findings["unhandled"]
      PROVE  finding \in FindingRows
  <2>1. finding \in [count : {2}, tokens : {0, 5}, example : LongExamples]
    BY <1>9 DEF Findings
  <2>2. finding = [count |-> finding.count, tokens |-> finding.tokens, example |-> finding.example]
        /\ finding.count \in Nat /\ finding.tokens \in Nat /\ finding.example \in LongExamples
    BY <2>1
  <2>3. LongExamples \subseteq Seq(V)
    BY <1>2, <1>4, <1>5 DEF LongExamples
  <2> QED
    BY <1>7, <2>2, <2>3
<1> QED
  BY <1>6, <1>8, <1>9

\* What is at work of the topics that are proved about.
LayersTyped == [Layers -> ConfigFiles(HookRules)]
FiltersTyped == FiltersFiles(Labels, Patterns)
DaysWalked ==
    {days \in [first : Nat, walked : Nat, heat : HeatMaps] : Summed(Grid(days.heat)) = days.walked}
WorkTyped ==
    /\ topic = "document" => work \in Documents
    /\ topic = "profile" => work \in [flags : Flags, env : Environments]
    /\ topic = "installed" => work \in SUBSET Entries
    /\ topic = "arguments" => work \in Seq(Arguments)
    /\ topic = "output" => work \in Seq(Lines)
    /\ topic = "script" => work \in Seq(Sources)
    /\ topic = "layers" => work \in LayersTyped
    /\ topic = "tools" => work.filters \in FiltersTyped
    /\ topic = "days" => work \in DaysWalked
    /\ topic = "row" => work \in SessionRows
    /\ topic = "report" => work \in FoundReports
    /\ topic = "message" => work \in Outcomes

WorkInv == WorkTyped /\ PipeInv

LEMMA NothingInLayers ==
    NoFileThere \in ConfigFiles(HookRules)
        /\ [layer \in Layers |-> [state |-> "valid", rules |-> <<>>, swap |-> FALSE]] \in LayersTyped
<1>1. <<>> \in Seq(HookRules)
  BY EmptySeq
<1>2. NoFileThere \in ConfigFiles(HookRules)
  BY <1>1 DEF NoFileThere, ConfigFiles
<1>3. [state |-> "valid", rules |-> <<>>, swap |-> FALSE] \in ConfigFiles(HookRules)
  BY <1>1 DEF ConfigFiles
<1> QED
  BY <1>2, <1>3 DEF LayersTyped

LEMMA WorkInit == Init => WorkInv
<1> SUFFICES ASSUME Init PROVE WorkInv
    OBVIOUS
<1>1. CASE topic = "pipes"
  <2>1. PipeInv
    BY <1>1, InvInit DEF Init
  <2> QED
    BY <1>1, <2>1 DEF WorkInv, WorkTyped
<1>2. CASE topic # "pipes"
  <2>1. PipeInv
    BY <1>2 DEF Init, NoPipes, PipeInv, Amounts, Stages, Conserved, WrittenWhole, AnsweredWhole,
        ReadToTheEnd
  <2>2. topic = "document" => work \in Documents
    BY ProperIsADocument DEF Init, NoWork
  <2>3. topic = "profile" => work \in [flags : Flags, env : Environments]
    BY DEF Init, NoWork
  <2>4. topic = "installed" => work \in SUBSET Entries
    BY DEF Init, NoWork, Entries
  <2>5. ASSUME topic \in {"arguments", "output", "script"}
        PROVE  \A S : work \in Seq(S)
    <3>1. work = <<>>
      BY <2>5 DEF Init, NoWork
    <3> QED
      BY <3>1, EmptySeq
  <2>6. topic = "layers" => work \in LayersTyped
    BY NothingInLayers DEF Init, NoWork
  <2>7. topic = "tools" => work.filters \in FiltersTyped
    <3> HAVE topic = "tools"
    <3>1. work \in [ctx : BOOLEAN, tools : {<<>>}, filters : FilterFiles]
      BY DEF Init, NoWork
    <3> QED
      BY <3>1, InputsOfTools DEF FiltersTyped
  <2>8. topic = "days" => work \in DaysWalked
    <3> HAVE topic = "days"
    <3>1. work \in [first : FirstDays, walked : {0}, heat : {NoHeat}]
      BY DEF Init, NoWork
    <3>2. work.first \in FirstDays /\ work.walked = 0 /\ work.heat = NoHeat
          /\ work = [first |-> work.first, walked |-> work.walked, heat |-> work.heat]
      BY <3>1
    <3>3. work.first \in Nat
      BY <3>2 DEF FirstDays
    <3>4. work \in [first : Nat, walked : Nat, heat : HeatMaps]
      BY <3>2, <3>3, NothingIsHot
    <3> QED
      BY <3>2, <3>4, NothingIsHot DEF DaysWalked
  <2>9. topic = "row" => work \in SessionRows
    BY PlainRowIsARow DEF Init, NoWork
  <2>10. topic = "report" => work \in FoundReports
    <3> HAVE topic = "report"
    <3>1. work = [intercepted |-> <<>>, unhandled |-> <<>>]
      BY DEF Init, NoWork
    <3> QED
      BY <3>1, EmptySeq DEF FoundReports
  <2>11. topic = "message" => work \in Outcomes
    <3> HAVE topic = "message"
    <3>1. work \in [kind : {"pass", "deny", "rewrite", "run", "notify"}, text : Messages, count : {1}]
      BY DEF Init, NoWork
    <3> QED
      BY <3>1, InputsOfMessages DEF Outcomes
  <2> QED
    BY <2>1, <2>2, <2>3, <2>4, <2>5, <2>6, <2>7, <2>8, <2>9, <2>10, <2>11 DEF WorkInv, WorkTyped
<1> QED
    BY <1>1, <1>2

\* The steps of other topics change nothing that is proved about.
OtherTopics ==
    /\ topic \notin {"document", "profile", "installed", "arguments", "output", "script",
                     "layers", "tools", "days", "row", "report", "message"}
    /\ UNCHANGED <<topic, pipeVars>>

LEMMA OthersGrow ==
    ASSUME AddCharacter \/ AddExpanded \/ AddPlaceholder \/ AddCall \/ AddSession
    PROVE  OtherTopics
BY DEF OtherTopics, Grow, AddCharacter, AddExpanded, AddPlaceholder, AddCall, AddSession

\* A sequence grows by one of its kind.
LEMMA GrowsTyped ==
    ASSUME NEW kind, NEW max, NEW S, Grow(kind, max, S), work \in Seq(S)
    PROVE  topic = kind /\ work' \in Seq(S) /\ UNCHANGED <<topic, pipeVars>>
<1>1. PICK e \in S : work' = Append(work, e)
  BY DEF Grow
<1>2. Append(work, e) \in Seq(S)
  BY AppendProperties
<1> QED
  BY <1>1, <1>2 DEF Grow

\* A rule is added to a file of configuration, or the file is another.
LEMMA LayersStayTyped ==
    ASSUME topic = "layers", work \in LayersTyped, AddRule \/ ChangeLayer
    PROVE  work' \in LayersTyped /\ UNCHANGED <<topic, pipeVars>>
<1> DEFINE C == ConfigFiles(HookRules)
<1>1. ASSUME NEW layer \in Layers, NEW file \in C
      PROVE  [work EXCEPT ![layer] = file] \in LayersTyped
  <2> HIDE DEF C
  <2> QED
    BY DEF LayersTyped, C
<1>2. \A layer \in Layers : work[layer] \in C
  BY DEF LayersTyped
<1>3. ASSUME NEW file \in C
      PROVE  /\ file.rules \in Seq(HookRules)
             /\ file = [state |-> file.state, rules |-> file.rules, swap |-> file.swap]
             /\ file.swap \in BOOLEAN /\ file.state \in {"absent", "unreadable", "malformed", "valid"}
  BY DEF ConfigFiles
<1>4. ASSUME NEW state \in {"unreadable", "malformed", "valid"}, NEW rules \in Seq(HookRules),
             NEW swap \in BOOLEAN
      PROVE  [state |-> state, rules |-> rules, swap |-> swap] \in C
  BY DEF ConfigFiles
<1>5. NoFileThere \in C
  BY NothingInLayers
<1>6. CASE AddRule
  <2>1. PICK layer \in Layers, rule \in HookRules :
            work[layer].state # "absent" /\ work' = [work EXCEPT ![layer].rules = Append(@, rule)]
    BY <1>6 DEF AddRule
  <2>2. PICK file \in C : file = work[layer]
    BY <1>2
  <2>3. PICK longer \in Seq(HookRules) : longer = Append(file.rules, rule)
    BY <1>3, AppendProperties
  <2>4. [state |-> file.state, rules |-> longer, swap |-> file.swap] \in C
    BY <1>3, <1>4, <2>1, <2>2
  <2>5. work' = [work EXCEPT ![layer] = [state |-> file.state, rules |-> longer, swap |-> file.swap]]
    <3>1. [file EXCEPT !.rules = longer]
              = [state |-> file.state, rules |-> longer, swap |-> file.swap]
      BY <1>3
    <3>2. work' = [work EXCEPT ![layer] = [file EXCEPT !.rules = longer]]
      BY <2>1, <2>2, <2>3
    <3> QED
      BY <3>1, <3>2
  <2> QED
    BY <1>1, <1>6, <2>4, <2>5 DEF AddRule
<1>7. CASE ChangeLayer
  <2>1. PICK layer \in Layers :
          \/ \E s \in {"valid", "malformed", "unreadable"} :
                work' = [work EXCEPT ![layer].state = s, ![layer].swap = FALSE]
          \/ work' = [work EXCEPT ![layer].state = "valid", ![layer].swap = TRUE]
          \/ work' = [work EXCEPT ![layer] = NoFileThere]
    BY <1>7 DEF ChangeLayer
  <2>2. PICK file \in C : file = work[layer]
    BY <1>2
  <2>3. ASSUME NEW s, NEW swap,
               work' = [work EXCEPT ![layer].state = s, ![layer].swap = swap]
        PROVE  work' = [work EXCEPT ![layer] = [state |-> s, rules |-> file.rules, swap |-> swap]]
    <3>1. work \in [Layers -> C]
      BY DEF LayersTyped
    <3>2. [[file EXCEPT !.state = s] EXCEPT !.swap = swap]
              = [state |-> s, rules |-> file.rules, swap |-> swap]
      <4>1. PICK state, rules, swap0 :
                file = [state |-> state, rules |-> rules, swap |-> swap0]
        BY <1>3
      <4> HIDE DEF C
      <4>2. [file EXCEPT !.state = s] = [state |-> s, rules |-> rules, swap |-> swap0]
        BY <4>1
      <4>3. PICK changed : changed = [file EXCEPT !.state = s]
        OBVIOUS
      <4>4. changed = [state |-> s, rules |-> rules, swap |-> swap0]
        BY <4>2, <4>3
      <4>5. [changed EXCEPT !.swap = swap] = [state |-> s, rules |-> rules, swap |-> swap]
        BY <4>4
      <4> QED
        BY <4>1, <4>3, <4>5
    <3> HIDE DEF C
    <3>3. work' = [work EXCEPT ![layer] = [[file EXCEPT !.state = s] EXCEPT !.swap = swap]]
      BY <2>2, <2>3, <3>1
    <3> QED
      BY <3>2, <3>3
  <2>4. ASSUME NEW s \in {"unreadable", "malformed", "valid"}, NEW swap \in BOOLEAN,
               work' = [work EXCEPT ![layer].state = s, ![layer].swap = swap]
        PROVE  work' \in LayersTyped
    <3>1. file.rules \in Seq(HookRules)
      BY <1>3
    <3>2. PICK other \in C : other = [state |-> s, rules |-> file.rules, swap |-> swap]
      BY <1>4, <3>1
    <3>3. work' = [work EXCEPT ![layer] = other]
      BY <2>3, <2>4, <3>2
    <3> QED
      BY <1>1, <3>3
  <2>5. ASSUME work' = [work EXCEPT ![layer] = NoFileThere]
        PROVE  work' \in LayersTyped
    <3>1. PICK absent \in C : absent = NoFileThere
      BY <1>5
    <3> QED
      BY <1>1, <2>5, <3>1
  <2>6. work' \in LayersTyped
    <3>1. CASE \E s \in {"valid", "malformed", "unreadable"} :
                  work' = [work EXCEPT ![layer].state = s, ![layer].swap = FALSE]
      BY <2>4, <3>1
    <3>2. CASE work' = [work EXCEPT ![layer].state = "valid", ![layer].swap = TRUE]
      BY <2>4, <3>2
    <3> QED
      BY <2>1, <2>5, <3>1, <3>2
  <2> QED
    BY <1>7, <2>6 DEF ChangeLayer
<1> QED
  BY <1>6, <1>7

\* crs discover leaves a file of filters.
LEMMA ToolsStayTyped ==
    ASSUME topic = "tools", work.filters \in FiltersTyped, RunDiscover
    PROVE  work'.filters \in FiltersTyped /\ UNCHANGED <<topic, pipeVars>>
<1>1. PICK scan \in Scans, generate \in BOOLEAN, mcp \in Mcps :
          work' = DiscoverFiles(work, scan, generate, GoodRtk, mcp)
  BY DEF RunDiscover
<1>2. FilterSuggestions(mcp) \in Seq(SuggestedAs(Labels, Patterns))
  BY InputsOfTools, SuggestionsAreTyped
<1>3. PICK suggested \in Seq(SuggestedAs(Labels, Patterns)) : suggested = FilterSuggestions(mcp)
  BY <1>2
<1>4. WriteObfsckFilters(work.filters, suggested) \in FiltersTyped
  BY FilesStayFiles DEF FiltersTyped
<1>5. work'.filters \in {work.filters, WriteObfsckFilters(work.filters, suggested)}
  BY <1>1, <1>3 DEF DiscoverFiles
<1> QED
  BY <1>4, <1>5 DEF RunDiscover

\* A day later there is one firing more.
LEMMA DaysStayTyped ==
    ASSUME topic = "days", work \in DaysWalked, NextDay
    PROVE  work' \in DaysWalked /\ UNCHANGED <<topic, pipeVars>>
<1>1. PICK first \in Nat, walked \in Nat, heat \in HeatMaps :
          /\ work = [first |-> first, walked |-> walked, heat |-> heat]
          /\ Summed(Grid(heat)) = walked
  BY DEF DaysWalked
<1>2. first + walked \in Nat /\ (walked \div 9) % 3 \in 0..23 /\ walked + 1 \in Nat
  <2>1. walked \div 9 \in Nat
    OBVIOUS
  <2>2. \A n \in Nat : n % 3 \in 0..23
    OBVIOUS
  <2> QED
    BY <2>1, <2>2
<1>3. PICK hotter : hotter = RecordFiring(heat, first + walked, (walked \div 9) % 3)
  OBVIOUS
<1>4. hotter \in HeatMaps /\ Summed(Grid(hotter)) = walked + 1
  BY <1>1, <1>2, <1>3, HeatGrows
<1>5. work' = [work EXCEPT !.walked = walked + 1, !.heat = hotter]
  BY <1>1, <1>3 DEF NextDay
<1>6. work' = [first |-> first, walked |-> walked + 1, heat |-> hotter]
  BY <1>1, <1>5
<1> QED
  <2>1. PICK days : days = [first |-> first, walked |-> walked + 1, heat |-> hotter]
    OBVIOUS
  <2>2. days \in [first : Nat, walked : Nat, heat : HeatMaps]
        /\ days.heat = hotter /\ days.walked = walked + 1
    BY <1>2, <1>4, <2>1
  <2>3. days \in DaysWalked
    BY <1>4, <2>2 DEF DaysWalked
  <2>4. UNCHANGED <<topic, pipeVars>>
    BY DEF NextDay
  <2> QED
    BY <1>6, <2>1, <2>3, <2>4

LEMMA RowsStayTyped ==
    ASSUME topic = "row", work \in SessionRows, ChangeCell
    PROVE  work' \in SessionRows /\ UNCHANGED <<topic, pipeVars>>
<1>0. PICK column \in DOMAIN OddCells :
          \E cell \in OddCells[column] : work' = [work EXCEPT ![column] = cell]
  BY DEF ChangeCell
<1>1. PICK cell \in OddCells[column] : work' = [work EXCEPT ![column] = cell]
  BY <1>0
<1>2. \/ column = "friction" /\ cell \in EightDigits
      \/ column # "friction" /\ cell \in CellsOfRows
  BY OddCellsAreCells
<1>3. column \in {"date", "repo", "branch", "outcome", "helpfulness", "friction", "summary"}
  BY DEF OddCells
<1>4. work' \in SessionRows
  BY <1>1, <1>2, <1>3 DEF SessionRows
<1> QED
  BY <1>4 DEF ChangeCell

LEMMA ReportsStayTyped ==
    ASSUME topic = "report", work \in FoundReports, AddFinding
    PROVE  work' \in FoundReports /\ UNCHANGED <<topic, pipeVars>>
<1>0. PICK list \in DOMAIN Findings :
          \E finding \in Findings[list] : work' = [work EXCEPT ![list] = Append(@, finding)]
  BY DEF AddFinding
<1>1. PICK finding \in Findings[list] : work' = [work EXCEPT ![list] = Append(@, finding)]
  BY <1>0
<1>2. list \in {"intercepted", "unhandled"} /\ finding \in FindingRows
  BY InputsOfReports
<1>3. work[list] \in Seq(FindingRows)
  BY <1>2 DEF FoundReports
<1>4. PICK longer \in Seq(FindingRows) : longer = Append(work[list], finding)
  BY <1>2, <1>3, AppendProperties
<1>5. work' = [work EXCEPT ![list] = longer]
  BY <1>1, <1>4
<1>6. work' \in FoundReports
  BY <1>2, <1>5 DEF FoundReports
<1> QED
  BY <1>6 DEF AddFinding

LEMMA MessagesStayTyped ==
    ASSUME topic = "message", work \in Outcomes, AddToMessage
    PROVE  work' \in Outcomes /\ UNCHANGED <<topic, pipeVars>>
<1>1. PICK c \in {"a", Wide} : work' = [work EXCEPT !.text = Append(@, c)]
  BY DEF AddToMessage
<1>2. work.text \in Seq({"a", Wide})
  BY DEF Outcomes
<1>3. PICK longer \in Seq({"a", Wide}) : longer = Append(work.text, c)
  BY <1>2, AppendProperties
<1>4. work' = [work EXCEPT !.text = longer]
  BY <1>1, <1>3
<1>5. work' \in Outcomes
  BY <1>4 DEF Outcomes
<1> QED
  BY <1>5 DEF AddToMessage

LEMMA PipesStay == PipeInv /\ UNCHANGED pipeVars => PipeInv'
BY DEF pipeVars, PipeInv, Amounts, Stages, Conserved, WrittenWhole, AnsweredWhole, ReadToTheEnd

LEMMA WorkStep == WorkInv /\ [Next]_vars => WorkInv'
<1> SUFFICES ASSUME WorkInv, [Next]_vars PROVE WorkInv'
    OBVIOUS
<1>1. CASE OtherTopics
    BY <1>1, PipesStay DEF OtherTopics, WorkInv, WorkTyped
<1>2. CASE ChangeField
  <2>1. topic = "document" /\ topic' = topic /\ UNCHANGED pipeVars /\ work' \in NextDocuments(work)
    BY <1>2 DEF ChangeField
  <2>2. work' \in Documents
    BY <2>1, FieldsStayFields DEF WorkInv, WorkTyped
  <2> QED
    BY <2>1, <2>2, PipesStay DEF WorkInv, WorkTyped
<1>3. CASE ToggleEntry
  <2>1. topic = "installed" /\ topic' = topic /\ UNCHANGED pipeVars
    BY <1>3 DEF ToggleEntry
  <2>2. work' \in SUBSET Entries
    BY <1>3, <2>1 DEF ToggleEntry, WorkInv, WorkTyped, Entries
  <2> QED
    BY <2>1, <2>2, PipesStay DEF WorkInv, WorkTyped
<1>4. CASE UsePipes
  <2>1. UNCHANGED <<topic, work>> /\ [PipeNext]_pipeVars
    BY <1>4 DEF UsePipes
  <2> QED
    BY <2>1, StepKeepsInv DEF WorkInv, WorkTyped
<1>5. CASE UNCHANGED vars
    BY <1>5, PipesStay DEF vars, WorkInv, WorkTyped
<1>6. Enough => UNCHANGED vars
    BY DEF Enough
<1>7. CASE AddArgument
  <2>1. topic = "arguments" /\ work \in Seq(Arguments)
    BY <1>7 DEF AddArgument, Grow, WorkInv, WorkTyped
  <2>2. work' \in Seq(Arguments) /\ UNCHANGED <<topic, pipeVars>>
    BY <1>7, <2>1, GrowsTyped DEF AddArgument
  <2> QED
    BY <2>1, <2>2, PipesStay DEF WorkInv, WorkTyped
<1>8. CASE AddLine
  <2>1. topic = "output" /\ work \in Seq(Lines)
    BY <1>8 DEF AddLine, Grow, WorkInv, WorkTyped
  <2>2. work' \in Seq(Lines) /\ UNCHANGED <<topic, pipeVars>>
    BY <1>8, <2>1, GrowsTyped DEF AddLine
  <2> QED
    BY <2>1, <2>2, PipesStay DEF WorkInv, WorkTyped
<1>9. CASE AddToScript
  <2>1. topic = "script" /\ work \in Seq(Sources)
    BY <1>9 DEF AddToScript, Grow, WorkInv, WorkTyped
  <2>2. work' \in Seq(Sources) /\ UNCHANGED <<topic, pipeVars>>
    BY <1>9, <2>1, GrowsTyped DEF AddToScript
  <2> QED
    BY <2>1, <2>2, PipesStay DEF WorkInv, WorkTyped
<1>10. CASE AddRule \/ ChangeLayer
  <2>1. topic = "layers" /\ work \in LayersTyped
    BY <1>10 DEF AddRule, ChangeLayer, WorkInv, WorkTyped
  <2>2. work' \in LayersTyped /\ UNCHANGED <<topic, pipeVars>>
    BY <1>10, <2>1, LayersStayTyped
  <2> QED
    BY <2>1, <2>2, PipesStay DEF WorkInv, WorkTyped
<1>11. CASE RunDiscover
  <2>1. topic = "tools" /\ work.filters \in FiltersTyped
    BY <1>11 DEF RunDiscover, WorkInv, WorkTyped
  <2>2. work'.filters \in FiltersTyped /\ UNCHANGED <<topic, pipeVars>>
    BY <1>11, <2>1, ToolsStayTyped
  <2> QED
    BY <2>1, <2>2, PipesStay DEF WorkInv, WorkTyped
<1>12. CASE NextDay
  <2>1. topic = "days" /\ work \in DaysWalked
    BY <1>12 DEF NextDay, WorkInv, WorkTyped
  <2>2. work' \in DaysWalked /\ UNCHANGED <<topic, pipeVars>>
    BY <1>12, <2>1, DaysStayTyped
  <2> QED
    BY <2>1, <2>2, PipesStay DEF WorkInv, WorkTyped
<1>13. CASE ChangeCell
  <2>1. topic = "row" /\ work \in SessionRows
    BY <1>13 DEF ChangeCell, WorkInv, WorkTyped
  <2>2. work' \in SessionRows /\ UNCHANGED <<topic, pipeVars>>
    BY <1>13, <2>1, RowsStayTyped
  <2> QED
    BY <2>1, <2>2, PipesStay DEF WorkInv, WorkTyped
<1>14. CASE AddFinding
  <2>1. topic = "report" /\ work \in FoundReports
    BY <1>14 DEF AddFinding, WorkInv, WorkTyped
  <2>2. work' \in FoundReports /\ UNCHANGED <<topic, pipeVars>>
    BY <1>14, <2>1, ReportsStayTyped
  <2> QED
    BY <2>1, <2>2, PipesStay DEF WorkInv, WorkTyped
<1>15. CASE AddToMessage
  <2>1. topic = "message" /\ work \in Outcomes
    BY <1>15 DEF AddToMessage, WorkInv, WorkTyped
  <2>2. work' \in Outcomes /\ UNCHANGED <<topic, pipeVars>>
    BY <1>15, <2>1, MessagesStayTyped
  <2> QED
    BY <2>1, <2>2, PipesStay DEF WorkInv, WorkTyped
<1> QED
    BY <1>1, <1>2, <1>3, <1>4, <1>5, <1>6, <1>7, <1>8, <1>9, <1>10, <1>11, <1>12, <1>13, <1>14, <1>15,
       OthersGrow DEF Next

THEOREM WorkStaysTyped == Spec => []WorkInv
BY WorkInit, WorkStep, PTL DEF Spec

\* run_redact and run_side_effect, as OutputAlwaysReadWhole: the output of a child
\* that succeeded is taken as a whole.
THEOREM OutputOfHooksReadWhole == Spec => []OutputReadWhole
<1>1. PipeInv => OutputReadWhole
    BY DEF PipeInv, Amounts, Conserved, AnsweredWhole, ReadToTheEnd, OutputReadWhole
<1> QED
    BY <1>1, WorkStaysTyped, PTL DEF WorkInv

\* crs pre, crs pre on the chain, crs hook and the OpenCode adapter
\* (EntriesAgree), the post-hooks (EndsReadAlike), and the paths of ConfigBuilder
\* and state_path (MemoryIsShared, ProfilesAreApart): they agree on documents with
\* any number of odd fields, not only as many as MaxOdd.
THEOREM EntryPointsAlwaysAgree == Spec => []EntryPointsAgree
<1>1. WorkTyped => EntryPointsAgree
  <2> SUFFICES ASSUME WorkTyped PROVE EntryPointsAgree
    OBVIOUS
  <2>1. topic = "document" => \A w \in Worlds : EntriesAgree(work, w) /\ EndsReadAlike(work, w)
    BY EntriesAlwaysAgree, EndsAlwaysReadAlike DEF WorkTyped
  <2>2. ASSUME topic = "profile"
        PROVE  MemoryIsShared(work.flags, work.env) /\ ProfilesAreApart(work.flags, work.env)
    <3>1. work.flags \in Flags /\ work.env \in Environments
      BY <2>2 DEF WorkTyped
    <3> QED
      BY <3>1, MemoryIsAlwaysShared, ProfilesAreAlwaysApart
  <2> QED
    BY <2>1, <2>2 DEF EntryPointsAgree
<1> QED
    BY <1>1, WorkStaysTyped, PTL DEF WorkInv

\* codex_expected_hooks, parse_hook_event and codex_backend_filename
\* (CodexHooksLeadSomewhere), coursers.ts and run_hook (PluginIsUnderstood,
\* PluginCallsAreRequests): an installation that passes leads to the handlers,
\* whatever else its hooks file holds.
THEOREM InstalledHooksAlwaysArrive == Spec => []InstalledHooksArrive
<1>1. WorkTyped => InstalledHooksArrive
  <2> SUFFICES ASSUME WorkTyped, topic = "installed" PROVE
        /\ \A binaries \in Programs, crux \in Backends :
              CodexHooksLeadSomewhere(work, binaries, crux)
        /\ \A files \in InstalledFiles, binaries \in Programs, answer \in Answers :
              PluginIsUnderstood(files, binaries, answer)
        /\ \A call \in PluginToolCalls : PluginCallsAreRequests(call)
    BY DEF InstalledHooksArrive
  <2>1. work \in SUBSET Entries
    BY DEF WorkTyped
  <2> QED
    BY <2>1, CodexAlwaysLeads, PluginIsAlwaysUnderstood, PluginCallsAreAlwaysRequests
<1> QED
    BY <1>1, WorkStaysTyped, PTL DEF WorkInv

\* tool_swap, parse_n_file, read_for, clamp_to_budget and find_to_glob
\* (SwapShowsWhatIsAsked): a Read shows what the command would have printed,
\* whatever its arguments are and however many there are.
THEOREM SwapsAlwaysShowOnlyWhatIsAsked == Spec => []SwapsShowOnlyWhatIsAsked
<1>1. WorkTyped => SwapsShowOnlyWhatIsAsked
  <2> SUFFICES ASSUME WorkTyped, topic = "arguments",
                      NEW name \in {"cat", "head", "tail", "find"}, NEW file \in Files,
                      NEW config \in SwapConfigs
               PROVE  SwapShowsWhatIsAsked(name, work, file, config)
    BY DEF SwapsShowOnlyWhatIsAsked
  <2>1. work \in Seq(ArgumentsOf) /\ file \in FilesToRead /\ config \in SwapLimits
    BY InputsOfSwaps DEF WorkTyped
  <2> QED
    BY <2>1, SwapsAlwaysShowWhatIsAsked
<1> QED
    BY <1>1, WorkStaysTyped, PTL DEF WorkInv

\* run_filter, shape_command_output and the filter of the chain
\* (ShapingKeepsFailures), cmd_filter (RedactionHolds), offset_to_line_col and
\* cmd_nu_check (PlacesAreRight, ScriptsAreChecked): errors stay in what is shown
\* of a failure, secrets stay hidden unless cmd_filter tells of a prefix instead,
\* and an error is where it is said to be, for outputs and scripts of any length.
THEOREM FailuresStayAlwaysVisible == Spec => []FailuresStayVisible
<1>1. WorkTyped => FailuresStayVisible
  <2> SUFFICES ASSUME WorkTyped PROVE FailuresStayVisible
    OBVIOUS
  <2>1. ASSUME topic = "script"
        PROVE  PlacesAreRight(work) /\ \A scripts \in Scripts : ScriptsAreChecked(scripts)
    <3>1. work \in Seq(Sources)
      BY <2>1 DEF WorkTyped
    <3>2. PlacesAreRight(work)
      BY <3>1, PlacesAreAlwaysRight
    <3>3. \A scripts \in Scripts : ScriptsAreChecked(scripts)
      BY InputsOfScripts, ScriptsAreAlwaysChecked
    <3> QED
      BY <3>2, <3>3
  <2>2. ASSUME topic = "output", NEW rule \in FilterRules, NEW exit \in {0, 1, UnknownExit},
               NEW ended \in BOOLEAN
        PROVE  /\ ShapingKeepsFailures(Text(work, ended /\ work # <<>>), exit, <<rule>>)
               /\ \A filters \in Filters, learns \in BOOLEAN :
                     RedactionHolds(Text(work, ended /\ work # <<>>), exit, <<rule>>, filters, learns)
    <3>1. work \in Seq(Lines)
      BY <2>2 DEF WorkTyped
    <3>2. PICK output : output = Text(work, ended /\ work # <<>>)
      OBVIOUS
    <3>3. output \in Texts /\ output.omitted = 0
      BY <3>1, <3>2 DEF Text, Texts
    <3>4. <<rule>> \in Seq(RulesOfFilters) /\ exit \in Nat
      BY InputsOfOutputs
    <3>5. PICK rules \in Seq(RulesOfFilters) : rules = <<rule>>
      BY <3>4
    <3>6. ShapingKeepsFailures(output, exit, rules)
      BY <3>3, <3>4, ShapingAlwaysKeepsFailures
    <3>7. ASSUME NEW filters \in Filters, NEW learns \in BOOLEAN
          PROVE  RedactionHolds(output, exit, rules, filters, learns)
      BY <3>3, <3>4, InputsOfOutputs, RedactionAlwaysHolds
    <3> QED
      BY <3>2, <3>5, <3>6, <3>7
  <2> QED
    BY <2>1, <2>2 DEF FailuresStayVisible
<1> QED
    BY <1>1, WorkStaysTyped, PTL DEF WorkInv

\* load_config, find_hooks_toml_from and is_allowlisted_project_run
\* (ProjectFileOnlyAdds), validate_config (ReportsWhatCannotWork), filters::load
\* (ProjectFiltersSupplement) and the loaders of the chain
\* (ChainReadsTheSameFiles): a repository's file adds to the user's rules, in any
\* state and with any number of rules, not only as many as MaxRules.
THEOREM LayersAlwaysHold == Spec => []LayersHold
<1>1. WorkTyped => LayersHold
  <2> SUFFICES ASSUME WorkTyped, topic = "layers" PROVE LayersHold
    BY DEF LayersHold
  <2> DEFINE C == ConfigFiles(HookRules)
  <2>1. work["project"] \in C /\ work["global"] \in C /\ work["plugin"] \in C /\ NoFileThere \in C
    BY NothingInLayers DEF WorkTyped, LayersTyped, Layers
  <2>2. PICK project \in C : project = work["project"]
    BY <2>1
  <2>3. PICK global \in C : global = work["global"]
    BY <2>1
  <2>4. PICK plugin \in C : plugin = work["plugin"]
    BY <2>1
  <2> HIDE DEF C
  <2>5. <<project>> \in Seq(C) /\ <<NoFileThere, project, global>> \in Seq(C)
    BY <2>1, OneIsASequence
  <2>6. PICK plugins \in PluginsOf(HookRules) :
            plugins = <<[toml |-> FALSE, file |-> project], [toml |-> TRUE, file |-> plugin]>>
    <3> DEFINE P == [toml : BOOLEAN, file : C]
    <3>1. [toml |-> FALSE, file |-> project] \in P /\ [toml |-> TRUE, file |-> plugin] \in P
      OBVIOUS
    <3> HIDE DEF P
    <3>2. <<[toml |-> FALSE, file |-> project], [toml |-> TRUE, file |-> plugin]>> \in Seq(P)
      BY <3>1
    <3> QED
      BY <3>2 DEF P, PluginsOf, C
  <2>7. ProjectFiltersSupplement(<<project>>, global)
    BY <2>5, ProjectFiltersAlwaysSupplement DEF C
  <2>8. ASSUME NEW override \in {<<>>, <<plugin>>}
        PROVE  ChainReadsTheSameFiles(override, <<project>>, global)
    <3>1. override = <<>> \/ \E file \in C : override = <<file>>
      OBVIOUS
    <3> QED
      BY <2>5, <3>1, ChainAlwaysReadsTheSameFiles DEF C
  <2>9. ASSUME NEW dirs \in {<<project>>, <<NoFileThere, project, global>>}
        PROVE  ProjectFileOnlyAdds(global, plugins, dirs) /\ ReportsWhatCannotWork(global, plugins, dirs)
    <3>1. dirs \in Seq(C)
      BY <2>5
    <3> QED
      BY <3>1, CommandsOfRules, ProjectAlwaysAddsOnly, ReportsAlwaysWhatCannotWork DEF C
  <2> QED
    BY <2>2, <2>3, <2>4, <2>6, <2>7, <2>8, <2>9 DEF LayersHold
<1> QED
    BY <1>1, WorkStaysTyped, PTL DEF WorkInv

\* cmd_discover, append_filters and suggest_filters (DiscoverKeeps), rtk_savings
\* and detect_rtk (ToolsFailOpen): no run takes away what the project has, in a
\* project with any number of filters, not only as many as MaxFilters.
THEOREM ToolsAlwaysAddOnly == Spec => []ToolsAddOnly
<1>1. WorkTyped => ToolsAddOnly
  <2> SUFFICES ASSUME WorkTyped, topic = "tools", NEW scan \in Scans
               PROVE  /\ \A generate \in BOOLEAN, mcp \in Mcps :
                            DiscoverKeeps(work, scan, generate, GoodRtk, mcp)
                      /\ \A rtk \in Rtks : ToolsFailOpen(scan, rtk)
    BY DEF ToolsAddOnly
  <2>1. work.filters \in FiltersFiles(Labels, Patterns)
    BY DEF WorkTyped, FiltersTyped
  <2>2. ASSUME NEW generate \in BOOLEAN, NEW mcp \in Mcps
        PROVE  DiscoverKeeps(work, scan, generate, GoodRtk, mcp)
    BY <2>1, InputsOfTools, DiscoverAlwaysKeeps
  <2>3. \A rtk \in Rtks : ToolsFailOpen(scan, rtk)
    BY ToolsAlwaysFailOpen
  <2> QED
    BY <2>2, <2>3
<1> QED
    BY <1>1, WorkStaysTyped, PTL DEF WorkInv

\* unix_secs_to_ymd (DatesFollowTheCalendar), HeatMap (HeatAddsUp),
\* format_insight_row (RowLinesUp), print_discover_text (TextTellsWhatJsonTells)
\* and format_log_outcome (MessageIsCutLate): what is printed is what there is,
\* for any number of days, fields and messages of any length, and any findings.
THEOREM PrintedReportsAlwaysHold == Spec => []PrintedReportsHold
<1>1. WorkTyped => PrintedReportsHold
  <2> SUFFICES ASSUME WorkTyped PROVE PrintedReportsHold
    OBVIOUS
  <2>1. ASSUME topic = "days"
        PROVE  DatesFollowTheCalendar(work.first + work.walked) /\ HeatAddsUp(work.heat, work.walked)
    <3>1. work.first \in Nat /\ work.walked \in Nat /\ work.heat \in HeatMaps
          /\ Summed(Grid(work.heat)) = work.walked
      BY <2>1 DEF WorkTyped, DaysWalked
    <3>2. PICK days \in Nat : days = work.first + work.walked
      BY <3>1
    <3>3. DatesFollowTheCalendar(days)
      BY DatesAlwaysFollow
    <3>4. HeatAddsUp(work.heat, work.walked)
      BY <3>1, HeatAlwaysAddsUp
    <3> QED
      BY <3>2, <3>3, <3>4
  <2>2. topic = "row" => RowLinesUp(work)
    BY RowsAlwaysLineUp DEF WorkTyped
  <2>3. topic = "report" => TextTellsWhatJsonTells(work)
    BY TextAlwaysTells DEF WorkTyped
  <2>4. topic = "message" => MessageIsCutLate(work)
    BY MessagesAlwaysCutLate DEF WorkTyped
  <2> QED
    BY <2>1, <2>2, <2>3, <2>4 DEF PrintedReportsHold
<1> QED
    BY <1>1, WorkStaysTyped, PTL DEF WorkInv

=============================================================================
