-------------------------- MODULE HookDispatchProofs --------------------------
(***************************************************************************)
(* Theorems of HookDispatch: they hold for every set of commands and       *)
(* rules, every list of rules however long, and whatever the programs      *)
(* that a hook starts come to.                                             *)
(***************************************************************************)
EXTENDS HookDispatch, RecursionTheorems, TLAPS

-----------------------------------------------------------------------------
(* Shaping *)

Outcomes == {"passthrough", "replace", "suppress"}

\* Whatever the exit, shaping has one of three outcomes, and suppression is none
\* of them for an unknown exit.
LEMMA ShapeOutcomesFacts ==
    ASSUME NEW e \in Exits
    PROVE  /\ ShapeOutcomes(e) \subseteq Outcomes
           /\ e = "none" => "suppress" \notin ShapeOutcomes(e)
<1>1. ASSUME NEW mode \in Modes PROVE FilterOutcomes(mode, e) \subseteq Outcomes
  <2>1. CASE mode = "passthrough"
    BY <2>1 DEF FilterOutcomes, Outcomes
  <2>2. CASE mode = "failures-only"
    BY <2>2 DEF FilterOutcomes, Outcomes
  <2>3. CASE mode = "errors-only"
    BY <2>3 DEF FilterOutcomes, Outcomes
  <2>4. CASE mode = "truncate"
    BY <2>4 DEF FilterOutcomes, Outcomes
  <2>5. CASE mode = "match-lines"
    BY <2>5 DEF FilterOutcomes, Outcomes
  <2> QED
    BY <2>1, <2>2, <2>3, <2>4, <2>5 DEF Modes
<1> QED
  BY <1>1 DEF ShapeOutcomes

\* What shaping makes of an output that may be there: a text or nothing, never
\* less redacted, and blank only by suppression.
LEMMA ReshapedFacts ==
    ASSUME NEW outcome \in Outcomes, NEW kept \in Text \cup {None}
    PROVE  /\ Reshaped(outcome, kept) \in Text \cup {None}
           /\ kept # None /\ kept.redacted =>
                 Reshaped(outcome, kept) \in Text /\ Reshaped(outcome, kept).redacted
           /\ outcome # "suppress" => Reshaped(outcome, kept) \in {kept, Raw}
<1> DEFINE base == IF kept = None THEN Raw ELSE kept
<1>1. base \in Text
  BY DEF Text, Raw
<1>2. CASE outcome = "passthrough"
  BY <1>2 DEF Reshaped
<1>3. CASE outcome = "replace"
  <2>1. Reshaped(outcome, kept) = base
    BY <1>3 DEF Reshaped
  <2> QED
    BY <1>1, <1>3, <2>1
<1>4. CASE outcome = "suppress"
  <2>1. Reshaped(outcome, kept) = [base EXCEPT !.blank = TRUE]
    BY <1>4 DEF Reshaped
  <2> QED
    BY <1>1, <1>4, <2>1 DEF Text
<1> QED
  BY <1>2, <1>3, <1>4 DEF Outcomes

-----------------------------------------------------------------------------
(* Type correctness *)

Outcome == [deny : BOOLEAN, command : Commands \cup {None}, output : Text \cup {None}]

Result(rules) ==
    [deny     : BOOLEAN,
     rewrite  : Commands \cup {None},
     output   : Text \cup {None},
     messages : SUBSET DOMAIN rules,
     matched  : SUBSET DOMAIN rules]

\* Both targets answer with a response whose messages are of configured rules.
LEMMA AnswerTypes ==
    ASSUME NEW rules \in Seq(Rules), NEW res \in Result(rules), NEW ch \in Outcome
    PROVE  /\ CmdHook(res) \in Response
           /\ RunHook(ch, res) \in Response
           /\ CmdHook(res).messages \subseteq DOMAIN rules
           /\ RunHook(ch, res).messages \subseteq DOMAIN rules
<1>1. DOMAIN rules \subseteq Nat
  OBVIOUS
<1>2. /\ CmdHook(res).deny \in BOOLEAN
      /\ CmdHook(res).command \in Commands \cup {None}
      /\ CmdHook(res).output \in Text \cup {None}
      /\ CmdHook(res).messages \subseteq DOMAIN rules
  BY DEF CmdHook, Result
<1>3. /\ RunHook(ch, res).deny \in BOOLEAN
      /\ RunHook(ch, res).command \in Commands \cup {None}
      /\ RunHook(ch, res).output \in Text \cup {None}
      /\ RunHook(ch, res).messages \subseteq DOMAIN rules
  BY DEF RunHook, Result, Outcome
<1>4. CmdHook(res) \in Response
  BY <1>1, <1>2 DEF CmdHook, Response
<1>5. RunHook(ch, res) \in Response
  BY <1>1, <1>3 DEF RunHook, Response
<1> QED
  BY <1>2, <1>3, <1>4, <1>5

\* What TypeOK says of the variables one by one, but for result, of which it
\* has only what an answer carries.
Typed ==
    /\ harness \in {"claude", "opencode"}
    /\ hooks \in Seq(Rules)
    /\ Len(hooks) <= MaxHooks
    /\ blocked \subseteq Blockable
    /\ asked \in Commands
    /\ command \in Commands
    /\ phase \in Events \cup {"tool", "over"}
    /\ step \in {"judge", "rules", "shape", "respond", "none"}
    /\ next \in 1..(MaxHooks + 1)
    /\ exit \in Exits
    /\ chain \in Outcome
    /\ result \in Result(hooks)
    /\ denied \in BOOLEAN
    /\ redacted \in {"not", "worked", "failed"}
    /\ degraded \subseteq Events
    /\ told \subseteq DOMAIN hooks
    /\ shown \in Text \cup {None}

Ordered ==
    /\ phase \in Events <=> step # "none"
    /\ step = "shape" => phase = "post"
    /\ harness = "claude" => chain = NoOutcome

\* Together they are at least TypeOK.
LEMMA TypedIsEnough == Typed /\ Ordered => TypeOK
<1> SUFFICES ASSUME Typed, Ordered PROVE TypeOK
  OBVIOUS
<1>1. Answer \in Response
  <2>1. result \in Result(hooks) /\ hooks \in Seq(Rules) /\ chain \in Outcome
    BY DEF Typed
  <2>2. CmdHook(result) \in Response /\ RunHook(chain, result) \in Response
    BY <2>1, AnswerTypes
  <2> QED
    BY <2>2 DEF Answer
<1>2. result.matched \cup result.messages \subseteq DOMAIN hooks
  BY DEF Typed, Result
<1> QED
  BY <1>1, <1>2 DEF Typed, Ordered, TypeOK, Outcome

\* The initial states are well typed.
LEMMA TypeInit == Init => Typed /\ Ordered
<1> SUFFICES ASSUME Init PROVE Typed /\ Ordered
  OBVIOUS
<1>1. hooks \in Seq(Rules) /\ Len(hooks) <= MaxHooks
  BY DispatchAssumption DEF Init, BoundedSeq, SeqOf
<1>2. result \in Result(hooks) /\ chain \in Outcome
  BY DEF Init, Result, NoResult, Outcome, NoOutcome
<1>3. 1 \in 1..(MaxHooks + 1)
  BY DispatchAssumption
<1> QED
  BY <1>1, <1>2, <1>3 DEF Init, Typed, Ordered, Events, Exits

\* Taking an answer that is a response keeps the types, and ends the process.
LEMMA TakeTypes ==
    ASSUME Typed, Ordered, phase \in Events, NEW answer \in Response,
           answer.messages \subseteq DOMAIN hooks, Take(answer)
    PROVE  /\ command' \in Commands
           /\ phase' \in {"tool", "over"}
           /\ step' = "none"
           /\ exit' = exit
           /\ told' \subseteq DOMAIN hooks
           /\ shown' \in Text \cup {None}
<1>1. /\ answer.command \in Commands \cup {None}
      /\ answer.output \in Text \cup {None}
  BY DEF Response
<1>2. CASE phase = "pre"
  BY <1>1, <1>2 DEF Take, Typed
<1>3. CASE phase # "pre"
  <2>1. Raw \in Text
    BY DEF Text, Raw
  <2> QED
    BY <1>1, <1>3, <2>1 DEF Take, Typed
<1> QED
  BY <1>2, <1>3

\* An allowing answer is a response as well.
LEMMA NothingType ==
    ASSUME NEW d \in BOOLEAN
    PROVE  /\ [Nothing EXCEPT !.deny = d] \in Response
           /\ [Nothing EXCEPT !.deny = d].messages = {}
           /\ Nothing \in Response
           /\ Nothing.messages = {}
BY DEF Nothing, Response


\* Every step keeps the types.
LEMMA TypeNext == Typed /\ Ordered /\ [Next]_vars => Typed' /\ Ordered'
<1> SUFFICES ASSUME Typed, Ordered, [Next]_vars PROVE Typed' /\ Ordered'
  OBVIOUS
<1>a. /\ next' = next \/ (next <= Len(hooks) /\ next' = next + 1) \/ next' = 1
      => next' \in 1..(MaxHooks + 1)
  BY DispatchAssumption DEF Typed
<1>1. ASSUME LegacyPre PROVE Typed' /\ Ordered'
  <2>1. CASE denied' = TRUE /\ Take([Nothing EXCEPT !.deny = TRUE])
    BY <1>1, <2>1, NothingType, TakeTypes
    DEF LegacyPre, config, Typed, Ordered, Events
  <2>2. CASE step' = "rules" /\ UNCHANGED <<call, denied, answers>>
    BY <1>1, <2>2 DEF LegacyPre, config, call, answers, Typed, Ordered, Events
  <2> QED
    BY <1>1, <2>1, <2>2 DEF LegacyPre
<1>2. ASSUME ChainPre PROVE Typed' /\ Ordered'
  <2>1. chain' \in Outcome
    BY <1>2, DispatchAssumption DEF ChainPre, Outcome, Typed
  <2> QED
    BY <1>2, <2>1 DEF ChainPre, config, call, answers, Typed, Ordered, Events
<1>3. ASSUME ChainPost PROVE Typed' /\ Ordered'
  <2>1. chain' \in Outcome
    <3>1. PICK outcome \in ShapeOutcomes(exit) :
             chain' = [chain EXCEPT !.output = Reshaped(outcome, None)]
      BY <1>3 DEF ChainPost
    <3>2. outcome \in Outcomes
      BY ShapeOutcomesFacts DEF Typed
    <3>3. Reshaped(outcome, None) \in Text \cup {None}
      BY <3>2, ReshapedFacts
    <3> QED
      BY <3>1, <3>3 DEF Outcome, Typed
  <2> QED
    BY <1>3, <2>1 DEF ChainPost, config, call, answers, Typed, Ordered, Events
<1>4. ASSUME FailOpen, phase \in Events PROVE Typed' /\ Ordered'
  BY <1>4, NothingType, TakeTypes DEF FailOpen, config, Typed, Ordered, Events
<1>5. ASSUME ClaudePost PROVE Typed' /\ Ordered'
  BY <1>5 DEF ClaudePost, config, call, history, answers, Typed, Ordered, Events
<1>6. ASSUME step = "rules", NextRule, next <= Len(hooks),
             result' \in Result(hooks), denied' \in BOOLEAN,
             redacted' \in {"not", "worked", "failed"}
      PROVE  Typed' /\ Ordered'
  <2>1. next' \in 1..(MaxHooks + 1)
    BY <1>6, <1>a DEF NextRule
  <2> QED
    BY <1>6, <2>1 DEF NextRule, config, call, answers, Typed, Ordered
<1>7. ASSUME SkipRule PROVE Typed' /\ Ordered'
  BY <1>6, <1>7 DEF SkipRule, Typed
<1>m. ASSUME NEW action, AtRule(action)
      PROVE  /\ step = "rules" /\ next <= Len(hooks) /\ next \in DOMAIN hooks
             /\ Matched \in Result(hooks)
             /\ hooks[next] \in Rule
             /\ Target \in Commands
  <2>1. next \in DOMAIN hooks
    BY <1>m, DispatchAssumption DEF AtRule, Typed
  <2>2. Matched \in Result(hooks)
    BY <2>1 DEF Matched, Result, Typed
  <2>3. hooks[next] \in Rule
    BY <2>1, DispatchAssumption DEF Typed
  <2>4. Target \in Commands
    BY DEF Target, Typed, Outcome
  <2> QED
    BY <1>m, <2>1, <2>2, <2>3, <2>4 DEF AtRule
<1>8. ASSUME DenyRule PROVE Typed' /\ Ordered'
  <2>1. result' \in Result(hooks)
    BY <1>8, <1>m DEF DenyRule, Result
  <2> QED
    BY <1>8, <1>m, <2>1
    DEF DenyRule, AfterRules, config, call, answers, Typed, Ordered, Events
<1>9. ASSUME RewriteRule PROVE Typed' /\ Ordered'
  <2> DEFINE current == IF result.rewrite # None THEN result.rewrite ELSE Target
             to == hooks[next].to[current]
  <2>1. AtRule("rewrite") /\ result' = [Matched EXCEPT !.rewrite = IF to # current THEN to ELSE @]
    BY <1>9 DEF RewriteRule
  <2>2. hooks[next].to \in [Commands -> Commands] /\ Matched \in Result(hooks)
    BY <1>m, <2>1 DEF Rule
  <2>3. current \in Commands
    BY <1>m, <2>1 DEF Typed, Result
  <2>4. to \in Commands
    BY <2>2, <2>3
  <2> HIDE DEF to, current
  <2>5. result' \in Result(hooks)
    BY <2>1, <2>2, <2>4 DEF Result
  <2> QED
    BY <1>6, <1>9, <1>m, <2>1, <2>5 DEF RewriteRule, Typed
<1>10. ASSUME RunSideEffect PROVE Typed' /\ Ordered'
  <2>1. PICK says \in SUBSET {next} : result' = [Matched EXCEPT !.messages = @ \cup says]
    BY <1>10 DEF RunSideEffect
  <2>2. result' \in Result(hooks)
    BY <1>10, <1>m, <2>1 DEF RunSideEffect, Result
  <2> QED
    BY <1>6, <1>10, <1>m, <2>2 DEF RunSideEffect, Typed
<1>11. ASSUME Notify PROVE Typed' /\ Ordered'
  <2>1. result' \in Result(hooks)
    BY <1>11, <1>m DEF Notify, Result
  <2> QED
    BY <1>6, <1>11, <1>m, <2>1 DEF Notify, Typed
<1>12. ASSUME Redact PROVE Typed' /\ Ordered'
  <2>1. result' \in Result(hooks)
    <3>1. ASSUME NEW works \in BOOLEAN PROVE [Raw EXCEPT !.redacted = works] \in Text
      BY DEF Raw, Text
    <3>2. CASE phase = "post"
      <4>1. PICK works \in BOOLEAN :
               result' = [Matched EXCEPT !.output = [Raw EXCEPT !.redacted = works]]
        BY <1>12, <3>2 DEF Redact
      <4> QED
        BY <1>12, <1>m, <3>1, <4>1 DEF Redact, Result
    <3>3. CASE phase # "post"
      BY <1>12, <1>m, <3>3 DEF Redact
    <3> QED
      BY <3>2, <3>3
  <2>2. redacted' \in {"not", "worked", "failed"}
    BY <1>12 DEF Redact, Typed
  <2> QED
    BY <1>6, <1>12, <1>m, <2>1, <2>2 DEF Redact, Typed
<1>13. ASSUME EndRules PROVE Typed' /\ Ordered'
  BY <1>13 DEF EndRules, AfterRules, config, call, history, answers, Typed, Ordered, Events
<1>14. ASSUME Shape PROVE Typed' /\ Ordered'
  <2> DEFINE kept == IF result.output # None THEN result.output ELSE chain.output
  <2>1. PICK outcome \in ShapeOutcomes(exit) :
           result' = [result EXCEPT !.output = Reshaped(outcome, kept)]
    BY <1>14 DEF Shape
  <2>2. outcome \in Outcomes
    BY ShapeOutcomesFacts DEF Typed
  <2>3. kept \in Text \cup {None}
    BY DEF Typed, Result, Outcome
  <2> HIDE DEF kept
  <2>4. Reshaped(outcome, kept) \in Text \cup {None}
    BY <2>2, <2>3, ReshapedFacts
  <2>5. result' \in Result(hooks)
    BY <2>1, <2>4 DEF Typed, Result
  <2> QED
    BY <1>14, <2>5 DEF Shape, config, call, history, answers, Typed, Ordered, Events
<1>15. ASSUME Respond PROVE Typed' /\ Ordered'
  <2>1. Answer \in Response /\ Answer.messages \subseteq DOMAIN hooks
    <3>1. result \in Result(hooks) /\ hooks \in Seq(Rules) /\ chain \in Outcome
      BY DEF Typed
    <3> QED
      BY <3>1, AnswerTypes DEF Answer
  <2>2. phase \in Events
    BY <1>15 DEF Respond, Ordered
  <2>3. /\ command' \in Commands
        /\ phase' \in {"tool", "over"}
        /\ step' = "none"
        /\ exit' = exit
        /\ told' \subseteq DOMAIN hooks
        /\ shown' \in Text \cup {None}
    BY <1>15, <2>1, <2>2, TakeTypes DEF Respond
  <2> QED
    BY <1>15, <2>3 DEF Respond, config, history, Typed, Ordered, Events
<1>16. ASSUME ToolEnds PROVE Typed' /\ Ordered'
  <2>1. NoResult \in Result(hooks) /\ NoOutcome \in Outcome
    BY DEF NoResult, Result, NoOutcome, Outcome
  <2>2. 1 \in 1..(MaxHooks + 1)
    BY DispatchAssumption
  <2> QED
    BY <1>16, <2>1, <2>2 DEF ToolEnds, config, history, answers, Typed, Ordered, Events
<1>17. CASE UNCHANGED vars
  BY <1>17 DEF vars, config, call, history, answers, Typed, Ordered, Events
<1>18. ChainError \/ HookDies => FailOpen /\ phase \in Events
  BY DEF ChainError, HookDies
<1> QED
  BY <1>1, <1>2, <1>3, <1>4, <1>5, <1>7, <1>8, <1>9, <1>10, <1>11, <1>12, <1>13, <1>14,
     <1>15, <1>16, <1>17, <1>18
  DEF Next, Over

\* Every variable keeps its type, for every configuration and every list of rules.
THEOREM TypeCorrect == Spec => []TypeOK
<1>1. Init => Typed /\ Ordered
  BY TypeInit
<1>2. Typed /\ Ordered /\ [Next]_vars => Typed' /\ Ordered'
  BY TypeNext
<1>3. Typed /\ Ordered => TypeOK
  BY TypedIsEnough
<1> QED
  BY <1>1, <1>2, <1>3, PTL DEF Spec

-----------------------------------------------------------------------------
(* Safety *)

RuleStep == SkipRule \/ RewriteRule \/ RunSideEffect \/ Notify \/ Redact

\* A rule that is not a denial keeps the process where it is, and denies nothing;
\* the output changes by a redaction only, which starts from the raw output.
LEMMA RuleStepFacts ==
    ASSUME Typed, RuleStep
    PROVE  /\ step = "rules"
           /\ UNCHANGED <<config, call, step, chain, degraded, answers, denied>>
           /\ result'.deny = result.deny
           /\ \/ result'.output = result.output /\ redacted' = redacted
              \/ /\ phase = "post"
                 /\ \E works \in BOOLEAN :
                       /\ result'.output = [Raw EXCEPT !.redacted = works]
                       /\ redacted' = IF works THEN "worked" ELSE "failed"
<1>0. /\ Matched.deny = result.deny
      /\ Matched.output = result.output
      /\ DOMAIN Matched = {"deny", "rewrite", "output", "messages", "matched"}
  BY DEF Matched, Typed, Result
<1> USE <1>0 DEF AtRule, NextRule
<1>1. CASE SkipRule
  BY <1>1 DEF SkipRule
<1>2. CASE RewriteRule
  BY <1>2 DEF RewriteRule
<1>3. CASE RunSideEffect
  BY <1>3 DEF RunSideEffect
<1>4. CASE Notify
  BY <1>4 DEF Notify
<1>5. CASE Redact
  <2>1. CASE phase = "post"
    <3>1. PICK works \in BOOLEAN :
             /\ result' = [Matched EXCEPT !.output = [Raw EXCEPT !.redacted = works]]
             /\ redacted' = IF works THEN "worked" ELSE "failed"
      BY <1>5, <2>1 DEF Redact
    <3>2. /\ result'.output = [Raw EXCEPT !.redacted = works]
          /\ result'.deny = result.deny
      BY <3>1
    <3>3. /\ step = "rules"
          /\ UNCHANGED <<config, call, step, chain, degraded, answers, denied>>
      BY <1>5 DEF Redact
    <3> QED
      BY <2>1, <3>1, <3>2, <3>3
  <2>2. CASE phase # "post"
    BY <1>5, <2>2 DEF Redact
  <2> QED
    BY <2>1, <2>2
<1> QED
  BY <1>1, <1>2, <1>3, <1>4, <1>5 DEF RuleStep

\* The steps of Next, with those that rules take and those that fail open taken
\* together.
LEMMA NextCases ==
    ASSUME [Next]_vars
    PROVE  \/ LegacyPre \/ ChainPre \/ ChainPost \/ ClaudePost
           \/ RuleStep \/ DenyRule \/ EndRules \/ Shape \/ Respond \/ ToolEnds
           \/ phase \in Events /\ FailOpen
           \/ UNCHANGED vars
BY DEF Next, RuleStep, ChainError, HookDies, Over

\* Until the tool is over the model is shown nothing.
NothingShown == phase \in {"pre", "tool"} => shown = None

\* A denial that was spoken is still there to be answered with, or was.
DenialInv ==
    /\ NothingShown
    /\ denied /\ "pre" \notin degraded =>
          \/ /\ phase = "pre" /\ step \in {"rules", "respond"}
             /\ chain.deny \/ result.deny
          \/ phase = "over" /\ shown = None

LEMMA DenialInductive ==
    Typed /\ Ordered /\ DenialInv /\ [Next]_vars => DenialInv'
<1> SUFFICES ASSUME Typed, Ordered, DenialInv, [Next]_vars PROVE DenialInv'
  OBVIOUS
<1> USE DEF DenialInv, NothingShown, config, call, history, answers, Events
<1>1. CASE LegacyPre
  BY <1>1 DEF LegacyPre, Take
<1>2. CASE ChainPre
  BY <1>2 DEF ChainPre, Typed, Outcome
<1>3. CASE ChainPost
  BY <1>3 DEF ChainPost
<1>4. CASE ClaudePost
  BY <1>4 DEF ClaudePost
<1>5. CASE RuleStep
  BY <1>5, RuleStepFacts
<1>6. CASE DenyRule
  <2>1. result'.deny
    BY <1>6 DEF DenyRule, Matched, Typed, Result
  <2> QED
    BY <1>6, <2>1 DEF DenyRule, AtRule, AfterRules, Ordered
<1>7. CASE EndRules
  BY <1>7 DEF EndRules, AfterRules, Ordered
<1>8. CASE Shape
  BY <1>8 DEF Shape, Ordered
<1>9. CASE Respond
  <2>1. chain.deny \/ result.deny => Answer.deny
    <3>1. CASE harness = "claude"
      BY <3>1 DEF Answer, CmdHook, Ordered, NoOutcome
    <3>2. CASE harness # "claude"
      BY <3>2 DEF Answer, RunHook
    <3> QED
      BY <3>1, <3>2
  <2>2. CASE phase = "pre"
    BY <1>9, <2>1, <2>2 DEF Respond, Take
  <2>3. CASE phase # "pre"
    BY <1>9, <2>3 DEF Respond, Take, Ordered
  <2> QED
    BY <2>2, <2>3
<1>10. CASE ToolEnds
  BY <1>10 DEF ToolEnds
<1>11. CASE phase \in Events /\ FailOpen
  BY <1>11 DEF FailOpen, Take, Nothing
<1>12. CASE UNCHANGED vars
  BY <1>12 DEF vars
<1> QED
  BY <1>1, <1>2, <1>3, <1>4, <1>5, <1>6, <1>7, <1>8, <1>9, <1>10, <1>11, <1>12, NextCases

\* No list of rules, no outcome of a program, no merge and no adapter turns a
\* denial of any stage of the pre-hook into an allow.
THEOREM DenialsStand == Spec => []DenialStands
<1>1. Init => DenialInv
  BY DEF Init, DenialInv, NothingShown
<1>2. DenialInv => DenialStands
  BY DEF DenialInv, NothingShown, DenialStands, Ran
<1> QED
  BY <1>1, <1>2, TypeInit, TypeNext, DenialInductive, PTL DEF Spec

\* From the verdict on, the command that will run is not blocked.
PolicyInv ==
    /\ PolicyJudgesWhatRuns
    /\ phase = "pre" /\ step \in {"rules", "respond"} /\ "pre" \notin degraded =>
          IF harness = "claude" THEN command \notin blocked
          ELSE chain.deny \/ (chain.command # None /\ chain.command \notin blocked)

LEMMA PolicyInductive ==
    Typed /\ Ordered /\ PolicyInv /\ [Next]_vars => PolicyInv'
<1> SUFFICES ASSUME Typed, Ordered, PolicyInv, [Next]_vars PROVE PolicyInv'
  OBVIOUS
<1> USE DEF PolicyInv, PolicyJudgesWhatRuns, config, call, history, answers, Events
<1>1. CASE LegacyPre
  BY <1>1 DEF LegacyPre, Take, Nothing
<1>2. CASE ChainPre
  BY <1>2, DispatchAssumption DEF ChainPre, Judged, Typed, Outcome
<1>3. CASE ChainPost
  BY <1>3 DEF ChainPost
<1>4. CASE ClaudePost
  BY <1>4 DEF ClaudePost
<1>5. CASE RuleStep
  BY <1>5, RuleStepFacts DEF Ordered
<1>6. CASE DenyRule
  BY <1>6 DEF DenyRule, AtRule, AfterRules, Ordered
<1>7. CASE EndRules
  BY <1>7 DEF EndRules, AfterRules, Ordered
<1>8. CASE Shape
  BY <1>8 DEF Shape, Ordered
<1>9. CASE Respond
  <2>1. CASE phase = "pre" /\ harness = "claude"
    BY <1>9, <2>1 DEF Respond, Take, Answer, CmdHook
  <2>2. CASE phase = "pre" /\ harness # "claude"
    BY <1>9, <2>2 DEF Respond, Take, Answer, RunHook
  <2>3. CASE phase # "pre"
    BY <1>9, <2>3 DEF Respond, Take, Ordered
  <2> QED
    BY <2>1, <2>2, <2>3
<1>10. CASE ToolEnds
  BY <1>10 DEF ToolEnds
<1>11. CASE phase \in Events /\ FailOpen
  BY <1>11 DEF FailOpen, Take, Nothing
<1>12. CASE UNCHANGED vars
  BY <1>12 DEF vars
<1> QED
  BY <1>1, <1>2, <1>3, <1>4, <1>5, <1>6, <1>7, <1>8, <1>9, <1>10, <1>11, <1>12, NextCases

\* Whatever the chain rewrites a command to, what the course-correct rules block
\* does not run unless the pipeline rewrote it after them.
THEOREM PolicyJudges == Spec => []PolicyJudgesWhatRuns
<1>1. Init => PolicyInv
  BY DEF Init, PolicyInv, PolicyJudgesWhatRuns
<1>2. PolicyInv => PolicyJudgesWhatRuns
  BY DEF PolicyInv
<1> QED
  BY <1>1, <1>2, TypeInit, TypeNext, PolicyInductive, PTL DEF Spec


\* Only a suppression blanks an output, and an unknown exit has none.
NotBlank(output) == output # None => ~output.blank

UnknownInv ==
    /\ NothingShown
    /\ exit = "none" => NotBlank(result.output) /\ NotBlank(chain.output) /\ NotBlank(shown)

LEMMA UnknownInductive ==
    Typed /\ Ordered /\ UnknownInv /\ [Next]_vars => UnknownInv'
<1> SUFFICES ASSUME Typed, Ordered, UnknownInv, [Next]_vars PROVE UnknownInv'
  OBVIOUS
<1> USE DEF UnknownInv, NothingShown, NotBlank, config, call, history, answers, Events
<1>a. ~Raw.blank /\ \A works \in BOOLEAN : ~[Raw EXCEPT !.redacted = works].blank
  BY DEF Raw
<1>b. ASSUME NEW outcome \in ShapeOutcomes(exit), NEW kept \in Text \cup {None},
             NotBlank(kept), exit = "none"
      PROVE  NotBlank(Reshaped(outcome, kept))
  <2>1. outcome \in Outcomes /\ outcome # "suppress"
    BY <1>b, ShapeOutcomesFacts DEF Exits
  <2>2. Reshaped(outcome, kept) \in {kept, Raw}
    BY <2>1, ReshapedFacts
  <2> QED
    BY <1>a, <1>b, <2>2
<1>1. CASE LegacyPre
  BY <1>1 DEF LegacyPre, Take
<1>2. CASE ChainPre
  <2>1. chain'.output = chain.output
    BY <1>2 DEF ChainPre, Typed, Outcome
  <2> QED
    BY <1>2, <2>1 DEF ChainPre
<1>3. CASE ChainPost
  <2>1. PICK outcome \in ShapeOutcomes(exit) :
           chain' = [chain EXCEPT !.output = Reshaped(outcome, None)]
    BY <1>3 DEF ChainPost
  <2>2. chain'.output = Reshaped(outcome, None)
    BY <2>1 DEF Typed, Outcome
  <2>3. exit = "none" => NotBlank(Reshaped(outcome, None))
    BY <1>b
  <2> QED
    BY <1>3, <2>2, <2>3 DEF ChainPost
<1>4. CASE ClaudePost
  BY <1>4 DEF ClaudePost
<1>5. CASE RuleStep
  <2>1. exit = "none" => NotBlank(result'.output)
    BY <1>5, <1>a, RuleStepFacts
  <2> QED
    BY <1>5, <2>1, RuleStepFacts
<1>6. CASE DenyRule
  <2>1. result'.output = result.output
    BY <1>6 DEF DenyRule, Matched, Typed, Result
  <2> QED
    BY <1>6, <2>1 DEF DenyRule
<1>7. CASE EndRules
  BY <1>7 DEF EndRules
<1>8. CASE Shape
  <2> DEFINE kept == IF result.output # None THEN result.output ELSE chain.output
  <2>1. PICK outcome \in ShapeOutcomes(exit) :
           result' = [result EXCEPT !.output = Reshaped(outcome, kept)]
    BY <1>8 DEF Shape
  <2>2. result'.output = Reshaped(outcome, kept)
    BY <2>1 DEF Typed, Result
  <2>3. kept \in Text \cup {None}
    BY DEF Typed, Result, Outcome
  <2>4. exit = "none" => NotBlank(kept)
    OBVIOUS
  <2> HIDE DEF kept
  <2>5. exit = "none" => NotBlank(Reshaped(outcome, kept))
    BY <1>b, <2>3, <2>4
  <2> QED
    BY <1>8, <2>2, <2>5 DEF Shape
<1>9. CASE Respond
  <2>1. Answer.output \in {None, result.output}
    BY DEF Answer, CmdHook, RunHook
  <2>2. CASE phase = "pre"
    BY <1>9, <2>2 DEF Respond, Take
  <2>3. CASE phase # "pre"
    <3>1. shown' \in {Raw, result.output} /\ phase' = "over"
      BY <1>9, <2>1, <2>3 DEF Respond, Take
    <3> QED
      BY <1>9, <1>a, <3>1 DEF Respond, Take
  <2> QED
    BY <2>2, <2>3
<1>10. CASE ToolEnds
  BY <1>10 DEF ToolEnds, NoResult, NoOutcome
<1>11. CASE phase \in Events /\ FailOpen
  BY <1>11, <1>a DEF FailOpen, Take, Nothing
<1>12. CASE UNCHANGED vars
  BY <1>12 DEF vars
<1> QED
  BY <1>1, <1>2, <1>3, <1>4, <1>5, <1>6, <1>7, <1>8, <1>9, <1>10, <1>11, <1>12, NextCases

\* Through both filters, whatever they are, an output whose command has no known
\* exit is never blanked.
THEOREM UnknownExitsKeepOutput == Spec => []UnknownExitKeepsOutput
<1>1. Init => UnknownInv
  BY DEF Init, UnknownInv, NothingShown, NotBlank, NoResult, NoOutcome
<1>2. UnknownInv => UnknownExitKeepsOutput
  BY DEF UnknownInv, NotBlank, UnknownExitKeepsOutput
<1> QED
  BY <1>1, <1>2, TypeInit, TypeNext, UnknownInductive, PTL DEF Spec

\* Once a redaction worked, the output on its way to the model is redacted.
RedactionInv ==
    /\ NothingShown
    /\ phase \in {"pre", "tool"} => redacted = "not"
    /\ phase = "post" /\ redacted = "worked" => result.output # None /\ result.output.redacted
    /\ RedactionSurvives

LEMMA RedactionInductive ==
    Typed /\ Ordered /\ RedactionInv /\ [Next]_vars => RedactionInv'
<1> SUFFICES ASSUME Typed, Ordered, RedactionInv, [Next]_vars PROVE RedactionInv'
  OBVIOUS
<1> USE DEF RedactionInv, RedactionSurvives, NothingShown, Answered, Overridden,
            config, call, history, answers, Events
<1>1. CASE LegacyPre
  BY <1>1 DEF LegacyPre, Take
<1>2. CASE ChainPre
  BY <1>2 DEF ChainPre
<1>3. CASE ChainPost
  BY <1>3 DEF ChainPost
<1>4. CASE ClaudePost
  BY <1>4 DEF ClaudePost
<1>5. CASE RuleStep
  <2>1. /\ phase' = phase /\ phase \in Events /\ shown' = shown
    BY <1>5, RuleStepFacts DEF Ordered
  <2>2. CASE result'.output = result.output /\ redacted' = redacted
    BY <2>1, <2>2
  <2>3. CASE /\ phase = "post"
             /\ \E works \in BOOLEAN :
                   /\ result'.output = [Raw EXCEPT !.redacted = works]
                   /\ redacted' = IF works THEN "worked" ELSE "failed"
    <3>1. \A works \in BOOLEAN : [Raw EXCEPT !.redacted = works] \in Text
                                 /\ [Raw EXCEPT !.redacted = works].redacted = works
      BY DEF Raw, Text
    <3> QED
      BY <2>1, <2>3, <3>1, NoTextAssumption
  <2> QED
    BY <1>5, <2>2, <2>3, RuleStepFacts
<1>6. CASE DenyRule
  <2>1. result'.output = result.output
    BY <1>6 DEF DenyRule, Matched, Typed, Result
  <2> QED
    BY <1>6, <2>1 DEF DenyRule, AtRule, Ordered
<1>7. CASE EndRules
  BY <1>7 DEF EndRules, Ordered
<1>8. CASE Shape
  <2> DEFINE kept == IF result.output # None THEN result.output ELSE chain.output
  <2>1. PICK outcome \in ShapeOutcomes(exit) :
           result' = [result EXCEPT !.output = Reshaped(outcome, kept)]
    BY <1>8 DEF Shape
  <2>2. result'.output = Reshaped(outcome, kept)
    BY <2>1 DEF Typed, Result
  <2>3. kept \in Text \cup {None}
    BY DEF Typed, Result, Outcome
  <2>4. phase = "post"
    BY <1>8 DEF Shape, Ordered
  <2>5. redacted = "worked" => kept # None /\ kept.redacted
    BY <2>4
  <2>6. outcome \in Outcomes
    BY ShapeOutcomesFacts DEF Typed
  <2> HIDE DEF kept
  <2>7. redacted = "worked" =>
           Reshaped(outcome, kept) \in Text /\ Reshaped(outcome, kept).redacted
    BY <2>3, <2>5, <2>6, ReshapedFacts
  <2> QED
    BY <1>8, <2>2, <2>4, <2>7, NoTextAssumption DEF Shape
<1>9. CASE Respond
  <2>1. CASE phase = "pre"
    BY <1>9, <2>1 DEF Respond, Take
  <2>2. CASE phase # "pre"
    <3>1. phase = "post"
      BY <1>9, <2>2 DEF Respond, Ordered
    <3>2. ~Overridden => Answer.output = result.output
      BY DEF Answer, CmdHook, RunHook
    <3>3. ~Overridden /\ redacted = "worked" => shown' = result.output
      BY <1>9, <3>1, <3>2 DEF Respond, Take
    <3>4. Overridden => Answer.output = None
      BY DEF Answer, CmdHook
    <3>5. Overridden => shown' = Raw
      BY <1>9, <3>1, <3>4 DEF Respond, Take
    <3>6. Raw.redacted = FALSE
      BY DEF Raw
    <3> QED
      BY <1>9, <3>1, <3>3, <3>5, <3>6 DEF Respond, Take
  <2> QED
    BY <2>1, <2>2
<1>10. CASE ToolEnds
  BY <1>10 DEF ToolEnds
<1>11. CASE phase \in Events /\ FailOpen
  BY <1>11 DEF FailOpen, Take, Nothing
<1>12. CASE UNCHANGED vars
  BY <1>12 DEF vars
<1> QED
  BY <1>1, <1>2, <1>3, <1>4, <1>5, <1>6, <1>7, <1>8, <1>9, <1>10, <1>11, <1>12, NextCases

\* After a redaction that worked the output shown is redacted, whatever filters
\* and chain make of it, unless cmd_hook answers with a denial or a rewrite of
\* the post event: then, and only then, it is the raw one.
THEOREM RedactionsSurvive == Spec => []RedactionSurvives
<1>1. Init => RedactionInv
  BY DEF Init, RedactionInv, NothingShown, RedactionSurvives
<1>2. RedactionInv => RedactionSurvives
  BY DEF RedactionInv
<1> QED
  BY <1>1, <1>2, TypeInit, TypeNext, RedactionInductive, PTL DEF Spec

\* An event starts without messages.
MessagesInv ==
    /\ step = "judge" => result.messages = {}
    /\ MessagesArrive

LEMMA MessagesInductive ==
    Typed /\ Ordered /\ MessagesInv /\ [Next]_vars => MessagesInv'
<1> SUFFICES ASSUME Typed, Ordered, MessagesInv, [Next]_vars PROVE MessagesInv'
  OBVIOUS
<1> USE DEF MessagesInv, MessagesArrive, Answered, Overridden,
            config, call, history, answers, Events
<1>1. CASE LegacyPre
  BY <1>1 DEF LegacyPre, Take, Nothing
<1>2. CASE ChainPre
  BY <1>2 DEF ChainPre
<1>3. CASE ChainPost
  BY <1>3 DEF ChainPost
<1>4. CASE ClaudePost
  BY <1>4 DEF ClaudePost
<1>5. CASE RuleStep
  BY <1>5, RuleStepFacts DEF Ordered
<1>6. CASE DenyRule
  BY <1>6 DEF DenyRule, AtRule, AfterRules, Ordered
<1>7. CASE EndRules
  BY <1>7 DEF EndRules, AfterRules, Ordered
<1>8. CASE Shape
  BY <1>8 DEF Shape, Ordered
<1>9. CASE Respond
  <2>1. ~Overridden => Answer.messages = result.messages
    BY DEF Answer, CmdHook, RunHook
  <2> QED
    BY <1>9, <2>1 DEF Respond, Take
<1>10. CASE ToolEnds
  BY <1>10 DEF ToolEnds, NoResult
<1>11. CASE phase \in Events /\ FailOpen
  BY <1>11 DEF FailOpen, Take, Nothing
<1>12. CASE UNCHANGED vars
  BY <1>12 DEF vars
<1> QED
  BY <1>1, <1>2, <1>3, <1>4, <1>5, <1>6, <1>7, <1>8, <1>9, <1>10, <1>11, <1>12, NextCases

\* The messages of all rules that fired arrive, unless a denial or a rewrite of
\* cmd_hook is said in their place.
THEOREM MessagesAlwaysArrive == Spec => []MessagesArrive
<1>1. Init => MessagesInv
  BY DEF Init, MessagesInv, MessagesArrive, Answered, NoResult
<1>2. MessagesInv => MessagesArrive
  BY DEF MessagesInv
<1> QED
  BY <1>1, <1>2, TypeInit, TypeNext, MessagesInductive, PTL DEF Spec

-----------------------------------------------------------------------------
(* The rewrites, rule by rule *)

\* RewrittenBy is the function its definition says it is: every rule that
\* matches and rewrites takes the command from where the one before left it.
LEMMA RewrittenByFacts ==
    ASSUME Typed
    PROVE  /\ RewrittenBy[0] = Received
           /\ \A i \in 1..Len(hooks) :
                 /\ RewrittenBy[i - 1] \in Commands
                 /\ RewrittenBy[i] =
                       IF Matches(hooks[i]) /\ hooks[i].action = "rewrite"
                       THEN hooks[i].to[RewrittenBy[i - 1]] ELSE RewrittenBy[i - 1]
<1> DEFINE n == Len(hooks)
           rewrites(i) == Matches(hooks[i]) /\ hooks[i].action = "rewrite"
           rule == [p \in Commands \X (1..n) |->
                      IF rewrites(p[2]) THEN hooks[p[2]].to[p[1]] ELSE p[1]]
           Body(f) == [i \in 0..n |->
                         IF i = 0 THEN Received
                         ELSE IF rewrites(i) THEN hooks[i].to[f[i - 1]] ELSE f[i - 1]]
<1>1. n \in Nat /\ \A i \in 1..n : hooks[i] \in Rule
  BY DispatchAssumption DEF Typed
<1>2. Received \in Commands
  BY DispatchAssumption DEF Received, Typed
<1>3. \A i \in 1..n : hooks[i].to \in [Commands -> Commands]
  BY <1>1 DEF Rule
<1> HIDE DEF n
<1>4. rule \in [Commands \X (1..n) -> Commands]
  <2> HIDE DEF rewrites
  <2>1. QED
    BY <1>3
<1>5. PICK f : Computes(f, n, Commands, Received, rule)
  <2> HIDE DEF rule
  <2>1. QED
    BY <1>1, <1>2, <1>4, Recursion
<1>6. f \in [0..n -> Commands] /\ f[0] = Received
  BY <1>5 DEF Computes
<1> HIDE DEF rewrites
<1>7. ASSUME NEW i \in 1..n
      PROVE  f[i - 1] \in Commands /\ f[i] = IF rewrites(i) THEN hooks[i].to[f[i - 1]] ELSE f[i - 1]
  <2>1. f[i] = rule[<<f[i - 1], i>>]
    BY <1>5 DEF Computes
  <2>2. f[i - 1] \in Commands
    BY <1>1, <1>6
  <2>3. QED
    BY <2>1, <2>2
<1>8. f = Body(f)
  <2>1. \A i \in 0..n : i = 0 \/ i \in 1..n
    BY <1>1
  <2>2. \A i \in 0..n : f[i] = IF i = 0 THEN Received
                               ELSE IF rewrites(i) THEN hooks[i].to[f[i - 1]] ELSE f[i - 1]
    BY <1>6, <1>7, <2>1
  <2>3. QED
    BY <1>6, <2>2
<1> DEFINE g == CHOOSE h : h = Body(h)
<1>9. g = Body(g)
  BY <1>8
<1>10. RewrittenBy = g
  BY DEF RewrittenBy, n, rewrites
<1> HIDE DEF g
<1>11. g[0] = Received
  BY <1>1, <1>9
<1>12. ASSUME NEW i \in 1..n
       PROVE  g[i] = IF rewrites(i) THEN hooks[i].to[g[i - 1]] ELSE g[i - 1]
  <2>1. i \in 0..n /\ i # 0
    BY <1>1
  <2>2. Body(g)[i] = IF rewrites(i) THEN hooks[i].to[g[i - 1]] ELSE g[i - 1]
    BY <2>1
  <2> HIDE DEF Body
  <2>3. QED
    BY <1>9, <2>2
<1> DEFINE S == {i \in 0..n : g[i] \in Commands}
<1>13. 0..n \subseteq S
  <2>1. 0 \in S
    BY <1>1, <1>2, <1>11
  <2>2. ASSUME NEW i \in 1..n, i - 1 \in S PROVE i \in S
    BY <1>3, <1>12, <2>2
  <2> HIDE DEF S
  <2>3. QED
    BY <1>1, <2>1, <2>2, UpTo
<1>14. \A i \in 1..n : g[i - 1] \in Commands
  BY <1>1, <1>13
<1>15. QED
  BY <1>10, <1>11, <1>12, <1>14 DEF n, rewrites

\* The command as the pipeline has it.
Current == IF result.rewrite # None THEN result.rewrite ELSE Target

\* None of the rules so far is a denial that matches.
Cleared == \A j \in 1..(next - 1) : Matches(hooks[j]) => hooks[j].action # "deny"

\* Up to the rule the pipeline is at, it has what the rules so far make of the
\* command, unless something denied.
UpToDate ==
    ~chain.deny =>
        /\ harness = "opencode" => chain.command = Received
        /\ ~result.deny => Current = RewrittenBy[next - 1] /\ Cleared
        /\ step = "respond" => result.deny \/ next = Len(hooks) + 1

RewriteInv ==
    /\ phase = "pre" => exit = "none" /\ command = asked
    /\ step = "judge" => next = 1 /\ result = NoResult /\ chain = NoOutcome
    /\ next <= Len(hooks) + 1
    /\ phase = "pre" /\ step \in {"rules", "respond"} => UpToDate
    /\ RunsAsRewritten

\* What matches stays so while the configuration does.
LEMMA SameConfiguration ==
    ASSUME UNCHANGED config
    PROVE  /\ UNCHANGED <<harness, hooks, blocked, asked>>
           /\ Received' = Received
           /\ RewrittenBy' = RewrittenBy
           /\ \A r \in Rule : Matches(r)' = Matches(r)
<1>1. UNCHANGED <<harness, hooks, blocked, asked>>
  BY DEF config
<1>2. QED
  BY <1>1 DEF Received, RewrittenBy, Matches

\* Before the tool, a rule fires on the command as received exactly if it
\* matches it.
LEMMA FiresIfMatches ==
    ASSUME Typed, phase = "pre", exit = "none", Target = Received, NEW r \in Rule
    PROVE  Fires(r) <=> Matches(r)
<1>1. r.when \in {"always", "on-success", "on-failure"}
  BY DEF Rule
<1>2. WhenHolds(r.when) <=> r.when # "on-failure"
  BY <1>1 DEF WhenHolds
<1>3. QED
  BY <1>2 DEF Fires, Matches

\* A step over the rule at hand, which is no denial that matches, keeps the
\* command up to date.
LEMMA RuleStepUpToDate ==
    ASSUME Typed, Ordered, RewriteInv, RuleStep, phase = "pre"
    PROVE  UpToDate'
<1> SUFFICES ASSUME ~chain'.deny PROVE
        /\ harness' = "opencode" => chain'.command = Received'
        /\ ~result'.deny => Current' = RewrittenBy'[next' - 1] /\ Cleared'
        /\ step' = "respond" => result'.deny \/ next' = Len(hooks') + 1
  BY DEF UpToDate
<1>1. /\ step = "rules" /\ chain' = chain /\ step' = step /\ result'.deny = result.deny
      /\ UNCHANGED config /\ command' = command /\ phase' = phase
  BY RuleStepFacts DEF call
<1>2. /\ UNCHANGED <<harness, hooks, asked>> /\ Received' = Received
      /\ RewrittenBy' = RewrittenBy /\ \A r \in Rule : Matches(r)' = Matches(r)
  BY <1>1, SameConfiguration
<1>3. /\ harness = "opencode" => chain.command = Received
      /\ ~result.deny => Current = RewrittenBy[next - 1] /\ Cleared
      /\ exit = "none" /\ command = asked
  BY <1>1 DEF RewriteInv, UpToDate
<1>4. next \in DOMAIN hooks /\ next' = next + 1 /\ next \in 1..Len(hooks)
  <2>1. next' = next + 1 /\ next <= Len(hooks)
    BY DEF RuleStep, SkipRule, RewriteRule, RunSideEffect, Notify, Redact, NextRule, AtRule
  <2>2. QED
    BY <2>1, DispatchAssumption DEF Typed
<1>5. hooks[next] \in Rule /\ next \in Nat
  BY <1>4, DispatchAssumption DEF Typed
<1>6. Target = Received /\ Target' = Target
  <2>1. CASE harness = "claude"
    BY <1>1, <1>3, <2>1 DEF Ordered, NoOutcome, Target, Received
  <2>2. CASE harness = "opencode"
    BY <1>1, <1>3, <2>2, DispatchAssumption DEF Target, Received, Typed
  <2>3. QED
    BY <2>1, <2>2 DEF Typed
<1>7. Fires(hooks[next]) <=> Matches(hooks[next])
  BY <1>3, <1>5, <1>6, FiresIfMatches
<1>8. ASSUME ~result.deny
      PROVE  Current' = RewrittenBy[next]
  <2>1. RewrittenBy[next] = IF Matches(hooks[next]) /\ hooks[next].action = "rewrite"
                            THEN hooks[next].to[Current] ELSE Current
    BY <1>3, <1>4, <1>8, RewrittenByFacts
  <2>2. DOMAIN result = {"deny", "rewrite", "output", "messages", "matched"}
    BY DEF Typed, Result
  <2>3. CASE RewriteRule
    <3> DEFINE current == IF result.rewrite # None THEN result.rewrite ELSE Target
               to == hooks[next].to[current]
    <3>1. result' = [Matched EXCEPT !.rewrite = IF to # current THEN to ELSE @]
      BY <2>3 DEF RewriteRule
    <3>2. Matched.rewrite = result.rewrite /\ "rewrite" \in DOMAIN Matched
      BY <2>2 DEF Matched
    <3>3. to \in Commands
      BY <1>3, <1>5, <1>6, <1>8, RewrittenByFacts, <1>4 DEF Rule, Current
    <3>4. hooks[next].action = "rewrite" /\ Matches(hooks[next])
      BY <2>3, <1>7 DEF RewriteRule, AtRule
    <3>5. RewrittenBy[next] = to /\ current = Current
      BY <2>1, <3>4 DEF Current
    <3> HIDE DEF to
    <3>6. result'.rewrite = IF to # Current THEN to ELSE result.rewrite
      BY <3>1, <3>2, <3>5
    <3>7. QED
      BY <3>3, <3>5, <3>6, <1>6, DispatchAssumption DEF Current
  <2>4. CASE ~RewriteRule
    <3>1. result'.rewrite = result.rewrite
      BY <2>2, <2>4 DEF RuleStep, SkipRule, RunSideEffect, Notify, Redact, Matched
    <3>2. ~(Matches(hooks[next]) /\ hooks[next].action = "rewrite")
      BY <2>4, <1>7 DEF RuleStep, SkipRule, RunSideEffect, Notify, Redact, AtRule
    <3>3. QED
      BY <2>1, <3>1, <3>2, <1>6 DEF Current
  <2>5. QED
    BY <2>3, <2>4
<1>9. ASSUME Cleared
      PROVE  Cleared'
  <2>1. Matches(hooks[next]) => hooks[next].action # "deny"
    BY <1>7 DEF RuleStep, SkipRule, RewriteRule, RunSideEffect, Notify, Redact, AtRule
  <2>2. \A j \in 1..(next' - 1) : j \in 1..(next - 1) \/ j = next
    BY <1>4, <1>5
  <2>3. \A j \in 1..(next' - 1) : hooks[j] \in Rule
    BY <1>4, <1>5, DispatchAssumption DEF Typed
  <2>4. \A j \in 1..(next' - 1) : Matches(hooks[j]) => hooks[j].action # "deny"
    BY <1>9, <2>1, <2>2 DEF Cleared
  <2>5. QED
    BY <1>2, <2>3, <2>4 DEF Cleared
<1>10. QED
  BY <1>1, <1>2, <1>3, <1>4, <1>5, <1>8, <1>9

LEMMA RewriteInductive ==
    Typed /\ Ordered /\ RewriteInv /\ [Next]_vars => RewriteInv'
<1> SUFFICES ASSUME Typed, Ordered, RewriteInv, [Next]_vars PROVE RewriteInv'
  OBVIOUS
<1> USE DEF config, call, history, answers, Events
<1>a. ASSUME UNCHANGED config
      PROVE  /\ UNCHANGED <<harness, hooks, asked>> /\ Received' = Received
             /\ RewrittenBy' = RewrittenBy /\ \A r \in Rule : Matches(r)' = Matches(r)
  BY <1>a, SameConfiguration
<1>b. /\ \A i \in DOMAIN hooks : hooks[i] \in Rule
      /\ next \in Nat /\ Len(hooks) \in Nat /\ DOMAIN hooks = 1..Len(hooks)
  BY DispatchAssumption DEF Typed
<1>c. ASSUME UNCHANGED <<config, next>>, next <= Len(hooks) + 1 PROVE Cleared <=> Cleared'
  <2>1. next <= Len(hooks) + 1 => \A j \in 1..(next - 1) : hooks[j] \in Rule
    BY <1>b
  <2>2. QED
    BY <1>a, <1>c, <2>1 DEF Cleared
<1>1. CASE LegacyPre
  <2>1. CASE step' = "rules"
    <3>1. UNCHANGED <<config, command, phase, exit, next, chain, result>>
      BY <1>1, <2>1 DEF LegacyPre, Take
    <3>2. /\ harness = "claude" /\ next = 1 /\ result = NoResult /\ chain = NoOutcome
          /\ exit = "none" /\ command = asked /\ phase = "pre"
      BY <1>1 DEF LegacyPre, RewriteInv
    <3>3. Current' = RewrittenBy'[next' - 1]
      <4>1. Current' = asked
        BY <3>1, <3>2 DEF Current, Target, NoResult, NoOutcome
      <4>2. RewrittenBy[0] = asked
        BY <3>2, RewrittenByFacts DEF Received
      <4>3. QED
        BY <4>1, <4>2, <3>1, <3>2, <1>a
    <3>4. Cleared'
      BY <3>1, <3>2 DEF Cleared
    <3>5. UpToDate'
      BY <2>1, <3>1, <3>2, <3>3, <3>4 DEF UpToDate
    <3>6. QED
      BY <2>1, <3>1, <3>2, <3>5, <1>b DEF RewriteInv, RunsAsRewritten
  <2>2. CASE step' # "rules"
    BY <1>1, <2>2 DEF LegacyPre, Take, Nothing, RewriteInv, RunsAsRewritten
  <2>3. QED
    BY <2>1, <2>2
<1>2. CASE ChainPre
  <2>1. /\ UNCHANGED <<config, command, phase, exit, next, result>>
        /\ step' = "rules"
    BY <1>2 DEF ChainPre
  <2>2. /\ harness = "opencode" /\ next = 1 /\ result = NoResult /\ chain = NoOutcome
        /\ exit = "none" /\ command = asked /\ phase = "pre"
    BY <1>2 DEF ChainPre, RewriteInv
  <2>3. ~chain'.deny => chain'.command = Received
    BY <1>2, <2>2 DEF ChainPre, Received, NoOutcome
  <2>4. UpToDate'
    <3>1. SUFFICES ASSUME ~chain'.deny PROVE
             Current' = RewrittenBy'[next' - 1] /\ Cleared' /\ chain'.command = Received'
      BY <2>1 DEF UpToDate
    <3>2. chain'.command = Received /\ Received \in Commands
      BY <2>3, <3>1, DispatchAssumption DEF Received, Typed
    <3>3. Current' = Received
      BY <2>1, <2>2, <3>2, DispatchAssumption DEF Current, Target, NoResult
    <3>4. RewrittenBy'[next' - 1] = Received
      BY <2>1, <2>2, <1>a, RewrittenByFacts
    <3>5. QED
      BY <3>2, <3>3, <3>4, <2>1, <2>2, <1>a DEF Cleared
  <2>5. QED
    BY <2>1, <2>2, <2>4, <1>b DEF RewriteInv, RunsAsRewritten
<1>3. CASE ChainPost
  BY <1>3, <1>b DEF ChainPost, RewriteInv, RunsAsRewritten, UpToDate, NoResult
<1>4. CASE ClaudePost
  BY <1>4, <1>b DEF ClaudePost, RewriteInv, RunsAsRewritten, UpToDate, NoResult
<1>5. CASE RuleStep
  <2>1. /\ step = "rules" /\ UNCHANGED <<config, call, step, chain, degraded>>
        /\ phase \in Events
    BY <1>5, RuleStepFacts DEF Ordered
  <2>2. next' <= Len(hooks) + 1
    BY <1>5, <1>b DEF RuleStep, SkipRule, RewriteRule, RunSideEffect, Notify, Redact, NextRule,
                      AtRule
  <2>3. phase = "pre" => UpToDate'
    BY <1>5, RuleStepUpToDate
  <2>4. QED
    BY <2>1, <2>2, <2>3 DEF RewriteInv, RunsAsRewritten
<1>6. CASE DenyRule
  <2>1. result'.deny
    BY <1>6 DEF DenyRule, Matched, Typed, Result
  <2>2. /\ step = "rules" /\ phase \in Events
        /\ UNCHANGED <<config, command, phase, exit, next, chain, degraded>>
        /\ step' # "judge"
        /\ step' # "rules"
    BY <1>6 DEF DenyRule, AtRule, AfterRules, Ordered
  <2>3. phase = "pre" => UpToDate'
    BY <2>1, <2>2, <1>a DEF UpToDate, RewriteInv
  <2>4. QED
    BY <2>2, <2>3 DEF RewriteInv, RunsAsRewritten
<1>7. CASE EndRules
  <2>1. /\ step = "rules" /\ phase \in Events /\ next = Len(hooks) + 1
        /\ UNCHANGED <<config, command, phase, exit, next, chain, result, degraded>>
        /\ step' # "judge"
        /\ step' # "rules"
    BY <1>7, <1>b DEF EndRules, AfterRules, Ordered, RewriteInv
  <2>2. phase = "pre" => UpToDate'
    BY <2>1, <1>a, <1>c DEF UpToDate, RewriteInv, Current, Target
  <2>3. QED
    BY <2>1, <2>2 DEF RewriteInv, RunsAsRewritten
<1>8. CASE Shape
  BY <1>8 DEF Shape, Ordered, RewriteInv, RunsAsRewritten
<1>9. CASE Respond
  <2>1. CASE phase = "pre"
    <3>1. step = "respond" /\ UpToDate /\ command = asked
      BY <1>9, <2>1 DEF Respond, RewriteInv
    <3>2. chain.deny \/ result.deny => Answer.deny
      <4>1. CASE harness = "claude"
        BY <4>1 DEF Answer, CmdHook, Ordered, NoOutcome
      <4>2. CASE harness # "claude"
        BY <4>2 DEF Answer, RunHook
      <4>3. QED
        BY <4>1, <4>2
    <3>3. ASSUME phase' = "tool"
          PROVE  /\ command' = RewrittenBy[Len(hooks)]
                 /\ \A i \in DOMAIN hooks : Matches(hooks[i]) => hooks[i].action # "deny"
      <4>1. ~Answer.deny /\ ~chain.deny /\ ~result.deny
        BY <1>9, <2>1, <3>2, <3>3 DEF Respond, Take
      <4>2. Current = RewrittenBy[Len(hooks)] /\ Cleared /\ next = Len(hooks) + 1
        BY <3>1, <4>1, <1>b DEF UpToDate
      <4>3. command' = IF Answer.command = None THEN command ELSE Answer.command
        BY <1>9, <2>1, <4>1 DEF Respond, Take
      <4>4. ASSUME harness = "claude" PROVE command' = Current
        <5>1. Answer.command = result.rewrite /\ Target = command
          BY <4>1, <4>4 DEF Answer, CmdHook, Target, Ordered, NoOutcome
        <5>2. QED
          BY <4>2, <4>3, <5>1 DEF Current
      <4>5. ASSUME harness # "claude" PROVE command' = Current
        <5>1. Answer.command = IF result.rewrite # None THEN result.rewrite ELSE chain.command
          BY <4>5 DEF Answer, RunHook
        <5>2. QED
          BY <4>2, <4>3, <5>1 DEF Current, Target
      <4>6. QED
        BY <4>4, <4>5, <4>2, <1>b DEF Cleared
    <3>4. /\ UNCHANGED <<config, degraded, next>> /\ step' = "none"
          /\ phase' \in {"tool", "over"}
      BY <1>9, <2>1 DEF Respond, Take
    <3>5. RunsAsRewritten'
      BY <3>3, <3>4, <1>a, <1>b DEF RunsAsRewritten
    <3>6. next' <= Len(hooks') + 1
      BY <3>4 DEF RewriteInv
    <3>7. QED
      BY <3>4, <3>5, <3>6 DEF RewriteInv
  <2>2. CASE phase # "pre"
    BY <1>9, <2>2 DEF Respond, Take, Ordered, RewriteInv, RunsAsRewritten
  <2>3. QED
    BY <2>1, <2>2
<1>10. CASE ToolEnds
  BY <1>10 DEF ToolEnds, RewriteInv, RunsAsRewritten
<1>11. CASE phase \in Events /\ FailOpen
  BY <1>11 DEF FailOpen, Take, Nothing, RewriteInv, RunsAsRewritten
<1>12. CASE UNCHANGED vars
  <2>1. UNCHANGED <<config, call, step, next, chain, result, degraded>>
    BY <1>12 DEF vars
  <2>2. UpToDate => UpToDate'
    BY <2>1, <1>a, <1>c DEF RewriteInv, UpToDate, Current, Target
  <2>3. RunsAsRewritten'
    BY <2>1, <1>a, <1>b DEF RunsAsRewritten, RewriteInv
  <2>4. QED
    BY <2>1, <2>2, <2>3 DEF RewriteInv
<1> QED
  BY <1>1, <1>2, <1>3, <1>4, <1>5, <1>6, <1>7, <1>8, <1>9, <1>10, <1>11, <1>12, NextCases

\* Whatever rules are configured, and however many, the command that runs is the
\* one asked for with the chain's rewrite and then every rewrite that matches
\* applied in order, and no denial that matches was passed over.
THEOREM CommandsRunAsRewritten == Spec => []RunsAsRewritten
<1>1. Init => RewriteInv
  BY DEF Init, RewriteInv, RunsAsRewritten
<1>2. RewriteInv => RunsAsRewritten
  BY DEF RewriteInv
<1> QED
  BY <1>1, <1>2, TypeInit, TypeNext, RewriteInductive, PTL DEF Spec

=============================================================================
