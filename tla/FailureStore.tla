----------------------------- MODULE FailureStore -----------------------------
(***************************************************************************)
(* Failure learning as it runs: every Bash tool call starts one short      *)
(* process of `coursers pre` before the tool and one of `coursers post`    *)
(* after it, and all of them share one JSON state file and its temporary   *)
(* file.  Nothing locks either file, and the processes of parallel tool    *)
(* calls, subagents and sessions overlap.                                  *)
(*                                                                         *)
(* A call is served by the legacy hooks (coursers/src/hook/pre.rs and      *)
(* post.rs) or by the hook chain (core/src/hook/concrete.rs).  Commands    *)
(* that a predefined rule blocks never reach the memory; what their denial *)
(* writes (statistics, dataset, hook log) is not state of this module.     *)
(***************************************************************************)
EXTENDS FailureLearning

CONSTANTS
    RuleBlocked,    \* commands a predefined rule denies
    Excluded,       \* commands is_excluded() keeps out of the memory
    Runners,        \* which hook implementations serve calls
    Overlap,        \* whether hook processes may run at the same time
    Faults          \* whether hook processes die and writes fail

ASSUME StoreAssumption ==
    /\ RuleBlocked \subseteq Commands
    /\ Excluded \subseteq Commands
    /\ Runners \subseteq {"legacy", "chain"}
    /\ Overlap \in BOOLEAN
    /\ Faults \in BOOLEAN

VARIABLES
    now,            \* the clock, in seconds
    file,           \* what the state file holds
    tmp,            \* what <state file>.json.tmp holds
    phase,          \* how far each call has come
    step,           \* where in its hook process each call is
    held,           \* the State each hook process works on
    fd,             \* what the process's open file is linked as by now
    command,        \* the command each call runs
    runner,         \* the hook implementation that serves each call
    exit,           \* how each call's command ended
    verdict,        \* what the pre-hook answered
    denial,         \* when a learned denial was given, and its {count}
    failures,       \* history: the stamp of every failure recorded so far
    saved           \* history: calls whose post-hook's save succeeded

vars == <<now, file, tmp, phase, step, held, fd, command, runner, exit,
          verdict, denial, failures, saved>>

callVars == <<command, runner>>
resultVars == <<exit, verdict, denial>>
historyVars == <<failures, saved>>

-----------------------------------------------------------------------------

Phases == {"idle", "pre", "tool", "post", "over"}
Steps == {"none", "load", "update", "open", "write", "rename", "check"}
Exits == {"pending", "zero", "failure", "signal", "unknown"}
Verdicts == {"none", "allow", "rule", "learned"}

\* What a file holds.  Text that does not parse, and no file at all, load as
\* the empty state: load() is followed by unwrap_or_default().
Contents ==
    [kind : {"json"}, state : State]
        \cup [kind : {"absent", "empty", "garbled"}, state : {EmptyState}]

Json(state) == [kind |-> "json", state |-> state]
Absent == [kind |-> "absent", state |-> EmptyState]
Empty == [kind |-> "empty", state |-> EmptyState]
Garbled == [kind |-> "garbled", state |-> EmptyState]

\* fs::write at offset 0 of a file that others may have filled since it was
\* truncated: a longer rest of their text stays behind it.
Overwrite(old, new) ==
    IF old.kind \in {"absent", "empty"} \/ old = new THEN {new} ELSE {new, Garbled}

HookRunning(k) == phase[k] \in {"pre", "post"}

MayStartHook == Overlap \/ \A k \in Calls : ~HookRunning(k)

\* Mutation of PostRecords: an exit code that is not reported is a failure.
PostRecordsUnknown(k, e) ==
    /\ e \in {"failure", "unknown"}
    /\ command[k] \notin Excluded
    /\ Enabled

\* The legacy post-hook reads an unknown exit as 0 and leaves out signals and
\* excluded commands.
PostRecords(k, e) ==
    /\ e = "failure"
    /\ command[k] \notin Excluded
    /\ Enabled

\* The chain's observer takes every known exit that is not 0, and never asks
\* whether failure learning is on.
ObserverRecords(e) == e \in {"failure", "signal"}

\* Whether the end of k's command, told to the post-hook as e, is recorded.
Recordable(k, e) ==
    \/ runner[k] = "legacy" /\ PostRecords(k, e)
    \/ runner[k] = "chain" /\ ObserverRecords(e)

-----------------------------------------------------------------------------

Init ==
    /\ now = 0
    /\ file = Absent
    /\ tmp = Absent
    /\ phase = [k \in Calls |-> "idle"]
    /\ step = [k \in Calls |-> "none"]
    /\ held = [k \in Calls |-> EmptyState]
    /\ fd = [k \in Calls |-> "none"]
    /\ command \in [Calls -> Commands]
    /\ runner \in [Calls -> Runners]
    /\ exit = [k \in Calls |-> "pending"]
    /\ verdict = [k \in Calls |-> "none"]
    /\ denial = [k \in Calls |-> [at |-> 0, count |-> 0]]
    /\ failures = {}
    /\ saved = {}

\* The hook process of k goes on at step s.
Goto(k, s) ==
    /\ step' = [step EXCEPT ![k] = s]
    /\ UNCHANGED phase

\* The hook process of k ends, and with it its memory; the call is then in
\* phase p.
EndHook(k, p) ==
    /\ phase' = [phase EXCEPT ![k] = p]
    /\ step' = [step EXCEPT ![k] = "none"]
    /\ held' = [held EXCEPT ![k] = EmptyState]

\* A pre-hook starts: a rule denies at once; with failure learning off the
\* legacy hook never loads the state, while the chain loads it regardless.
StartPre(k) ==
    /\ phase[k] = "idle"
    /\ MayStartHook
    /\ \/ /\ command[k] \in RuleBlocked
          /\ verdict' = [verdict EXCEPT ![k] = "rule"]
          /\ EndHook(k, "over")
       \/ /\ command[k] \notin RuleBlocked
          /\ runner[k] = "legacy" /\ ~Enabled
          /\ verdict' = [verdict EXCEPT ![k] = "allow"]
          /\ EndHook(k, "tool")
       \/ /\ command[k] \notin RuleBlocked
          /\ runner[k] = "chain" \/ Enabled
          /\ phase' = [phase EXCEPT ![k] = "pre"]
          /\ step' = [step EXCEPT ![k] = "load"]
          /\ UNCHANGED <<held, verdict>>
    /\ UNCHANGED <<now, file, tmp, fd, callVars, exit, denial, historyVars>>

\* RuleBlockHook looks the command up in the state as it is; the other three
\* hooks first change what they loaded.
AfterLoad(k) == IF phase[k] = "pre" /\ runner[k] = "chain" THEN "check" ELSE "update"

\* Mutation of Load: the post-hook goes on from State::default() instead.
LoadForPreOnly(k) ==
    /\ HookRunning(k)
    /\ step[k] = "load"
    /\ held' = [held EXCEPT ![k] = IF phase[k] = "pre" THEN file.state ELSE EmptyState]
    /\ Goto(k, AfterLoad(k))
    /\ UNCHANGED <<now, file, tmp, fd, callVars, resultVars, historyVars>>

\* The state file is read and parsed.
Load(k) ==
    /\ HookRunning(k)
    /\ step[k] = "load"
    /\ held' = [held EXCEPT ![k] = file.state]
    /\ Goto(k, AfterLoad(k))
    /\ UNCHANGED <<now, file, tmp, fd, callVars, resultVars, historyVars>>

\* The legacy pre-hook prunes what it read, and saves it only when the number
\* of entries changed.
PruneOnRead(k) ==
    /\ phase[k] = "pre"
    /\ step[k] = "update"
    /\ \E state \in Prune(held[k], now) :
          /\ held' = [held EXCEPT ![k] = state]
          /\ Goto(k, IF Cardinality(Tracked(state)) # Cardinality(Tracked(held[k]))
                     THEN "open" ELSE "check")
    /\ UNCHANGED <<now, file, tmp, fd, callVars, resultVars, historyVars>>

\* The post-hook pushes the failure and prunes.
Record(k) ==
    /\ phase[k] = "post"
    /\ step[k] = "update"
    /\ \E state \in RecordFailure(held[k], command[k], k, now) :
          held' = [held EXCEPT ![k] = state]
    /\ failures' = failures \cup {[at |-> now, call |-> k]}
    /\ Goto(k, "open")
    /\ UNCHANGED <<now, file, tmp, fd, callVars, resultVars, saved>>

-----------------------------------------------------------------------------
(* save_to: create or truncate the one temporary file, write it, rename it. *)

\* What follows save(), whether it succeeded or its error was only printed:
\* the pre-hook looks the command up, the post-hook is over.
AfterSave(k) ==
    IF phase[k] = "pre"
    THEN Goto(k, "check") /\ UNCHANGED held
    ELSE EndHook(k, "over")

OpenTmp(k) ==
    /\ HookRunning(k)
    /\ step[k] = "open"
    /\ tmp' = Empty
    /\ fd' = [fd EXCEPT ![k] = "tmp"]
    /\ Goto(k, "write")
    /\ UNCHANGED <<now, file, held, callVars, resultVars, historyVars>>

\* The text goes to the file that k has open: the temporary file, or the state
\* file once another process renamed it, or a file no name leads to any more.
WriteThrough(k, tmpTexts, fileTexts) ==
    /\ tmp' \in IF fd[k] = "tmp" THEN tmpTexts ELSE {tmp}
    /\ file' \in IF fd[k] = "file" THEN fileTexts ELSE {file}
    /\ fd' = [fd EXCEPT ![k] = "none"]

WriteTmp(k) ==
    /\ HookRunning(k)
    /\ step[k] = "write"
    /\ WriteThrough(k, Overwrite(tmp, Json(held[k])), Overwrite(file, Json(held[k])))
    /\ Goto(k, "rename")
    /\ UNCHANGED <<now, held, callVars, resultVars, historyVars>>

\* rename(2) takes whatever file the temporary name leads to; without one it
\* fails and the save returns the error.
RenameTmp(k) ==
    /\ HookRunning(k)
    /\ step[k] = "rename"
    /\ \/ /\ tmp.kind # "absent"
          /\ file' = tmp
          /\ tmp' = Absent
          /\ fd' = [j \in Calls |-> CASE fd[j] = "tmp"  -> "file"
                                      [] fd[j] = "file" -> "unlinked"
                                      [] OTHER          -> fd[j]]
          /\ saved' = IF phase[k] = "post" THEN saved \cup {k} ELSE saved
       \/ /\ tmp.kind = "absent"
          /\ UNCHANGED <<file, tmp, fd, saved>>
    /\ AfterSave(k)
    /\ UNCHANGED <<now, callVars, resultVars, failures>>

\* The temporary file cannot be created.
OpenFails(k) ==
    /\ Faults
    /\ HookRunning(k)
    /\ step[k] = "open"
    /\ AfterSave(k)
    /\ UNCHANGED <<now, file, tmp, fd, callVars, resultVars, historyVars>>

\* Mutation of WriteFails: the error is dropped and the rename done anyway.
WriteFailsUnnoticed(k) ==
    /\ Faults
    /\ HookRunning(k)
    /\ step[k] = "write"
    /\ WriteThrough(k, {Garbled}, {Garbled})
    /\ Goto(k, "rename")
    /\ UNCHANGED <<now, held, callVars, resultVars, historyVars>>

\* The write stops half way (the disk is full, or the process is killed in
\* it, which Crash completes): a part of the text is not JSON.
WriteFails(k) ==
    /\ Faults
    /\ HookRunning(k)
    /\ step[k] = "write"
    /\ WriteThrough(k, {Garbled}, {Garbled})
    /\ AfterSave(k)
    /\ UNCHANGED <<now, callVars, resultVars, historyVars>>

-----------------------------------------------------------------------------

\* check_learned: the answer of the pre-hook.  A denied tool never runs.
CheckLearned(k) ==
    /\ phase[k] = "pre"
    /\ step[k] = "check"
    /\ \/ /\ Learned(held[k], command[k], now)
          /\ verdict' = [verdict EXCEPT ![k] = "learned"]
          /\ denial' = [denial EXCEPT ![k] =
                          [at |-> now, count |-> ReportedCount(held[k], command[k])]]
          /\ EndHook(k, "over")
       \/ /\ ~Learned(held[k], command[k], now)
          /\ verdict' = [verdict EXCEPT ![k] = "allow"]
          /\ EndHook(k, "tool")
          /\ UNCHANGED denial
    /\ UNCHANGED <<now, file, tmp, fd, callVars, exit, historyVars>>

\* The command ends and its post-hook starts, which has nothing to do with
\* the memory unless the end is recordable.
ToolEnds(k) ==
    /\ phase[k] = "tool"
    /\ MayStartHook
    /\ \E e \in Exits \ {"pending"} :
          /\ exit' = [exit EXCEPT ![k] = e]
          /\ \/ /\ Recordable(k, e)
                /\ phase' = [phase EXCEPT ![k] = "post"]
                /\ step' = [step EXCEPT ![k] = "load"]
             \/ /\ ~Recordable(k, e)
                /\ phase' = [phase EXCEPT ![k] = "over"]
                /\ UNCHANGED step
    /\ UNCHANGED <<now, file, tmp, held, fd, callVars, verdict, denial, historyVars>>

\* A hook process is killed.  The harness goes on without its answer.
Crash(k) ==
    /\ Faults
    /\ HookRunning(k)
    /\ fd' = [fd EXCEPT ![k] = "none"]
    /\ IF phase[k] = "pre"
       THEN /\ verdict' = [verdict EXCEPT ![k] = "allow"]
            /\ EndHook(k, "tool")
       ELSE /\ EndHook(k, "over")
            /\ UNCHANGED verdict
    /\ UNCHANGED <<now, file, tmp, callVars, exit, denial, historyVars>>

\* Time passes; it may jump, between any two steps of any process.
Tick ==
    /\ \E t \in Time : t > now /\ now' = t
    /\ UNCHANGED <<file, tmp, phase, step, held, fd, callVars, resultVars, historyVars>>

\* Every call of the instance is over.
AllOver ==
    /\ \A k \in Calls : phase[k] = "over"
    /\ UNCHANGED vars

HookStep(k) ==
    \/ Load(k)
    \/ PruneOnRead(k)
    \/ Record(k)
    \/ OpenTmp(k)
    \/ WriteTmp(k)
    \/ RenameTmp(k)
    \/ CheckLearned(k)

Next ==
    \/ \E k \in Calls :
          \/ StartPre(k)
          \/ HookStep(k)
          \/ ToolEnds(k)
          \/ OpenFails(k)
          \/ WriteFails(k)
          \/ Crash(k)
    \/ Tick
    \/ AllOver

Spec == Init /\ [][Next]_vars

-----------------------------------------------------------------------------
(* Properties *)

\* A call has a hook process exactly while it is at one of its steps, and the
\* process has a file open only between opening and writing it.
ControlOK ==
    \A k \in Calls :
        /\ HookRunning(k) <=> step[k] # "none"
        /\ phase[k] = "post" => step[k] # "check"
        /\ fd[k] # "none" => step[k] = "write"

\* Every variable keeps its type, and every call is at a step of its phase:
\* the order of steps that pre.rs, post.rs, concrete.rs and store.rs write down.
TypeOK ==
    /\ now \in Time
    /\ file \in Contents
    /\ tmp \in Contents
    /\ phase \in [Calls -> Phases]
    /\ step \in [Calls -> Steps]
    /\ held \in [Calls -> State]
    /\ fd \in [Calls -> {"none", "tmp", "file", "unlinked"}]
    /\ command \in [Calls -> Commands]
    /\ runner \in [Calls -> Runners]
    /\ exit \in [Calls -> Exits]
    /\ verdict \in [Calls -> Verdicts]
    /\ denial \in [Calls -> [at : Time, count : Nat]]
    /\ failures \in SUBSET Stamp
    /\ saved \in SUBSET Calls
    /\ ControlOK

\* The failures of k's command that were really observed: known failing exits
\* of other calls that ran just this command; and those in the window that ends
\* at t.
FailuresOf(k) ==
    {f \in failures : /\ command[f.call] = command[k]
                      /\ exit[f.call] \in {"failure", "signal"}}

FailuresBefore(k, t) == {f \in FailuresOf(k) : SaturatingSub(t, f.at) <= Window}

\* check_learned (state.rs): a command is denied as "has failed" only when at
\* least Threshold tool calls really ran exactly this command and failed
\* within the window before the denial, whatever processes overlapped, lost
\* each other's updates, tore the file or died in between; and the count its
\* message names is of such failures, in the window or before it.
DenialJustified ==
    \A k \in Calls : verdict[k] = "learned" =>
        /\ Cardinality(FailuresBefore(k, denial[k].at)) >= Threshold
        /\ denial[k].count \in Threshold..Cardinality(FailuresOf(k))

\* prune (state.rs): what the state file holds is bounded by
\* max_tracked_commands, the timestamps of an entry lie within one window, and
\* last_seen is the latest of them, also after a save that was based on a
\* state others had replaced in the meantime.
StoredStateBounded == Bounded(file.state)

\* save_to (store.rs) "atomically" saves: the state file is missing or is a
\* whole JSON text at every moment, also after a crash or a failed write.
FileNeverTorn == file.kind \in {"absent", "json"}

\* The failures of k's command that were saved and that no prune may drop yet.
SavedFailures(k) == {f \in FailuresBefore(k, now) : f.call \in saved}

\* failure_learning.block_threshold, "Failures required to trigger a block": a
\* pre-hook that looks up a command denies it when Threshold failures of it
\* were saved within the window, if the memory has room for every command and
\* keeps entries at least as long as timestamps.
RepeatedFailureDenied ==
    [][\A k \in Calls :
        /\ CheckLearned(k)
        /\ Enabled
        /\ Cleanup >= Window
        /\ MaxTracked >= Cardinality(Commands)
        /\ Cardinality(SavedFailures(k)) >= Threshold
        /\ SavedFailures(k) # {}
        => verdict'[k] = "learned"]_vars

\* One atomic memory, as FailureMemory states it, is what the processes and
\* the files amount to when hook processes do not overlap.
Memory == INSTANCE FailureMemory WITH memory <- file.state

ImplementsMemory == Memory!Spec

=============================================================================
