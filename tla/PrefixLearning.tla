---------------------------- MODULE PrefixLearning ----------------------------
(***************************************************************************)
(* Prefix learning (coursers/src/crs_commands.rs): when a bare command     *)
(* fails, the post-hook (`crs filter`) leaves a Pending probe and suggests *)
(* to retry the command behind a prefix.  The pre-hook (`crs rewrite`)     *)
(* recognises the retry and makes the probe Probing; the post-hook of the  *)
(* retry confirms the prefix for the command's key, or discards the probe. *)
(* A confirmed prefix is put before later commands of that key.            *)
(*                                                                         *)
(* Probes, mappings and statistics are three files that hook processes     *)
(* read and write in separate steps without a lock.  How one file is read  *)
(* or written is the external crate prefixe, here a single step.  One      *)
(* candidate prefix is configured; commands that a tool swap or a rewrite  *)
(* rule takes are not calls of this module.                                *)
(***************************************************************************)
EXTENDS Naturals, FiniteSets, Sequences, SequencesExt

CONSTANTS
    Calls,          \* tool calls; each runs one command once
    Bare,           \* commands without the prefix
    Key,            \* the key of a bare command, its first word
    PrefixKey,      \* the first word of the candidate prefix
    Learnable,      \* keys that may get a prefix
    MaxPrefixes,    \* bound on how often a command starts with the prefix
    None,           \* no probe
    MaxSkipped      \* bound on the calls whose end teaches nothing

ASSUME PrefixAssumption ==
    /\ IsFiniteSet(Calls)
    /\ DOMAIN Key = Bare
    /\ MaxPrefixes \in Nat
    /\ MaxSkipped \in Nat

\* A command is a bare command behind the candidate prefix, any number of times.
Command == [bare : Bare, prefixes : 0..MaxPrefixes]

Prefixed(c) == [c EXCEPT !.prefixes = @ + 1]

\* command_key: the first word.
KeyOf(c) == IF c.prefixes = 0 THEN Key[c.bare] ELSE PrefixKey

\* Mutation of IsPlausible: shell keywords and the like may get a prefix.
IsPlausibleAlways(c) == TRUE

\* The command may get a prefix: its key is an executable, not a keyword of the
\* shell, and for the prefix `op plugin run --` one of the plugins it knows.
IsPlausible(c) == KeyOf(c) \in Learnable

Probe == [original : Command, state : {"pending", "probing"}]

ASSUME NoneAssumption == None \notin Probe

Stats == [initiated : Nat, confirmed : Nat, exhausted : Nat]

NoStats == [initiated |-> 0, confirmed |-> 0, exhausted |-> 0]

VARIABLES
    exclusive,      \* whether hook processes of this behaviour never overlap
    probes,         \* the probe file
    mappings,       \* the keys with a confirmed prefix
    stats,          \* the statistics file
    asked,          \* the command the agent asked for
    ran,            \* the command that runs
    exit,           \* how it ended
    phase,          \* how far each call has come
    step,           \* where in its hook process each call is
    held,           \* the probes each process will write
    counted,        \* the statistics it has read
    probe,          \* the probe it resolves, if it does
    skipped         \* history: calls whose end taught nothing

files == <<probes, mappings, stats>>
call == <<asked, ran, exit>>
local == <<held, counted, probe>>

vars == <<exclusive, files, call, phase, step, local, skipped>>

-----------------------------------------------------------------------------

Exits == {"pending", "zero", "failure", "unknown"}

\* cmd_filter reads an exit that is not reported as 0.
Failed(k) == exit[k] = "failure"

HookRunning(k) == phase[k] \in {"pre", "post"}

MayStartHook == ~exclusive \/ \A k \in Calls : ~HookRunning(k)

\* The first probe in state s that is resolved by running c.
IsRetryOf(p, s, c) == p.state = s /\ Prefixed(p.original) = c

Retries(s, c) == {i \in DOMAIN probes : IsRetryOf(probes[i], s, c)}

First(is) == CHOOSE i \in is : \A j \in is : i <= j

Init ==
    /\ exclusive \in BOOLEAN
    /\ probes = <<>>
    /\ mappings = {}
    /\ stats = NoStats
    /\ asked \in [Calls -> {c \in Command : c.prefixes < MaxPrefixes}]
    /\ ran = asked
    /\ exit = [k \in Calls |-> "pending"]
    /\ phase = [k \in Calls |-> "idle"]
    /\ step = [k \in Calls |-> "none"]
    /\ held = [k \in Calls |-> <<>>]
    /\ counted = [k \in Calls |-> NoStats]
    /\ probe = [k \in Calls |-> None]
    /\ skipped = {}

Goto(k, s) ==
    /\ step' = [step EXCEPT ![k] = s]
    /\ UNCHANGED phase

\* The hook process of k ends, and with it its memory; the call is then in
\* phase p.
EndHook(k, p) ==
    /\ phase' = [phase EXCEPT ![k] = p]
    /\ step' = [step EXCEPT ![k] = "none"]
    /\ held' = [held EXCEPT ![k] = <<>>]
    /\ counted' = [counted EXCEPT ![k] = NoStats]
    /\ probe' = [probe EXCEPT ![k] = None]

Skip(k) ==
    /\ skipped' = skipped \cup {k}
    /\ Cardinality(skipped') <= MaxSkipped

-----------------------------------------------------------------------------
(* crs rewrite, before the tool *)

StartPre(k) ==
    /\ phase[k] = "idle"
    /\ MayStartHook
    /\ phase' = [phase EXCEPT ![k] = "pre"]
    /\ step' = [step EXCEPT ![k] = "match"]
    /\ UNCHANGED <<exclusive, files, call, local, skipped>>

\* check_probe_match reads the probes.
MatchProbe(k) ==
    /\ step[k] = "match"
    /\ LET is == Retries("pending", asked[k])
       IN  \/ /\ is # {}
              /\ held' = [held EXCEPT ![k] = [probes EXCEPT ![First(is)].state = "probing"]]
              /\ Goto(k, "mark")
           \/ /\ is = {}
              /\ Goto(k, "inject")
              /\ UNCHANGED held
    /\ UNCHANGED <<exclusive, files, call, counted, probe, skipped>>

\* It writes them with the match Probing, and the command passes unchanged.
MarkProbing(k) ==
    /\ step[k] = "mark"
    /\ probes' = held[k]
    /\ EndHook(k, "tool")
    /\ UNCHANGED <<exclusive, mappings, stats, call, skipped>>

\* rewrite_command puts a confirmed prefix before the command.
Inject(k) ==
    /\ step[k] = "inject"
    /\ ran' = [ran EXCEPT ![k] = IF KeyOf(asked[k]) \in mappings
                                 THEN Prefixed(asked[k]) ELSE asked[k]]
    /\ EndHook(k, "tool")
    /\ UNCHANGED <<exclusive, files, asked, exit, skipped>>

-----------------------------------------------------------------------------
(* crs filter, after the tool *)

\* The command ends.  When a filter suppresses its output the hook returns
\* before it gets to the probes.
ToolEnds(k) ==
    /\ phase[k] = "tool"
    /\ MayStartHook
    /\ exit' \in {[exit EXCEPT ![k] = e] : e \in Exits \ {"pending"}}
    /\ \/ /\ phase' = [phase EXCEPT ![k] = "post"]
          /\ step' = [step EXCEPT ![k] = "resolve"]
          /\ UNCHANGED <<local, skipped>>
       \/ /\ EndHook(k, "over")
          /\ Skip(k)
    /\ UNCHANGED <<exclusive, files, asked, ran>>

\* Mutation of Resolve: only an exit that is known resolves a probe.
ResolveKnown(k) ==
    /\ step[k] = "resolve"
    /\ LET is == Retries("probing", ran[k])
       IN  \/ /\ is # {} /\ exit[k] # "unknown"
              /\ probe' = [probe EXCEPT ![k] = probes[First(is)]]
              /\ held' = [held EXCEPT ![k] = RemoveAt(probes, First(is))]
              /\ Goto(k, "readstats")
              /\ UNCHANGED counted
           \/ /\ is = {}
              /\ Failed(k) /\ IsPlausible(ran[k])
              /\ Goto(k, "initiate")
              /\ UNCHANGED local
           \/ /\ IF is = {} THEN ~(Failed(k) /\ IsPlausible(ran[k]))
                 ELSE exit[k] = "unknown"
              /\ EndHook(k, "over")
    /\ UNCHANGED <<exclusive, files, call, skipped>>

\* handle_probe_result reads the probes.  A Probing one that this command
\* retried is resolved; without one, a failure of a learnable command goes on to
\* handle_bare_failure.
Resolve(k) ==
    /\ step[k] = "resolve"
    /\ LET is == Retries("probing", ran[k])
       IN  \/ /\ is # {}
              /\ probe' = [probe EXCEPT ![k] = probes[First(is)]]
              /\ held' = [held EXCEPT ![k] = RemoveAt(probes, First(is))]
              /\ Goto(k, "readstats")
              /\ UNCHANGED counted
           \/ /\ is = {}
              /\ Failed(k) /\ IsPlausible(ran[k])
              /\ Goto(k, "initiate")
              /\ UNCHANGED local
           \/ /\ is = {}
              /\ ~(Failed(k) /\ IsPlausible(ran[k]))
              /\ EndHook(k, "over")
    /\ UNCHANGED <<exclusive, files, call, skipped>>

\* Mutation of Initiate: a probe whatever probes there are.
InitiateAgain(k) ==
    /\ step[k] = "initiate"
    /\ held' = [held EXCEPT ![k] =
                  Append(probes, [original |-> ran[k], state |-> "pending"])]
    /\ Goto(k, "write")
    /\ UNCHANGED <<exclusive, files, call, counted, probe, skipped>>

\* handle_bare_failure reads the probes again, and adds one for the command
\* unless there is one.
Initiate(k) ==
    /\ step[k] = "initiate"
    /\ \/ /\ \A i \in DOMAIN probes : probes[i].original # ran[k]
          /\ held' = [held EXCEPT ![k] =
                        Append(probes, [original |-> ran[k], state |-> "pending"])]
          /\ Goto(k, "write")
          /\ UNCHANGED <<counted, probe>>
       \/ /\ \E i \in DOMAIN probes : probes[i].original = ran[k]
          /\ EndHook(k, "over")
    /\ UNCHANGED <<exclusive, files, call, skipped>>

Resolving(k) == probe[k] # None

\* Mutation of ReadStats: a failed retry is confirmed as well.
ReadStatsConfirms(k) ==
    /\ step[k] = "readstats"
    /\ counted' = [counted EXCEPT ![k] = stats]
    /\ Goto(k, IF Resolving(k) THEN "confirm" ELSE "savestats")
    /\ UNCHANGED <<exclusive, files, call, held, probe, skipped>>

ReadStats(k) ==
    /\ step[k] = "readstats"
    /\ counted' = [counted EXCEPT ![k] = stats]
    /\ Goto(k, IF ~Resolving(k) THEN "savestats"
               ELSE IF Failed(k) THEN "write" ELSE "confirm")
    /\ UNCHANGED <<exclusive, files, call, held, probe, skipped>>

\* confirm_mapping, for the key of the command that failed without the prefix.
Confirm(k) ==
    /\ step[k] = "confirm"
    /\ mappings' = mappings \cup {KeyOf(probe[k].original)}
    /\ Goto(k, "write")
    /\ UNCHANGED <<exclusive, probes, stats, call, local, skipped>>

WriteProbes(k) ==
    /\ step[k] = "write"
    /\ probes' = held[k]
    /\ Goto(k, IF Resolving(k) THEN "savestats" ELSE "readstats")
    /\ UNCHANGED <<exclusive, mappings, stats, call, local, skipped>>

\* Mutation of SaveStats: a failed retry is not counted.
SaveStatsConfirmed(k) ==
    /\ step[k] = "savestats"
    /\ stats' = IF ~Resolving(k)
                THEN [counted[k] EXCEPT !.initiated = @ + 1]
                ELSE IF Failed(k) THEN counted[k]
                ELSE [counted[k] EXCEPT !.confirmed = @ + 1]
    /\ EndHook(k, "over")
    /\ UNCHANGED <<exclusive, probes, mappings, call, skipped>>

SaveStats(k) ==
    /\ step[k] = "savestats"
    /\ stats' = IF ~Resolving(k)
                THEN [counted[k] EXCEPT !.initiated = @ + 1]
                ELSE IF Failed(k) THEN [counted[k] EXCEPT !.exhausted = @ + 1]
                ELSE [counted[k] EXCEPT !.confirmed = @ + 1]
    /\ EndHook(k, "over")
    /\ UNCHANGED <<exclusive, probes, mappings, call, skipped>>

-----------------------------------------------------------------------------
(* Faults *)

\* The error of a write is dropped (`let _ =`), and the hook goes on.
WriteFails(k) ==
    /\ \/ step[k] = "mark" /\ EndHook(k, "tool")
       \/ step[k] = "confirm" /\ Goto(k, "write") /\ UNCHANGED local
       \/ /\ step[k] = "write"
          /\ Goto(k, IF Resolving(k) THEN "savestats" ELSE "readstats")
          /\ UNCHANGED local
       \/ step[k] = "savestats" /\ EndHook(k, "over")
    /\ Skip(k)
    /\ UNCHANGED <<exclusive, files, call>>

\* The process dies; the harness goes on without its answer.
Crash(k) ==
    /\ HookRunning(k)
    /\ EndHook(k, IF phase[k] = "pre" THEN "tool" ELSE "over")
    /\ Skip(k)
    /\ UNCHANGED <<exclusive, files, call>>

\* crs audit --remove: the user takes a confirmed prefix back, whatever runs.
\* Without --remove it only prints the files.
RemoveMapping(key) ==
    /\ key \in mappings
    /\ mappings' = mappings \ {key}
    /\ UNCHANGED <<exclusive, probes, stats, call, phase, step, local, skipped>>

AllOver ==
    /\ \A k \in Calls : phase[k] = "over"
    /\ UNCHANGED vars

Next ==
    \/ \E k \in Calls :
          \/ StartPre(k) \/ MatchProbe(k) \/ MarkProbing(k) \/ Inject(k)
          \/ ToolEnds(k) \/ Resolve(k) \/ Initiate(k) \/ ReadStats(k) \/ Confirm(k)
          \/ WriteProbes(k) \/ SaveStats(k)
          \/ WriteFails(k) \/ Crash(k)
    \/ \E key \in Learnable : RemoveMapping(key)
    \/ AllOver

Spec == Init /\ [][Next]_vars

-----------------------------------------------------------------------------
(* Properties *)

\* Every variable keeps its type, and a call has a hook process exactly while it
\* is at one of its steps.
TypeOK ==
    /\ exclusive \in BOOLEAN
    /\ probes \in Seq(Probe)
    /\ mappings \subseteq Learnable
    /\ stats \in Stats
    /\ asked \in [Calls -> Command]
    /\ ran \in [Calls -> Command]
    /\ exit \in [Calls -> Exits]
    /\ phase \in [Calls -> {"idle", "pre", "tool", "post", "over"}]
    /\ \A k \in Calls :
          step[k] \in CASE phase[k] = "pre"  -> {"match", "mark", "inject"}
                        [] phase[k] = "post" -> {"resolve", "initiate", "readstats",
                                                 "confirm", "write", "savestats"}
                        [] OTHER             -> {"none"}
    /\ held \in [Calls -> Seq(Probe)]
    /\ counted \in [Calls -> Stats]
    /\ probe \in [Calls -> Probe \cup {None}]
    /\ skipped \subseteq Calls
    /\ Cardinality(skipped) <= MaxSkipped

\* "Don't duplicate probes for the same command" (handle_bare_failure): however
\* hooks overlap, lose updates and die, no command has two probes, which would
\* be resolved by one retry after the other.
OneProbePerCommand ==
    \A i, j \in DOMAIN probes : probes[i].original = probes[j].original => i = j

\* Whatever overlaps, is lost or dies, a prefix is confirmed for a key only when a
\* command of that key was seen to fail without the prefix, and its retry with
\* the prefix was not.
MappingJustified ==
    \A key \in mappings : \E b, r \in Calls :
        /\ KeyOf(ran[b]) = key /\ exit[b] = "failure"
        /\ ran[r] = Prefixed(ran[b]) /\ exit[r] \in {"zero", "unknown"}

Undisturbed == exclusive /\ skipped = {}

\* The statistics account for every probe: while hooks do not overlap, each one
\* that was initiated is still there or was resolved exactly once.
ProbesAccounted ==
    Undisturbed /\ (\A k \in Calls : ~HookRunning(k))
        => stats.initiated = stats.confirmed + stats.exhausted + Len(probes)

\* A probe that is Probing belongs to a retry whose end will resolve it, or
\* whose end went by unnoticed: otherwise it stays for ever, and keeps the command
\* from ever getting another.
ProbingHasRetry ==
    exclusive =>
        \A i \in DOMAIN probes : probes[i].state = "probing" =>
            \E k \in Calls : /\ ran[k] = Prefixed(probes[i].original)
                             /\ phase[k] # "over" \/ k \in skipped

=============================================================================
