--------------------------- MODULE FailureLearning ---------------------------
(***************************************************************************)
(* The failure-learning policy of crates/core/src/state.rs: what recording *)
(* a failed command, pruning the memory and looking a command up compute.  *)
(* These are pure functions of a state and of the clock; the processes     *)
(* that call them and the file they are kept in are in FailureStore.       *)
(*                                                                         *)
(* A timestamp of the code's Vec<u64> is a Stamp: the pushed second, and   *)
(* the tool call whose hook pushed it, which keeps two failures of one     *)
(* second apart as the vector does.  The key of an entry is the command    *)
(* itself (the code's SHA-256 of it, taken as injective) and the preview   *)
(* is left out.  An entry whose timestamps are empty never outlives a      *)
(* prune, so "no entry" is the entry without timestamps.                   *)
(***************************************************************************)
EXTENDS Integers, FiniteSets

CONSTANTS
    Commands,       \* shell commands, one failure entry each
    Calls,          \* tool calls; each runs one command once
    Horizon,        \* bound on the clock
    Enabled,        \* failure_learning.enabled
    Window,         \* failure_learning.window_seconds
    Cleanup,        \* failure_learning.cleanup_after_seconds
    Threshold,      \* failure_learning.block_threshold
    MaxTracked      \* failure_learning.max_tracked_commands

ASSUME PolicyAssumption ==
    /\ IsFiniteSet(Commands)
    /\ IsFiniteSet(Calls)
    /\ Horizon \in Nat
    /\ Enabled \in BOOLEAN
    /\ Window \in Nat
    /\ Cleanup \in Nat
    /\ Threshold \in Nat
    /\ MaxTracked \in Nat

Time == 0..Horizon

Stamp == [at : Time, call : Calls]

Entry == [timestamps : SUBSET Stamp, last_seen : Time]

NoEntry == [timestamps |-> {}, last_seen |-> 0]

State == [Commands -> Entry]

EmptyState == [c \in Commands |-> NoEntry]

Tracked(state) == {c \in Commands : state[c].timestamps # {}}

-----------------------------------------------------------------------------

\* u64::saturating_sub: a timestamp from the future has age 0.
SaturatingSub(a, b) == IF a >= b THEN a - b ELSE 0

\* Mutation of Recent: a timestamp just Window old no longer counts.
RecentExclusive(stamps, now) == {s \in stamps : SaturatingSub(now, s.at) < Window}

Recent(stamps, now) == {s \in stamps : SaturatingSub(now, s.at) <= Window}

\* The first two passes of prune: an entry not seen for Cleanup seconds goes,
\* then timestamps older than Window go, and the entries that leaves empty.
DropAged(state, now) ==
    [c \in Commands |->
        LET recent == Recent(state[c].timestamps, now)
        IN  IF now - state[c].last_seen > Cleanup \/ recent = {}
            THEN NoEntry
            ELSE [state[c] EXCEPT !.timestamps = recent]]

\* Mutation of Evictions: the entry just pushed is not counted.
EvictionsOneShort(state) ==
    {V \in SUBSET Tracked(state) :
        /\ Cardinality(V) = SaturatingSub(Cardinality(Tracked(state)), MaxTracked + 1)
        /\ \A v \in V : \A c \in Tracked(state) \ V :
               state[v].last_seen <= state[c].last_seen}

\* The third pass: exactly the surplus over MaxTracked goes, oldest last_seen
\* first.  Ties fall in the order of a HashMap, so every choice is possible.
Evictions(state) ==
    {V \in SUBSET Tracked(state) :
        /\ Cardinality(V) = SaturatingSub(Cardinality(Tracked(state)), MaxTracked)
        /\ \A v \in V : \A c \in Tracked(state) \ V :
               state[v].last_seen <= state[c].last_seen}

Evict(state, V) == [c \in Commands |-> IF c \in V THEN NoEntry ELSE state[c]]

\* The states prune may return.
Prune(state, now) ==
    LET aged == DropAged(state, now)
    IN  {Evict(aged, V) : V \in Evictions(aged)}

Push(state, command, call, now) ==
    [state EXCEPT ![command] =
        [timestamps |-> @.timestamps \cup {[at |-> now, call |-> call]},
         last_seen  |-> now]]

\* The states record_failure may return.
RecordFailure(state, command, call, now) ==
    Prune(Push(state, command, call, now), now)

\* check_learned returns a deny message.
Learned(state, command, now) ==
    /\ Enabled
    /\ command \in Tracked(state)
    /\ Cardinality(Recent(state[command].timestamps, now)) >= Threshold

\* The {count} that message states.
ReportedCount(state, command) == Cardinality(state[command].timestamps)

-----------------------------------------------------------------------------

\* What every prune leaves: no more entries than MaxTracked, the timestamps of
\* an entry within one window, and last_seen the latest of them.
Bounded(state) ==
    /\ Cardinality(Tracked(state)) <= MaxTracked
    /\ \A c \in Tracked(state) :
          /\ \A s \in state[c].timestamps :
                 s.at <= state[c].last_seen /\ state[c].last_seen - s.at <= Window
          /\ \E s \in state[c].timestamps : s.at = state[c].last_seen

=============================================================================
