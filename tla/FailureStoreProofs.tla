-------------------------- MODULE FailureStoreProofs --------------------------
(***************************************************************************)
(* Theorems of FailureStore, and the lemmas about FailureLearning they     *)
(* rest on: they hold for every set of calls and commands, every           *)
(* configuration and every interleaving, with and without faults, and      *)
(* those of the last two parts when hook processes do not overlap.         *)
(***************************************************************************)
EXTENDS FailureStore, FiniteSetTheorems, TLAPS

-----------------------------------------------------------------------------
(* What the operators of FailureLearning return *)

\* Saturating subtraction of two naturals is a natural.
LEMMA SaturatingSubType ==
    ASSUME NEW a \in Nat, NEW b \in Nat
    PROVE  SaturatingSub(a, b) \in Nat
BY DEF SaturatingSub

\* The empty state is a state.
LEMMA EmptyStateType == EmptyState \in State
BY PolicyAssumption DEF EmptyState, State, NoEntry, Entry, Time

\* There are finitely many stamps, so every entry holds finitely many.
LEMMA StampsFinite ==
    ASSUME NEW S \in SUBSET Stamp
    PROVE  IsFiniteSet(S) /\ Cardinality(S) \in Nat
<1> DEFINE make == [p \in Time \X Calls |-> [at |-> p[1], call |-> p[2]]]
<1>1. IsFiniteSet(Time \X Calls)
  <2>1. IsFiniteSet(Time)
    BY PolicyAssumption, FS_Interval DEF Time
  <2> QED
    BY PolicyAssumption, <2>1, FS_Product
<1>2. make \in Surjection(Time \X Calls, Stamp)
  <2>1. make \in [Time \X Calls -> Stamp]
    BY DEF Stamp
  <2>2. ASSUME NEW s \in Stamp PROVE \E p \in Time \X Calls : make[p] = s
    <3>1. <<s.at, s.call>> \in Time \X Calls
      BY DEF Stamp
    <3>2. make[<<s.at, s.call>>] = s
      BY <3>1 DEF Stamp
    <3> QED
      BY <3>1, <3>2
  <2> QED
    BY <2>1, <2>2 DEF Surjection
<1>3. IsFiniteSet(Stamp)
  BY <1>1, <1>2, FS_Surjection
<1> QED
  BY <1>3, FS_Subset, FS_CardinalityType

\* The age passes of prune return a state.
LEMMA DropAgedType ==
    ASSUME NEW state \in State, NEW t \in Time
    PROVE  DropAged(state, t) \in State
<1> SUFFICES ASSUME NEW c \in Commands
             PROVE  DropAged(state, t)[c] \in Entry
  BY DEF DropAged, State
<1>1. state[c] \in Entry
  BY DEF State
<1>2. Recent(state[c].timestamps, t) \in SUBSET Stamp
  BY <1>1 DEF Recent, Entry
<1>3. NoEntry \in Entry
  BY PolicyAssumption DEF NoEntry, Entry, Time
<1>4. [state[c] EXCEPT !.timestamps = Recent(state[c].timestamps, t)] \in Entry
  BY <1>1, <1>2 DEF Entry
<1> QED
  BY <1>3, <1>4 DEF DropAged

\* The age passes of prune only take timestamps away.
LEMMA DropAgedShrinks ==
    ASSUME NEW state \in State, NEW t \in Time, NEW c \in Commands
    PROVE  DropAged(state, t)[c].timestamps \subseteq state[c].timestamps
<1>1. state[c] \in Entry
  BY DEF State
<1> QED
  BY <1>1 DEF DropAged, NoEntry, Recent, Entry

\* Every state prune may return is a state, with none but timestamps of the
\* state it was given.
LEMMA PruneShrinks ==
    ASSUME NEW state \in State, NEW t \in Time, NEW pruned \in Prune(state, t)
    PROVE  /\ pruned \in State
           /\ \A c \in Commands : pruned[c].timestamps \subseteq state[c].timestamps
<1> DEFINE aged == DropAged(state, t)
<1>1. aged \in State
  BY DropAgedType
<1>2. PICK V \in Evictions(aged) : pruned = Evict(aged, V)
  BY DEF Prune
<1>3. \A c \in Commands : aged[c].timestamps \subseteq state[c].timestamps
  BY DropAgedShrinks
<1>4. NoEntry \in Entry /\ NoEntry.timestamps = {}
  BY PolicyAssumption DEF NoEntry, Entry, Time
<1> HIDE DEF aged
<1>5. \A c \in Commands : pruned[c] = NoEntry \/ pruned[c] = aged[c]
  BY <1>2 DEF Evict
<1>6. pruned \in State
  BY <1>1, <1>2, <1>4 DEF Evict, State
<1> QED
  BY <1>3, <1>4, <1>5, <1>6

\* Pushing a failure adds its timestamp to its command's entry and changes no
\* other entry.
LEMMA PushAdds ==
    ASSUME NEW state \in State, NEW cmd \in Commands, NEW call \in Calls,
           NEW t \in Time
    PROVE  /\ Push(state, cmd, call, t) \in State
           /\ Push(state, cmd, call, t)[cmd].timestamps =
                  state[cmd].timestamps \cup {[at |-> t, call |-> call]}
           /\ \A c \in Commands \ {cmd} :
                  Push(state, cmd, call, t)[c] = state[c]
<1>1. state[cmd] \in Entry
  BY DEF State
<1>2. [at |-> t, call |-> call] \in Stamp
  BY DEF Stamp
<1>3. [timestamps |-> state[cmd].timestamps \cup {[at |-> t, call |-> call]},
       last_seen |-> t] \in Entry
  BY <1>1, <1>2 DEF Entry
<1> QED
  BY <1>3 DEF Push, State

\* Every state record_failure may return is a state, and the one timestamp it
\* may hold beyond those of the state it was given is the new failure's.
LEMMA RecordFailureAdds ==
    ASSUME NEW state \in State, NEW cmd \in Commands, NEW call \in Calls,
           NEW t \in Time, NEW result \in RecordFailure(state, cmd, call, t)
    PROVE  /\ result \in State
           /\ result[cmd].timestamps \subseteq
                  state[cmd].timestamps \cup {[at |-> t, call |-> call]}
           /\ \A c \in Commands \ {cmd} :
                  result[c].timestamps \subseteq state[c].timestamps
<1> DEFINE pushed == Push(state, cmd, call, t)
<1>1. /\ pushed \in State
      /\ pushed[cmd].timestamps =
             state[cmd].timestamps \cup {[at |-> t, call |-> call]}
      /\ \A c \in Commands \ {cmd} : pushed[c] = state[c]
  BY PushAdds
<1>2. result \in Prune(pushed, t)
  BY DEF RecordFailure
<1> HIDE DEF pushed
<1>3. /\ result \in State
      /\ \A c \in Commands : result[c].timestamps \subseteq pushed[c].timestamps
  BY <1>1, <1>2, PruneShrinks
<1> QED
  BY <1>1, <1>3

-----------------------------------------------------------------------------
(* What prune bounds *)

\* The last_seen of every entry is its latest timestamp, and not after now.
Latest(state, t) ==
    \A c \in Tracked(state) :
        /\ state[c].last_seen <= t
        /\ \A s \in state[c].timestamps : s.at <= state[c].last_seen
        /\ \E s \in state[c].timestamps : s.at = state[c].last_seen

\* Finitely many commands are tracked.
LEMMA TrackedFinite ==
    ASSUME NEW state
    PROVE  IsFiniteSet(Tracked(state)) /\ Cardinality(Tracked(state)) \in Nat
<1>1. Tracked(state) \subseteq Commands
  BY DEF Tracked
<1> QED
  BY <1>1, PolicyAssumption, FS_Subset, FS_CardinalityType

\* Evicting the surplus leaves at most MaxTracked entries.
LEMMA EvictBounds ==
    ASSUME NEW state \in State, NEW V \in Evictions(state)
    PROVE  Cardinality(Tracked(Evict(state, V))) <= MaxTracked
<1> DEFINE T == Tracked(state)
<1>1. V \subseteq T /\ Cardinality(V) = SaturatingSub(Cardinality(T), MaxTracked)
  BY DEF Evictions
<1>2. Tracked(Evict(state, V)) = T \ V
  BY DEF Tracked, Evict, NoEntry
<1>3. IsFiniteSet(T) /\ Cardinality(T) \in Nat
  BY TrackedFinite
<1> HIDE DEF T
<1>4. Cardinality(T \ V) = Cardinality(T) - Cardinality(T \cap V)
  BY <1>3, FS_Difference
<1>5. T \cap V = V
  BY <1>1
<1>6. Cardinality(T \ V) = Cardinality(T) - SaturatingSub(Cardinality(T), MaxTracked)
  BY <1>1, <1>4, <1>5
<1>7. MaxTracked \in Nat
  BY PolicyAssumption
<1>8. Cardinality(T) - SaturatingSub(Cardinality(T), MaxTracked) <= MaxTracked
  BY <1>3, <1>7 DEF SaturatingSub
<1> QED
  BY <1>2, <1>6, <1>8

\* Ageing keeps the latest timestamp of an entry if it keeps any, and what it
\* keeps lies within one window.
LEMMA DropAgedWindow ==
    ASSUME NEW state \in State, NEW t \in Time, Latest(state, t)
    PROVE  /\ Latest(DropAged(state, t), t)
           /\ \A c \in Tracked(DropAged(state, t)) :
                 \A s \in DropAged(state, t)[c].timestamps :
                     DropAged(state, t)[c].last_seen - s.at <= Window
<1> DEFINE aged == DropAged(state, t)
<1> SUFFICES ASSUME NEW c \in Tracked(aged)
             PROVE  /\ aged[c].last_seen <= t
                    /\ \A s \in aged[c].timestamps : s.at <= aged[c].last_seen
                    /\ \E s \in aged[c].timestamps : s.at = aged[c].last_seen
                    /\ \A s \in aged[c].timestamps : aged[c].last_seen - s.at <= Window
  BY DEF Latest
<1>1. c \in Commands /\ aged[c].timestamps # {}
  BY DEF Tracked
<1>2. state[c] \in Entry
  BY <1>1 DEF State
<1>3. /\ aged[c].timestamps = Recent(state[c].timestamps, t)
      /\ aged[c].last_seen = state[c].last_seen
  BY <1>1, <1>2 DEF DropAged, NoEntry, Entry
<1>4. c \in Tracked(state)
  BY <1>1, <1>3 DEF Tracked, Recent
<1>5. /\ state[c].last_seen <= t
      /\ \A s \in state[c].timestamps : s.at <= state[c].last_seen
  BY <1>4 DEF Latest
<1>6. PICK last \in state[c].timestamps : last.at = state[c].last_seen
  BY <1>4 DEF Latest
<1>7. /\ t \in Int /\ state[c].last_seen \in Int
      /\ \A s \in state[c].timestamps : s.at \in Int
  BY <1>2, PolicyAssumption DEF Entry, Stamp, Time
<1>8. \A s \in Recent(state[c].timestamps, t) : s \in state[c].timestamps /\ t - s.at <= Window
  BY <1>5, <1>7, PolicyAssumption DEF Recent, SaturatingSub
<1>9. PICK s \in Recent(state[c].timestamps, t) : TRUE
  BY <1>1, <1>3
<1>10. t - s.at <= Window /\ s.at <= last.at
  BY <1>5, <1>6, <1>8, <1>9
<1>11. last \in Recent(state[c].timestamps, t)
  BY <1>5, <1>6, <1>7, <1>8, <1>9, <1>10, PolicyAssumption DEF Recent, SaturatingSub
<1>12. \A r \in Recent(state[c].timestamps, t) : state[c].last_seen - r.at <= Window
  BY <1>5, <1>7, <1>8, PolicyAssumption
<1> HIDE DEF aged
<1> QED
  BY <1>3, <1>5, <1>6, <1>8, <1>11, <1>12

\* What prune returns is bounded, and its entries are still seen last by now.
LEMMA PruneBounds ==
    ASSUME NEW state \in State, NEW t \in Time, Latest(state, t),
           NEW pruned \in Prune(state, t)
    PROVE  Bounded(pruned) /\ Latest(pruned, t)
<1> DEFINE aged == DropAged(state, t)
<1>1. aged \in State
  BY DropAgedType
<1>2. PICK V \in Evictions(aged) : pruned = Evict(aged, V)
  BY DEF Prune
<1>3. /\ Latest(aged, t)
      /\ \A c \in Tracked(aged) :
            \A s \in aged[c].timestamps : aged[c].last_seen - s.at <= Window
  BY DropAgedWindow
<1> HIDE DEF aged
<1>4. Cardinality(Tracked(pruned)) <= MaxTracked
  BY <1>1, <1>2, EvictBounds
<1>5. \A c \in Tracked(pruned) : c \in Tracked(aged) /\ pruned[c] = aged[c]
  BY <1>2 DEF Tracked, Evict, NoEntry
<1> QED
  BY <1>3, <1>4, <1>5 DEF Bounded, Latest

\* A failure pushed now is the latest of its entry.
LEMMA PushLatest ==
    ASSUME NEW state \in State, NEW cmd \in Commands, NEW call \in Calls,
           NEW t \in Time, Latest(state, t)
    PROVE  Latest(Push(state, cmd, call, t), t)
<1> DEFINE pushed == Push(state, cmd, call, t)
           new == [at |-> t, call |-> call]
<1> SUFFICES ASSUME NEW c \in Tracked(pushed)
             PROVE  /\ pushed[c].last_seen <= t
                    /\ \A s \in pushed[c].timestamps : s.at <= pushed[c].last_seen
                    /\ \E s \in pushed[c].timestamps : s.at = pushed[c].last_seen
  BY DEF Latest
<1>0. t \in Int /\ c \in Commands
  BY PolicyAssumption DEF Time, Tracked
<1>1. CASE c = cmd
  <2>1. pushed[c].last_seen = t /\ pushed[c].timestamps = state[c].timestamps \cup {new}
    <3>1. DOMAIN state = Commands
      BY DEF State
    <3>2. pushed[c] = [timestamps |-> state[c].timestamps \cup {new}, last_seen |-> t]
      BY <1>0, <1>1, <3>1 DEF Push
    <3> QED
      BY <3>2
  <2>2. \A s \in state[c].timestamps : s.at <= t
    <3>1. CASE c \in Tracked(state)
      <4>1. state[c] \in Entry
        BY <1>0 DEF State
      <4>2. state[c].last_seen \in Int /\ \A s \in state[c].timestamps : s.at \in Int
        BY <4>1, PolicyAssumption DEF Entry, Stamp, Time
      <4> QED
        BY <1>0, <3>1, <4>2 DEF Latest
    <3>2. CASE c \notin Tracked(state)
      BY <1>0, <3>2 DEF Tracked
    <3> QED
      BY <3>1, <3>2
  <2>3. new \in pushed[c].timestamps /\ new.at = t
    BY <2>1
  <2> HIDE DEF pushed, new
  <2> QED
    BY <1>0, <2>1, <2>2, <2>3
<1>2. CASE c # cmd
  <2>1. pushed[c] = state[c]
    BY <1>0, <1>2, PushAdds
  <2>2. c \in Tracked(state)
    BY <2>1 DEF Tracked
  <2> HIDE DEF pushed
  <2> QED
    BY <2>1, <2>2 DEF Latest
<1> QED
  BY <1>1, <1>2

-----------------------------------------------------------------------------
(* Type correctness *)

\* What any file can hold is one of the four kinds, with a state of its kind.
LEMMA ContentsFacts ==
    /\ Absent \in Contents /\ Empty \in Contents /\ Garbled \in Contents
    /\ \A content \in Contents : content.state \in State
    /\ \A state \in State : Json(state) \in Contents
BY EmptyStateType DEF Contents, Absent, Empty, Garbled, Json

\* Writing over a file leaves file contents.
LEMMA OverwriteType ==
    ASSUME NEW old \in Contents, NEW state \in State
    PROVE  Overwrite(old, Json(state)) \subseteq Contents
BY ContentsFacts DEF Overwrite

\* The {count} of a deny message is a natural.
LEMMA ReportedCountType ==
    ASSUME NEW state \in State, NEW c \in Commands
    PROVE  ReportedCount(state, c) \in Nat
BY StampsFinite DEF ReportedCount, State, Entry

\* The initial states are well typed.
LEMMA TypeInit == Init => TypeOK
BY PolicyAssumption, ContentsFacts, EmptyStateType
DEF Init, TypeOK, ControlOK, Time, Phases, Steps, Exits, Verdicts, HookRunning

\* A step of k that leaves k under control leaves every call under control.
LEMMA ControlOfOne ==
    ASSUME TypeOK, NEW k \in Calls,
           \A j \in Calls \ {k} :
               /\ phase'[j] = phase[j]
               /\ step'[j] = step[j]
               /\ fd'[j] # "none" => fd[j] # "none",
           phase'[k] \in {"pre", "post"} <=> step'[k] # "none",
           phase'[k] = "post" => step'[k] # "check",
           fd'[k] # "none" => step'[k] = "write"
    PROVE  ControlOK'
<1> SUFFICES ASSUME NEW j \in Calls
             PROVE  /\ phase'[j] \in {"pre", "post"} <=> step'[j] # "none"
                    /\ phase'[j] = "post" => step'[j] # "check"
                    /\ fd'[j] # "none" => step'[j] = "write"
  BY DEF ControlOK, HookRunning
<1>1. CASE j = k
  BY <1>1
<1>2. CASE j # k
  BY <1>2 DEF TypeOK, ControlOK, HookRunning
<1> QED
  BY <1>1, <1>2

\* Every step of every process keeps the types.
LEMMA TypeNext == TypeOK /\ [Next]_vars => TypeOK'
<1> SUFFICES ASSUME TypeOK, [Next]_vars PROVE TypeOK'
  OBVIOUS
<1> DEFINE Typed ==
        /\ now \in Time
        /\ file \in Contents /\ tmp \in Contents
        /\ phase \in [Calls -> Phases]
        /\ step \in [Calls -> Steps]
        /\ held \in [Calls -> State]
        /\ fd \in [Calls -> {"none", "tmp", "file", "unlinked"}]
        /\ command \in [Calls -> Commands]
        /\ runner \in [Calls -> Runners]
        /\ exit \in [Calls -> Exits]
        /\ verdict \in [Calls -> Verdicts]
        /\ denial \in [Calls -> [at : Time, count : Nat]]
        /\ failures \in SUBSET Stamp
        /\ saved \in SUBSET Calls
<1>0. Typed /\ ControlOK
  BY DEF TypeOK
<1> SUFFICES Typed' /\ ControlOK'
  BY DEF TypeOK
<1> USE <1>0 DEF Phases, Steps, Exits, Verdicts, callVars, resultVars, historyVars
<1>1. ASSUME NEW k \in Calls, StartPre(k) PROVE Typed' /\ ControlOK'
  <2>8. Typed'
    <3>1. phase' \in [Calls -> Phases]
      BY <1>1 DEF StartPre, EndHook
    <3>2. step' \in [Calls -> Steps]
      BY <1>1 DEF StartPre, EndHook
    <3>3. held' \in [Calls -> State]
      BY <1>1, EmptyStateType DEF StartPre, EndHook
    <3>4. verdict' \in [Calls -> Verdicts]
      BY <1>1 DEF StartPre, EndHook
    <3> QED
      BY <1>1, <3>1, <3>2, <3>3, <3>4 DEF StartPre
  <2>9. ControlOK'
    BY <1>1, ControlOfOne DEF StartPre, EndHook, ControlOK, HookRunning
  <2> QED
    BY <2>8, <2>9
<1>2. ASSUME NEW k \in Calls, Load(k) PROVE Typed' /\ ControlOK'
  <2>8. Typed'
    BY <1>2, ContentsFacts DEF Load, AfterLoad, Goto
  <2>9. ControlOK'
    BY <1>2, ControlOfOne DEF Load, AfterLoad, Goto, ControlOK, HookRunning
  <2> QED
    BY <2>8, <2>9
<1>3. ASSUME NEW k \in Calls, PruneOnRead(k) PROVE Typed' /\ ControlOK'
  <2>1. \A state \in Prune(held[k], now) : state \in State
    BY PruneShrinks
  <2>8. Typed'
    BY <1>3, <2>1 DEF PruneOnRead, Goto
  <2>9. ControlOK'
    BY <1>3, ControlOfOne DEF PruneOnRead, Goto, ControlOK, HookRunning
  <2> QED
    BY <2>8, <2>9
<1>4. ASSUME NEW k \in Calls, Record(k) PROVE Typed' /\ ControlOK'
  <2>1. \A state \in RecordFailure(held[k], command[k], k, now) : state \in State
    BY RecordFailureAdds
  <2>2. [at |-> now, call |-> k] \in Stamp
    BY DEF Stamp
  <2>8. Typed'
    BY <1>4, <2>1, <2>2 DEF Record, Goto
  <2>9. ControlOK'
    BY <1>4, ControlOfOne DEF Record, Goto, ControlOK, HookRunning
  <2> QED
    BY <2>8, <2>9
<1>5. ASSUME NEW k \in Calls, OpenTmp(k) PROVE Typed' /\ ControlOK'
  <2>8. Typed'
    BY <1>5, ContentsFacts DEF OpenTmp, Goto
  <2>9. ControlOK'
    BY <1>5, ControlOfOne DEF OpenTmp, Goto, ControlOK, HookRunning
  <2> QED
    BY <2>8, <2>9
<1>6. ASSUME NEW k \in Calls, WriteTmp(k) PROVE Typed' /\ ControlOK'
  <2>1. tmp' \in Contents /\ file' \in Contents
    BY <1>6, OverwriteType DEF WriteTmp, WriteThrough
  <2>8. Typed'
    BY <1>6, <2>1 DEF WriteTmp, WriteThrough, Goto
  <2>9. ControlOK'
    BY <1>6, ControlOfOne DEF WriteTmp, WriteThrough, Goto, ControlOK, HookRunning
  <2> QED
    BY <2>8, <2>9
<1>7. ASSUME NEW k \in Calls, RenameTmp(k) PROVE Typed' /\ ControlOK'
  <2>8. Typed'
    <3>1. file' \in Contents
      BY <1>7, ContentsFacts DEF RenameTmp, AfterSave, EndHook, Goto
    <3>2. tmp' \in Contents
      BY <1>7, ContentsFacts DEF RenameTmp, AfterSave, EndHook, Goto
    <3>3. phase' \in [Calls -> Phases]
      BY <1>7 DEF RenameTmp, AfterSave, EndHook, Goto
    <3>4. step' \in [Calls -> Steps]
      BY <1>7 DEF RenameTmp, AfterSave, EndHook, Goto
    <3>5. held' \in [Calls -> State]
      BY <1>7, EmptyStateType DEF RenameTmp, AfterSave, EndHook, Goto
    <3>6. fd' \in [Calls -> {"none", "tmp", "file", "unlinked"}]
      BY <1>7 DEF RenameTmp, AfterSave, EndHook, Goto
    <3>7. saved' \in SUBSET Calls
      BY <1>7 DEF RenameTmp, AfterSave, EndHook, Goto
    <3> QED
      BY <1>7, <3>1, <3>2, <3>3, <3>4, <3>5, <3>6, <3>7 DEF RenameTmp
  <2>9. ControlOK'
    BY <1>7, ControlOfOne DEF RenameTmp, AfterSave, EndHook, Goto, ControlOK, HookRunning
  <2> QED
    BY <2>8, <2>9
<1>8. ASSUME NEW k \in Calls, CheckLearned(k) PROVE Typed' /\ ControlOK'
  <2>8. Typed'
    <3>1. phase' \in [Calls -> Phases]
      BY <1>8 DEF CheckLearned, EndHook
    <3>2. step' \in [Calls -> Steps]
      BY <1>8 DEF CheckLearned, EndHook
    <3>3. held' \in [Calls -> State]
      BY <1>8, EmptyStateType DEF CheckLearned, EndHook
    <3>4. verdict' \in [Calls -> Verdicts]
      BY <1>8 DEF CheckLearned, EndHook
    <3>5. denial' \in [Calls -> [at : Time, count : Nat]]
      BY <1>8, ReportedCountType DEF CheckLearned, EndHook
    <3> QED
      BY <1>8, <3>1, <3>2, <3>3, <3>4, <3>5 DEF CheckLearned
  <2>9. ControlOK'
    BY <1>8, ControlOfOne DEF CheckLearned, EndHook, ControlOK, HookRunning
  <2> QED
    BY <2>8, <2>9
<1>9. ASSUME NEW k \in Calls, ToolEnds(k) PROVE Typed' /\ ControlOK'
  <2>8. Typed'
    <3>1. phase' \in [Calls -> Phases]
      BY <1>9 DEF ToolEnds
    <3>2. step' \in [Calls -> Steps]
      BY <1>9 DEF ToolEnds
    <3>3. exit' \in [Calls -> Exits]
      BY <1>9 DEF ToolEnds
    <3> QED
      BY <1>9, <3>1, <3>2, <3>3 DEF ToolEnds
  <2>9. ControlOK'
    BY <1>9, ControlOfOne DEF ToolEnds, ControlOK, HookRunning
  <2> QED
    BY <2>8, <2>9
<1>10. ASSUME NEW k \in Calls, OpenFails(k) PROVE Typed' /\ ControlOK'
  <2>8. Typed'
    <3>1. phase' \in [Calls -> Phases]
      BY <1>10 DEF OpenFails, AfterSave, EndHook, Goto
    <3>2. step' \in [Calls -> Steps]
      BY <1>10 DEF OpenFails, AfterSave, EndHook, Goto
    <3>3. held' \in [Calls -> State]
      BY <1>10, EmptyStateType DEF OpenFails, AfterSave, EndHook, Goto
    <3> QED
      BY <1>10, <3>1, <3>2, <3>3 DEF OpenFails
  <2>9. ControlOK'
    BY <1>10, ControlOfOne DEF OpenFails, AfterSave, EndHook, Goto, ControlOK, HookRunning
  <2> QED
    BY <2>8, <2>9
<1>11. ASSUME NEW k \in Calls, WriteFails(k) PROVE Typed' /\ ControlOK'
  <2>8. Typed'
    <3>1. phase' \in [Calls -> Phases]
      BY <1>11 DEF WriteFails, WriteThrough, AfterSave, EndHook, Goto
    <3>2. step' \in [Calls -> Steps]
      BY <1>11 DEF WriteFails, WriteThrough, AfterSave, EndHook, Goto
    <3>3. held' \in [Calls -> State]
      BY <1>11, EmptyStateType DEF WriteFails, WriteThrough, AfterSave, EndHook, Goto
    <3>4. fd' \in [Calls -> {"none", "tmp", "file", "unlinked"}]
      BY <1>11 DEF WriteFails, WriteThrough, AfterSave, EndHook, Goto
    <3>5. file' \in Contents
      BY <1>11, ContentsFacts DEF WriteFails, WriteThrough, AfterSave, EndHook, Goto
    <3>6. tmp' \in Contents
      BY <1>11, ContentsFacts DEF WriteFails, WriteThrough, AfterSave, EndHook, Goto
    <3> QED
      BY <1>11, <3>1, <3>2, <3>3, <3>4, <3>5, <3>6 DEF WriteFails
  <2>9. ControlOK'
    BY <1>11, ControlOfOne DEF WriteFails, WriteThrough, AfterSave, EndHook, Goto, ControlOK, HookRunning
  <2> QED
    BY <2>8, <2>9
<1>12. ASSUME NEW k \in Calls, Crash(k) PROVE Typed' /\ ControlOK'
  <2>8. Typed'
    <3>1. phase' \in [Calls -> Phases]
      BY <1>12 DEF Crash, EndHook
    <3>2. step' \in [Calls -> Steps]
      BY <1>12 DEF Crash, EndHook
    <3>3. held' \in [Calls -> State]
      BY <1>12, EmptyStateType DEF Crash, EndHook
    <3>4. verdict' \in [Calls -> Verdicts]
      BY <1>12 DEF Crash, EndHook
    <3>5. fd' \in [Calls -> {"none", "tmp", "file", "unlinked"}]
      BY <1>12 DEF Crash, EndHook
    <3> QED
      BY <1>12, <3>1, <3>2, <3>3, <3>4, <3>5 DEF Crash
  <2>9. ControlOK'
    BY <1>12, ControlOfOne DEF Crash, EndHook, ControlOK, HookRunning
  <2> QED
    BY <2>8, <2>9
<1>13. CASE Tick
  BY <1>13 DEF Tick, ControlOK, HookRunning
<1>14. CASE UNCHANGED vars
  BY <1>14 DEF vars, ControlOK, HookRunning
<1> QED
  BY <1>1, <1>2, <1>3, <1>4, <1>5, <1>6, <1>7, <1>8, <1>9, <1>10, <1>11, <1>12, <1>13, <1>14
  DEF Next, HookStep, AllOver

\* Every variable keeps its type, and every call is at a step its phase has.
THEOREM TypeCorrect == Spec => []TypeOK
BY TypeInit, TypeNext, PTL DEF Spec

-----------------------------------------------------------------------------
(* Where the states in the files and in the processes come from *)

InUse == {file.state, tmp.state} \cup {held[k] : k \in Calls}

\* A state that some process or file had before the step, the empty one, or
\* what pruning or recording makes of a process's state.
Known(state) ==
    \/ state = EmptyState
    \/ state \in InUse
    \/ \E k \in Calls : state \in Prune(held[k], now)
    \/ \E k \in Calls : Record(k) /\ state \in RecordFailure(held[k], command[k], k, now)

\* Writing over a file leaves the text written or text that is no state.
LEMMA OverwriteState ==
    ASSUME NEW old, NEW state, NEW new \in Overwrite(old, Json(state))
    PROVE  new.state \in {state, EmptyState}
BY DEF Overwrite, Json, Garbled

\* No step makes up a state: what is in use after it is Known before it.
LEMMA StatesTraced ==
    ASSUME TypeOK, [Next]_vars
    PROVE  \A state \in InUse' : Known(state)
<1> DEFINE Traced == \A state \in InUse' : Known(state)
<1>0. held \in [Calls -> State]
  BY DEF TypeOK
<1> USE <1>0
<1>1. ASSUME NEW k \in Calls, StartPre(k) PROVE Traced
  <2>1. Known(file'.state) /\ Known(tmp'.state)
    BY <1>1 DEF StartPre, EndHook, Known, InUse, callVars, resultVars, historyVars
  <2>2. \A j \in Calls : Known(held'[j])
    BY <1>1 DEF StartPre, EndHook, Known, InUse, callVars, resultVars, historyVars
  <2> QED
    BY <2>1, <2>2 DEF InUse
<1>2. ASSUME NEW k \in Calls, Load(k) PROVE Traced
  <2>1. Known(file'.state) /\ Known(tmp'.state)
    BY <1>2 DEF Load, Goto, Known, InUse, callVars, resultVars, historyVars
  <2>2. \A j \in Calls : Known(held'[j])
    BY <1>2 DEF Load, Goto, Known, InUse, callVars, resultVars, historyVars
  <2> QED
    BY <2>1, <2>2 DEF InUse
<1>3. ASSUME NEW k \in Calls, PruneOnRead(k) PROVE Traced
  <2>1. Known(file'.state) /\ Known(tmp'.state)
    BY <1>3 DEF PruneOnRead, Goto, Known, InUse, callVars, resultVars, historyVars
  <2>2. \A j \in Calls : Known(held'[j])
    BY <1>3 DEF PruneOnRead, Goto, Known, InUse, callVars, resultVars, historyVars
  <2> QED
    BY <2>1, <2>2 DEF InUse
<1>4. ASSUME NEW k \in Calls, Record(k) PROVE Traced
  <2>1. Known(file'.state) /\ Known(tmp'.state)
    BY <1>4 DEF Record, Goto, Known, InUse, callVars, resultVars, historyVars
  <2>2. \A j \in Calls : Known(held'[j])
    BY <1>4 DEF Record, Goto, Known, InUse, callVars, resultVars, historyVars
  <2> QED
    BY <2>1, <2>2 DEF InUse
<1>5. ASSUME NEW k \in Calls, OpenTmp(k) PROVE Traced
  <2>1. Known(file'.state) /\ Known(tmp'.state)
    BY <1>5 DEF OpenTmp, Goto, Empty, Known, InUse, callVars, resultVars, historyVars
  <2>2. \A j \in Calls : Known(held'[j])
    BY <1>5 DEF OpenTmp, Goto, Empty, Known, InUse, callVars, resultVars, historyVars
  <2> QED
    BY <2>1, <2>2 DEF InUse
<1>6. ASSUME NEW k \in Calls, WriteTmp(k) PROVE Traced
  <2>1. Known(file'.state) /\ Known(tmp'.state)
    BY <1>6, OverwriteState DEF WriteTmp, WriteThrough, Goto, Known, InUse, callVars, resultVars, historyVars
  <2>2. \A j \in Calls : Known(held'[j])
    BY <1>6 DEF WriteTmp, WriteThrough, Goto, Known, InUse, callVars, resultVars, historyVars
  <2> QED
    BY <2>1, <2>2 DEF InUse
<1>7. ASSUME NEW k \in Calls, RenameTmp(k) PROVE Traced
  <2>1. Known(file'.state) /\ Known(tmp'.state)
    BY <1>7 DEF RenameTmp, AfterSave, EndHook, Goto, Absent, Known, InUse, callVars, resultVars, historyVars
  <2>2. \A j \in Calls : Known(held'[j])
    BY <1>7 DEF RenameTmp, AfterSave, EndHook, Goto, Absent, Known, InUse, callVars, resultVars, historyVars
  <2> QED
    BY <2>1, <2>2 DEF InUse
<1>8. ASSUME NEW k \in Calls, CheckLearned(k) PROVE Traced
  <2>1. Known(file'.state) /\ Known(tmp'.state)
    BY <1>8 DEF CheckLearned, EndHook, Known, InUse, callVars, resultVars, historyVars
  <2>2. \A j \in Calls : Known(held'[j])
    BY <1>8 DEF CheckLearned, EndHook, Known, InUse, callVars, resultVars, historyVars
  <2> QED
    BY <2>1, <2>2 DEF InUse
<1>9. ASSUME NEW k \in Calls, ToolEnds(k) PROVE Traced
  <2>1. Known(file'.state) /\ Known(tmp'.state)
    BY <1>9 DEF ToolEnds, Known, InUse, callVars, resultVars, historyVars
  <2>2. \A j \in Calls : Known(held'[j])
    BY <1>9 DEF ToolEnds, Known, InUse, callVars, resultVars, historyVars
  <2> QED
    BY <2>1, <2>2 DEF InUse
<1>10. ASSUME NEW k \in Calls, OpenFails(k) PROVE Traced
  <2>1. Known(file'.state) /\ Known(tmp'.state)
    BY <1>10 DEF OpenFails, AfterSave, EndHook, Goto, Known, InUse, callVars, resultVars, historyVars
  <2>2. \A j \in Calls : Known(held'[j])
    BY <1>10 DEF OpenFails, AfterSave, EndHook, Goto, Known, InUse, callVars, resultVars, historyVars
  <2> QED
    BY <2>1, <2>2 DEF InUse
<1>11. ASSUME NEW k \in Calls, WriteFails(k) PROVE Traced
  <2>1. Known(file'.state) /\ Known(tmp'.state)
    BY <1>11 DEF WriteFails, WriteThrough, AfterSave, EndHook, Goto, Garbled, Known, InUse, callVars, resultVars, historyVars
  <2>2. \A j \in Calls : Known(held'[j])
    BY <1>11 DEF WriteFails, WriteThrough, AfterSave, EndHook, Goto, Garbled, Known, InUse, callVars, resultVars, historyVars
  <2> QED
    BY <2>1, <2>2 DEF InUse
<1>12. ASSUME NEW k \in Calls, Crash(k) PROVE Traced
  <2>1. Known(file'.state) /\ Known(tmp'.state)
    BY <1>12 DEF Crash, EndHook, Known, InUse, callVars, resultVars, historyVars
  <2>2. \A j \in Calls : Known(held'[j])
    BY <1>12 DEF Crash, EndHook, Known, InUse, callVars, resultVars, historyVars
  <2> QED
    BY <2>1, <2>2 DEF InUse
<1>13. CASE Tick \/ UNCHANGED vars
  BY <1>13 DEF Tick, vars, InUse, Known
<1> QED
  BY <1>1, <1>2, <1>3, <1>4, <1>5, <1>6, <1>7, <1>8, <1>9, <1>10, <1>11, <1>12, <1>13
  DEF Next, HookStep, AllOver

-----------------------------------------------------------------------------
(* Learned denials are justified *)

\* Every timestamp of a state stands for a failure in F of the entry's command.
Genuine(state, F, commandOf) ==
    \A c \in Commands : state[c].timestamps \subseteq {f \in F : commandOf[f.call] = c}

\* The inductive invariant behind DenialJustified: no file and no process holds
\* a timestamp that is not a recorded failure of its command, and the exit
\* that was recorded is final.
EvidenceInv ==
    /\ \A state \in InUse : Genuine(state, failures, command)
    /\ \A k \in Calls : phase[k] = "post" => exit[k] \in {"failure", "signal"}
    /\ \A f \in failures : /\ phase[f.call] \in {"post", "over"}
                           /\ exit[f.call] \in {"failure", "signal"}
    /\ DenialJustified

\* No state is in use at the start, so there is nothing to account for.
LEMMA EvidenceInit == Init => EvidenceInv
BY EmptyStateType
DEF Init, EvidenceInv, InUse, Genuine, DenialJustified, EmptyState, NoEntry, Absent

\* Recording adds the failure of k, and nothing else ever adds a timestamp.
LEMMA StatesStayGenuine ==
    ASSUME TypeOK, EvidenceInv, [Next]_vars
    PROVE  \A state \in InUse' : Genuine(state, failures', command')
<1>1. command' = command /\ failures \subseteq failures'
  BY DEF Next, vars, StartPre, HookStep, Load, PruneOnRead, Record, OpenTmp, WriteTmp,
         RenameTmp, CheckLearned, ToolEnds, OpenFails, WriteFails, Crash, Tick, AllOver,
         callVars, historyVars
<1> SUFFICES ASSUME NEW state \in InUse' PROVE Genuine(state, failures', command)
  BY <1>1
<1>2. Known(state)
  BY StatesTraced
<1>3. \A k \in Calls : /\ held[k] \in State
                       /\ Genuine(held[k], failures, command)
  BY DEF TypeOK, EvidenceInv, InUse
<1>4. CASE state = EmptyState
  BY <1>4 DEF Genuine, EmptyState, NoEntry
<1>5. CASE state \in InUse
  BY <1>1, <1>5 DEF EvidenceInv, Genuine
<1>6. ASSUME NEW k \in Calls, state \in Prune(held[k], now)
      PROVE  Genuine(state, failures', command)
  <2>1. \A c \in Commands : state[c].timestamps \subseteq held[k][c].timestamps
    BY <1>3, <1>6, PruneShrinks DEF TypeOK
  <2> QED
    BY <1>1, <1>3, <2>1 DEF Genuine
<1>7. ASSUME NEW k \in Calls, Record(k), state \in RecordFailure(held[k], command[k], k, now)
      PROVE  Genuine(state, failures', command)
  <2> DEFINE new == [at |-> now, call |-> k]
  <2>1. command[k] \in Commands
    BY DEF TypeOK
  <2>2. /\ state[command[k]].timestamps \subseteq held[k][command[k]].timestamps \cup {new}
        /\ \A c \in Commands \ {command[k]} : state[c].timestamps \subseteq held[k][c].timestamps
    BY <1>3, <1>7, <2>1, RecordFailureAdds DEF TypeOK
  <2>3. new \in failures'
    BY <1>7 DEF Record
  <2>4. \A c \in Commands : held[k][c].timestamps \subseteq {f \in failures' : command[f.call] = c}
    BY <1>1, <1>3 DEF Genuine
  <2>5. new \in {f \in failures' : command[f.call] = command[k]}
    BY <2>3
  <2> HIDE DEF new
  <2> QED
    BY <2>1, <2>2, <2>4, <2>5 DEF Genuine
<1> QED
  BY <1>2, <1>4, <1>5, <1>6, <1>7 DEF Known

\* What a recordable end means, and that no recorded exit changes again.
LEMMA ExitsStayFinal ==
    ASSUME TypeOK, EvidenceInv, [Next]_vars
    PROVE  /\ \A k \in Calls : phase'[k] = "post" => exit'[k] \in {"failure", "signal"}
           /\ \A f \in failures' : /\ phase'[f.call] \in {"post", "over"}
                                   /\ exit'[f.call] \in {"failure", "signal"}
           /\ \A f \in failures : exit'[f.call] = exit[f.call]
<1> DEFINE Final ==
        /\ \A k \in Calls : phase'[k] = "post" => exit'[k] \in {"failure", "signal"}
        /\ \A f \in failures' : /\ phase'[f.call] \in {"post", "over"}
                                /\ exit'[f.call] \in {"failure", "signal"}
        /\ \A f \in failures : exit'[f.call] = exit[f.call]
<1>0. /\ phase \in [Calls -> Phases] /\ exit \in [Calls -> Exits]
      /\ \A f \in failures : f.call \in Calls
      /\ \A k \in Calls : phase[k] = "post" => exit[k] \in {"failure", "signal"}
      /\ \A f \in failures : /\ phase[f.call] \in {"post", "over"}
                             /\ exit[f.call] \in {"failure", "signal"}
  BY DEF TypeOK, EvidenceInv, Stamp
<1> USE <1>0 DEF callVars, resultVars, historyVars
<1>1. ASSUME NEW k \in Calls, StartPre(k) PROVE Final
  BY <1>1 DEF StartPre, EndHook
<1>2. ASSUME NEW k \in Calls, Load(k) \/ PruneOnRead(k) \/ OpenTmp(k) \/ WriteTmp(k) PROVE Final
  BY <1>2 DEF Load, PruneOnRead, OpenTmp, WriteTmp, Goto
<1>3. ASSUME NEW k \in Calls, Record(k) PROVE Final
  BY <1>3 DEF Record, Goto
<1>4. ASSUME NEW k \in Calls, RenameTmp(k) PROVE Final
  BY <1>4 DEF RenameTmp, AfterSave, EndHook, Goto, HookRunning
<1>5. ASSUME NEW k \in Calls, CheckLearned(k) PROVE Final
  BY <1>5 DEF CheckLearned, EndHook
<1>6. ASSUME NEW k \in Calls, ToolEnds(k) PROVE Final
  BY <1>6 DEF ToolEnds, Recordable, PostRecords, ObserverRecords
<1>7. ASSUME NEW k \in Calls, OpenFails(k) \/ WriteFails(k) PROVE Final
  BY <1>7 DEF OpenFails, WriteFails, AfterSave, EndHook, Goto, HookRunning
<1>8. ASSUME NEW k \in Calls, Crash(k) PROVE Final
  BY <1>8 DEF Crash, EndHook, HookRunning
<1>9. CASE Tick \/ UNCHANGED vars
  BY <1>9 DEF Tick, vars
<1> QED
  BY <1>1, <1>2, <1>3, <1>4, <1>5, <1>6, <1>7, <1>8, <1>9 DEF Next, HookStep, AllOver

\* The failures of a command, and those found before a time, only become more.
LEMMA FailuresGrow ==
    ASSUME TypeOK, EvidenceInv, [Next]_vars, NEW k \in Calls, NEW t \in Time
    PROVE  /\ FailuresOf(k) \subseteq FailuresOf(k)'
           /\ FailuresBefore(k, t) \subseteq FailuresBefore(k, t)'
           /\ Cardinality(FailuresOf(k)) \in Nat
           /\ Cardinality(FailuresOf(k)') \in Nat
           /\ Cardinality(FailuresOf(k)) <= Cardinality(FailuresOf(k)')
           /\ Cardinality(FailuresBefore(k, t)) \in Nat
           /\ Cardinality(FailuresBefore(k, t)') \in Nat
           /\ Cardinality(FailuresBefore(k, t)) <= Cardinality(FailuresBefore(k, t)')
<1>1. command' = command /\ failures \subseteq failures'
  BY DEF Next, vars, StartPre, HookStep, Load, PruneOnRead, Record, OpenTmp, WriteTmp,
         RenameTmp, CheckLearned, ToolEnds, OpenFails, WriteFails, Crash, Tick, AllOver,
         callVars, historyVars
<1>2. FailuresOf(k) \subseteq FailuresOf(k)'
  BY <1>1, ExitsStayFinal DEF FailuresOf
<1>3. FailuresBefore(k, t) \subseteq FailuresBefore(k, t)'
  BY <1>2 DEF FailuresBefore
<1>4. failures \in SUBSET Stamp /\ failures' \in SUBSET Stamp
  BY TypeNext DEF TypeOK
<1>5. FailuresOf(k) \in SUBSET Stamp /\ FailuresOf(k)' \in SUBSET Stamp
  BY <1>4 DEF FailuresOf
<1>6. FailuresBefore(k, t) \in SUBSET Stamp /\ FailuresBefore(k, t)' \in SUBSET Stamp
  BY <1>5 DEF FailuresBefore
<1>7. /\ IsFiniteSet(FailuresOf(k)')
      /\ Cardinality(FailuresOf(k)) \in Nat
      /\ Cardinality(FailuresOf(k)') \in Nat
  BY <1>5, StampsFinite
<1>8. /\ IsFiniteSet(FailuresBefore(k, t)')
      /\ Cardinality(FailuresBefore(k, t)) \in Nat
      /\ Cardinality(FailuresBefore(k, t)') \in Nat
  BY <1>6, StampsFinite
<1> QED
  BY <1>2, <1>3, <1>7, <1>8, FS_Subset

\* The timestamps a denial rests on are failures FailuresBefore counts, and the
\* ones its message counts are failures of the command.
LEMMA DenialRestsOnFailures ==
    ASSUME TypeOK, EvidenceInv, NEW k \in Calls, Learned(held[k], command[k], now)
    PROVE  /\ Cardinality(FailuresBefore(k, now)) >= Threshold
           /\ ReportedCount(held[k], command[k]) \in Threshold..Cardinality(FailuresOf(k))
<1> DEFINE stamps == held[k][command[k]].timestamps
           recent == Recent(stamps, now)
<1>1. command[k] \in Commands /\ held[k] \in InUse /\ failures \in SUBSET Stamp
  BY DEF TypeOK, InUse
<1>2. stamps \subseteq FailuresOf(k)
  BY <1>1 DEF EvidenceInv, Genuine, FailuresOf
<1>3. recent \subseteq stamps /\ recent \subseteq FailuresBefore(k, now)
  BY <1>2 DEF Recent, FailuresBefore
<1>4. FailuresOf(k) \in SUBSET Stamp /\ FailuresBefore(k, now) \in SUBSET Stamp
  BY <1>1 DEF FailuresOf, FailuresBefore
<1>5. /\ IsFiniteSet(FailuresOf(k)) /\ Cardinality(FailuresOf(k)) \in Nat
      /\ IsFiniteSet(FailuresBefore(k, now)) /\ Cardinality(FailuresBefore(k, now)) \in Nat
  BY <1>4, StampsFinite
<1>6. recent \in SUBSET Stamp /\ stamps \in SUBSET Stamp
  BY <1>2, <1>3, <1>4
<1>7. IsFiniteSet(stamps) /\ Cardinality(recent) \in Nat /\ Cardinality(stamps) \in Nat
  BY <1>6, StampsFinite
<1>8. Cardinality(recent) <= Cardinality(FailuresBefore(k, now))
  BY <1>3, <1>5, FS_Subset
<1>9. Cardinality(recent) <= Cardinality(stamps) /\ Cardinality(stamps) <= Cardinality(FailuresOf(k))
  BY <1>2, <1>3, <1>5, <1>7, FS_Subset
<1>10. Cardinality(recent) >= Threshold
  BY DEF Learned
<1>11. ReportedCount(held[k], command[k]) = Cardinality(stamps)
  BY DEF ReportedCount
<1> HIDE DEF stamps, recent
<1> QED
  BY <1>5, <1>7, <1>8, <1>9, <1>10, <1>11, PolicyAssumption

\* A denial given in this step, or in an earlier one, has its failures.
LEMMA JustifiedNext == TypeOK /\ EvidenceInv /\ [Next]_vars => DenialJustified'
<1> SUFFICES ASSUME TypeOK, EvidenceInv, [Next]_vars, NEW k \in Calls, verdict'[k] = "learned"
             PROVE  /\ Cardinality(FailuresBefore(k, denial[k].at)') >= Threshold
                    /\ denial'[k].count \in Threshold..Cardinality(FailuresOf(k)')
  BY DEF DenialJustified
<1>0. PICK t \in Time : t = denial'[k].at
  BY TypeNext DEF TypeOK
<1>a. denial'[k].count \in Nat
  BY TypeNext DEF TypeOK
<1> SUFFICES /\ Cardinality(FailuresBefore(k, t)') >= Threshold
             /\ denial'[k].count \in Threshold..Cardinality(FailuresOf(k)')
  <2>1. FailuresBefore(k, denial[k].at)' = FailuresBefore(k, t)'
    BY <1>0 DEF FailuresBefore
  <2> QED
    BY <2>1
<1>1. \/ verdict[k] = "learned" /\ denial'[k] = denial[k]
      \/ /\ Learned(held[k], command[k], now)
         /\ denial'[k] = [at |-> now, count |-> ReportedCount(held[k], command[k])]
  BY DEF TypeOK, Next, vars, StartPre, HookStep, Load, PruneOnRead, Record, OpenTmp, WriteTmp,
         RenameTmp, CheckLearned, ToolEnds, OpenFails, WriteFails, Crash, Tick, AllOver, resultVars
<1>2. /\ Cardinality(FailuresBefore(k, t)) >= Threshold
      /\ denial'[k].count \in Threshold..Cardinality(FailuresOf(k))
  <2>1. CASE verdict[k] = "learned" /\ denial'[k] = denial[k]
    BY <1>0, <2>1 DEF EvidenceInv, DenialJustified
  <2>2. CASE /\ Learned(held[k], command[k], now)
             /\ denial'[k] = [at |-> now, count |-> ReportedCount(held[k], command[k])]
    <3>1. denial'[k].at = now /\ denial'[k].count = ReportedCount(held[k], command[k])
      BY <2>2
    <3> QED
      BY <1>0, <2>2, <3>1, DenialRestsOnFailures
  <2> QED
    BY <1>1, <2>1, <2>2
<1> QED
  BY <1>a, <1>2, FailuresGrow, PolicyAssumption

\* Every step keeps the evidence: its states, exits and denials.
LEMMA EvidenceNext == TypeOK /\ EvidenceInv /\ [Next]_vars => EvidenceInv'
<1> SUFFICES ASSUME TypeOK, EvidenceInv, [Next]_vars PROVE EvidenceInv'
  OBVIOUS
<1>1. \A state \in InUse' : Genuine(state, failures', command')
  BY StatesStayGenuine
<1>2. /\ \A k \in Calls : phase'[k] = "post" => exit'[k] \in {"failure", "signal"}
      /\ \A f \in failures' : /\ phase'[f.call] \in {"post", "over"}
                              /\ exit'[f.call] \in {"failure", "signal"}
  BY ExitsStayFinal
<1>3. DenialJustified'
  BY JustifiedNext
<1> QED
  BY <1>1, <1>2, <1>3 DEF EvidenceInv

\* A learned denial always rests on Threshold real failures of the command in
\* the window, and counts only real ones, for all numbers of calls, all configurations and with every
\* interleaving, lost update, torn file and crash the model has.
THEOREM LearnedDenialsJustified == Spec => []DenialJustified
<1>1. EvidenceInv => DenialJustified
  BY DEF EvidenceInv
<1> QED
  BY <1>1, EvidenceInit, EvidenceNext, TypeCorrect, PTL DEF Spec

-----------------------------------------------------------------------------
(* The stored state stays bounded *)

\* The inductive invariant behind StoredStateBounded: it is the same for every
\* state in use, because any process may save what it holds at any time.
BoundedInv == \A state \in InUse : Bounded(state) /\ Latest(state, now)

\* A memory without entries is bounded.
LEMMA EmptyStateBounded ==
    ASSUME NEW t
    PROVE  Bounded(EmptyState) /\ Latest(EmptyState, t)
<1>1. Tracked(EmptyState) = {}
  BY DEF Tracked, EmptyState, NoEntry
<1> QED
  BY <1>1, FS_EmptySet, PolicyAssumption DEF Bounded, Latest

\* The initial states hold nothing but the empty memory.
LEMMA BoundedInit == Init => BoundedInv
<1> SUFFICES ASSUME Init, NEW state \in InUse PROVE state = EmptyState
  BY EmptyStateBounded DEF BoundedInv
<1> QED
  BY DEF Init, InUse, Absent

\* Every step keeps every state in use bounded, or still to be pruned.
LEMMA BoundedNext == TypeOK /\ BoundedInv /\ [Next]_vars => BoundedInv'
<1> SUFFICES ASSUME TypeOK, BoundedInv, [Next]_vars, NEW state \in InUse'
             PROVE  Bounded(state) /\ Latest(state, now')
  BY DEF BoundedInv
<1>1. now \in Time /\ now' \in Time /\ now <= now'
  <2>1. now \in Time /\ now' \in Time
    BY TypeNext DEF TypeOK
  <2>2. now' = now \/ now' > now
    BY DEF Next, vars, StartPre, HookStep, Load, PruneOnRead, Record, OpenTmp, WriteTmp,
           RenameTmp, CheckLearned, ToolEnds, OpenFails, WriteFails, Crash, Tick, AllOver
  <2> QED
    BY <2>1, <2>2, PolicyAssumption DEF Time
<1>2. state \in State
  BY TypeNext, ContentsFacts DEF TypeOK, InUse
<1>3. ASSUME Bounded(state), Latest(state, now) PROVE Bounded(state) /\ Latest(state, now')
  <2> SUFFICES ASSUME NEW c \in Tracked(state) PROVE state[c].last_seen <= now'
    BY <1>3 DEF Latest
  <2>1. state[c].last_seen \in Int /\ state[c].last_seen <= now
    BY <1>2, <1>3, PolicyAssumption DEF Latest, Tracked, State, Entry, Time
  <2> QED
    BY <1>1, <2>1, PolicyAssumption DEF Time
<1>4. \A k \in Calls : held[k] \in State /\ Latest(held[k], now)
  BY DEF TypeOK, BoundedInv, InUse
<1>5. Known(state)
  BY StatesTraced
<1>6. CASE state = EmptyState
  BY <1>6, EmptyStateBounded
<1>7. CASE state \in InUse
  BY <1>3, <1>7 DEF BoundedInv
<1>8. ASSUME NEW k \in Calls, state \in Prune(held[k], now)
      PROVE  Bounded(state) /\ Latest(state, now)
  BY <1>1, <1>4, <1>8, PruneBounds
<1>9. ASSUME NEW k \in Calls, state \in RecordFailure(held[k], command[k], k, now)
      PROVE  Bounded(state) /\ Latest(state, now)
  <2> DEFINE pushed == Push(held[k], command[k], k, now)
  <2>1. command[k] \in Commands
    BY DEF TypeOK
  <2>2. pushed \in State /\ Latest(pushed, now)
    BY <1>1, <1>4, <2>1, PushAdds, PushLatest
  <2>3. state \in Prune(pushed, now)
    BY <1>9 DEF RecordFailure
  <2> HIDE DEF pushed
  <2> QED
    BY <1>1, <2>2, <2>3, PruneBounds
<1> QED
  BY <1>3, <1>5, <1>6, <1>7, <1>8, <1>9 DEF Known

\* Whatever processes overlap or fail, the state file never holds more than
\* max_tracked_commands entries, nor an entry wider than the window.
THEOREM StoredStateAlwaysBounded == Spec => []StoredStateBounded
<1>1. BoundedInv => StoredStateBounded
  BY DEF BoundedInv, StoredStateBounded, InUse
<1> QED
  BY <1>1, BoundedInit, BoundedNext, TypeCorrect, PTL DEF Spec

-----------------------------------------------------------------------------
(* Without overlap: the state file *)

\* One hook process at a time; its temporary file is as it left it.
SerialInv ==
    /\ \A j, k \in Calls : HookRunning(j) /\ HookRunning(k) => j = k
    /\ file.kind \in {"absent", "json"}
    /\ \A k \in Calls :
          /\ fd[k] \in {"none", "tmp"}
          /\ step[k] = "write" => fd[k] = "tmp" /\ tmp = Empty
          /\ step[k] = "rename" => tmp = Json(held[k])

LEMMA SerialInit == Init => SerialInv
BY DEF Init, SerialInv, HookRunning, Absent

\* Only the hook process that runs goes on, and none starts meanwhile.
LEMMA SerialNext ==
    ASSUME ~Overlap, TypeOK, SerialInv, [Next]_vars
    PROVE  SerialInv'
<1>0. /\ step \in [Calls -> Steps] /\ phase \in [Calls -> Phases] /\ held \in [Calls -> State]
      /\ fd \in [Calls -> {"none", "tmp", "file", "unlinked"}]
      /\ \A k \in Calls : /\ HookRunning(k) <=> step[k] # "none"
                          /\ fd[k] # "none" => step[k] = "write"
  BY DEF TypeOK, ControlOK
<1> USE <1>0
<1>1. ASSUME NEW k \in Calls, StartPre(k) PROVE SerialInv'
  <2>1. \A j \in Calls : ~HookRunning(j) /\ step[j] = "none" /\ fd[j] = "none"
    BY <1>1 DEF StartPre, MayStartHook
  <2>2. /\ \A j \in Calls : j # k => phase'[j] = phase[j] /\ step'[j] = step[j]
        /\ step'[k] \in {"none", "load"} /\ UNCHANGED <<file, tmp, fd>>
    BY <1>1 DEF StartPre, EndHook
  <2> QED
    BY <2>1, <2>2 DEF SerialInv, HookRunning
<1>2. ASSUME NEW k \in Calls, ToolEnds(k) PROVE SerialInv'
  <2>1. \A j \in Calls : ~HookRunning(j) /\ step[j] = "none" /\ fd[j] = "none"
    BY <1>2 DEF ToolEnds, MayStartHook
  <2>2. /\ \A j \in Calls : j # k => phase'[j] = phase[j] /\ step'[j] = step[j]
        /\ step'[k] \in {"none", "load"} /\ UNCHANGED <<file, tmp, fd>>
    BY <1>2, <2>1 DEF ToolEnds
  <2> QED
    BY <2>1, <2>2 DEF SerialInv, HookRunning
<1>3. ASSUME NEW k \in Calls, Load(k) \/ PruneOnRead(k) \/ Record(k) PROVE SerialInv'
  <2>1. /\ HookRunning(k) /\ phase' = phase /\ UNCHANGED <<file, tmp, fd>>
        /\ \A j \in Calls : j # k => step'[j] = step[j] /\ held'[j] = held[j]
        /\ step'[k] \in {"update", "open", "check"}
    BY <1>3 DEF Load, PruneOnRead, Record, Goto, AfterLoad, HookRunning
  <2> QED
    BY <2>1 DEF SerialInv, HookRunning
<1>4. ASSUME NEW k \in Calls, OpenTmp(k) PROVE SerialInv'
  <2>1. /\ HookRunning(k) /\ phase' = phase /\ UNCHANGED <<file, held>>
        /\ \A j \in Calls : j # k => step'[j] = step[j] /\ fd'[j] = fd[j]
        /\ step'[k] = "write" /\ fd'[k] = "tmp" /\ tmp' = Empty
    BY <1>4 DEF OpenTmp, Goto
  <2>2. \A j \in Calls : j # k => step[j] = "none"
    BY <2>1 DEF SerialInv
  <2> QED
    BY <2>1, <2>2 DEF SerialInv, HookRunning
<1>5. ASSUME NEW k \in Calls, WriteTmp(k) PROVE SerialInv'
  <2>1. /\ HookRunning(k) /\ phase' = phase /\ UNCHANGED held /\ step[k] = "write"
        /\ \A j \in Calls : j # k => step'[j] = step[j] /\ fd'[j] = fd[j]
        /\ step'[k] = "rename" /\ fd'[k] = "none"
    BY <1>5 DEF WriteTmp, WriteThrough, Goto
  <2>2. fd[k] = "tmp" /\ tmp = Empty
    BY <2>1 DEF SerialInv
  <2>3. tmp' = Json(held[k]) /\ file' = file
    BY <1>5, <2>2 DEF WriteTmp, WriteThrough, Overwrite, Empty
  <2>4. \A j \in Calls : j # k => step[j] = "none"
    BY <2>1 DEF SerialInv
  <2> QED
    BY <2>1, <2>3, <2>4 DEF SerialInv, HookRunning
<1>6. ASSUME NEW k \in Calls, RenameTmp(k) PROVE SerialInv'
  <2>1. HookRunning(k) /\ step[k] = "rename" /\ tmp = Json(held[k])
    BY <1>6 DEF RenameTmp, SerialInv
  <2>2. \A j \in Calls : (j # k => step[j] = "none") /\ fd[j] = "none"
    BY <2>1 DEF SerialInv
  <2>3. file' = tmp /\ \A j \in Calls : fd'[j] = "none"
    BY <1>6, <2>1, <2>2 DEF RenameTmp, Json
  <2>4. /\ \A j \in Calls : j # k => step'[j] = step[j] /\ phase'[j] = phase[j]
        /\ step'[k] \in {"check", "none"}
    BY <1>6 DEF RenameTmp, AfterSave, Goto, EndHook
  <2> QED
    BY <2>1, <2>2, <2>3, <2>4 DEF SerialInv, HookRunning, Json
<1>7. ASSUME NEW k \in Calls, OpenFails(k) \/ CheckLearned(k) PROVE SerialInv'
  <2>1. /\ HookRunning(k) /\ UNCHANGED <<file, tmp, fd>>
        /\ \A j \in Calls : j # k => step'[j] = step[j] /\ phase'[j] = phase[j]
        /\ step'[k] \in {"check", "none"}
    BY <1>7 DEF OpenFails, CheckLearned, AfterSave, Goto, EndHook, HookRunning
  <2>2. \A j \in Calls : j # k => step[j] = "none"
    BY <2>1 DEF SerialInv
  <2> QED
    BY <2>1, <2>2 DEF SerialInv, HookRunning
<1>8. ASSUME NEW k \in Calls, WriteFails(k) PROVE SerialInv'
  <2>1. /\ HookRunning(k) /\ step[k] = "write"
        /\ \A j \in Calls : j # k => /\ step'[j] = step[j] /\ phase'[j] = phase[j]
                                     /\ fd'[j] = fd[j]
        /\ step'[k] \in {"check", "none"} /\ fd'[k] = "none"
    BY <1>8 DEF WriteFails, WriteThrough, AfterSave, Goto, EndHook
  <2>2. file' = file
    BY <1>8, <2>1 DEF WriteFails, WriteThrough, SerialInv
  <2>3. \A j \in Calls : j # k => step[j] = "none"
    BY <2>1 DEF SerialInv
  <2> QED
    BY <2>1, <2>2, <2>3 DEF SerialInv, HookRunning
<1>9. ASSUME NEW k \in Calls, Crash(k) PROVE SerialInv'
  <2>1. /\ HookRunning(k) /\ UNCHANGED <<file, tmp>>
        /\ \A j \in Calls : j # k => /\ step'[j] = step[j] /\ phase'[j] = phase[j]
                                     /\ fd'[j] = fd[j]
        /\ step'[k] = "none" /\ fd'[k] = "none"
    BY <1>9 DEF Crash, EndHook
  <2>2. \A j \in Calls : j # k => step[j] = "none"
    BY <2>1 DEF SerialInv
  <2> QED
    BY <2>1, <2>2 DEF SerialInv, HookRunning
<1>10. CASE Tick \/ UNCHANGED vars
  BY <1>10 DEF Tick, vars, SerialInv, HookRunning
<1> QED
  BY <1>1, <1>2, <1>3, <1>4, <1>5, <1>6, <1>7, <1>8, <1>9, <1>10
  DEF Next, HookStep, AllOver

\* save_to "atomically" saves when hook processes do not overlap: whatever is
\* cut off, the state file is missing or a whole JSON text at every moment.
THEOREM SerialFileNeverTorn ==
    ASSUME ~Overlap
    PROVE  Spec => []FileNeverTorn
<1>1. SerialInv => FileNeverTorn
  BY DEF SerialInv, FileNeverTorn
<1>2. TypeOK /\ SerialInv /\ [Next]_vars => SerialInv'
  BY SerialNext
<1> QED
  BY <1>1, <1>2, SerialInit, TypeCorrect, PTL DEF Spec

-----------------------------------------------------------------------------
(* Without overlap: repeated failures are denied *)

\* The memory has room for every command, and forgets no failure early.
Roomy == Enabled /\ Cleanup >= Window /\ MaxTracked >= Cardinality(Commands)

\* A roomy memory keeps every timestamp of the last Window seconds.
LEMMA PruneKeeps ==
    ASSUME Roomy, NEW state \in State, NEW t \in Time, Latest(state, t),
           NEW pruned \in Prune(state, t), NEW c \in Commands,
           NEW s \in state[c].timestamps, SaturatingSub(t, s.at) <= Window
    PROVE  s \in pruned[c].timestamps
<1> DEFINE aged == DropAged(state, t)
<1>1. /\ state[c] \in Entry /\ c \in Tracked(state)
  BY DEF State, Tracked
<1>2. /\ t \in Int /\ state[c].last_seen \in Int /\ s.at \in Int
      /\ state[c].last_seen <= t /\ s.at <= state[c].last_seen
  BY <1>1 DEF Entry, Stamp, Time, Latest
<1>3. t - state[c].last_seen <= Cleanup
  <2>1. t - s.at <= Window
    BY <1>2, PolicyAssumption DEF SaturatingSub
  <2> QED
    BY <1>2, <2>1, PolicyAssumption DEF Roomy
<1>4. s \in Recent(state[c].timestamps, t)
  BY DEF Recent
<1>5. s \in aged[c].timestamps
  BY <1>1, <1>2, <1>3, <1>4, PolicyAssumption DEF DropAged, Entry
<1>6. PICK V \in Evictions(aged) : pruned = Evict(aged, V)
  BY DEF Prune
<1> HIDE DEF aged
<1>7. V = {}
  <2>1. V \subseteq Tracked(aged)
        /\ Cardinality(V) = SaturatingSub(Cardinality(Tracked(aged)), MaxTracked)
    BY <1>6 DEF Evictions
  <2>2. IsFiniteSet(Tracked(aged)) /\ Cardinality(Tracked(aged)) \in Nat
    BY TrackedFinite
  <2>3. Cardinality(Tracked(aged)) <= Cardinality(Commands) /\ Cardinality(Commands) \in Nat
    <3>1. Tracked(aged) \subseteq Commands
      BY DEF Tracked
    <3> QED
      BY <3>1, PolicyAssumption, FS_Subset, FS_CardinalityType
  <2>4. Cardinality(V) = 0
    BY <2>1, <2>2, <2>3, PolicyAssumption DEF Roomy, SaturatingSub
  <2>5. IsFiniteSet(V)
    BY <2>1, <2>2, FS_Subset
  <2> QED
    BY <2>4, <2>5, FS_EmptySet
<1> QED
  BY <1>5, <1>6, <1>7 DEF Evict

\* What is recorded is kept, and the failure that is being recorded.
LEMMA RecordKeeps ==
    ASSUME Roomy, NEW state \in State, NEW t \in Time, Latest(state, t),
           NEW cmd \in Commands, NEW call \in Calls,
           NEW result \in RecordFailure(state, cmd, call, t)
    PROVE  /\ [at |-> t, call |-> call] \in result[cmd].timestamps
           /\ \A c \in Commands : \A s \in state[c].timestamps :
                 SaturatingSub(t, s.at) <= Window => s \in result[c].timestamps
<1> DEFINE pushed == Push(state, cmd, call, t)
           new == [at |-> t, call |-> call]
<1>1. /\ pushed \in State /\ Latest(pushed, t)
      /\ pushed[cmd].timestamps = state[cmd].timestamps \cup {new}
      /\ \A c \in Commands \ {cmd} : pushed[c] = state[c]
  BY PushAdds, PushLatest
<1>2. result \in Prune(pushed, t)
  BY DEF RecordFailure
<1> HIDE DEF pushed
<1>3. SaturatingSub(t, new.at) <= Window
  BY PolicyAssumption DEF SaturatingSub, Time
<1>4. new \in result[cmd].timestamps
  <2>1. new \in pushed[cmd].timestamps
    BY <1>1
  <2> HIDE DEF new
  <2> QED
    BY <1>1, <1>2, <1>3, <2>1, PruneKeeps
<1>5. ASSUME NEW c \in Commands, NEW s \in state[c].timestamps, SaturatingSub(t, s.at) <= Window
      PROVE  s \in result[c].timestamps
  <2>1. s \in pushed[c].timestamps
    BY <1>1
  <2> QED
    BY <1>1, <1>2, <1>5, <2>1, PruneKeeps
<1> QED
  BY <1>4, <1>5

\* The failures of the calls in K that are within the window.
Due(K) == {f \in failures : f.call \in K /\ SaturatingSub(now, f.at) <= Window}

Keeps(state, K) == \A f \in Due(K) : f \in state[command[f.call]].timestamps

\* The calls whose failure k's process is saving.
Saving(k) == IF phase[k] = "post" THEN {k} ELSE {}

\* No failure that was saved is lost from the file, nor by a process that
\* loaded it; and a failure belongs to a call that is over or being saved.
KeptInv ==
    /\ Keeps(file.state, saved)
    /\ \A k \in Calls :
          /\ step[k] \in {"update", "check"} => Keeps(held[k], saved)
          /\ step[k] \in {"open", "write", "rename"} => Keeps(held[k], saved \cup Saving(k))
    /\ \A f \in failures :
          \/ phase[f.call] = "over"
          \/ phase[f.call] = "post" /\ step[f.call] \in {"open", "write", "rename"}
    /\ \A k \in saved : phase[k] = "over"

LEMMA KeptInit == Init => KeptInv
BY DEF Init, KeptInv, Keeps, Due

\* A step that records and saves nothing, of a process that goes on with what
\* it had; the clock may advance.
LEMMA KeepsOn ==
    ASSUME TypeOK, now' \in Time, now <= now', failures' = failures, command' = command,
           NEW state, NEW K, Keeps(state, K)
    PROVE  \A L \in SUBSET K : \A d \in Due(L)' : d \in state[command'[d.call]].timestamps
<1>1. \A f \in failures : f.at \in Int
  BY DEF TypeOK, Stamp, Time
<1>2. \A f \in failures : SaturatingSub(now', f.at) <= Window => SaturatingSub(now, f.at) <= Window
  BY <1>1, PolicyAssumption DEF TypeOK, Time, SaturatingSub
<1>3. \A L \in SUBSET K : Due(L)' \subseteq Due(K)
  BY <1>2 DEF Due
<1> QED
  BY <1>3 DEF Keeps

\* A step of the one process that runs, which records nothing, and keeps its
\* share of what was saved.
KeepsItsShare(k) ==
    /\ UNCHANGED <<now, failures, command>>
    /\ \A j \in Calls : j # k => /\ step[j] = "none" /\ step'[j] = "none"
                                 /\ phase'[j] = phase[j]
    /\ Keeps(file'.state, saved')
    /\ step'[k] \in {"update", "check"} => Keeps(held'[k], saved')
    /\ step'[k] \in {"open", "write", "rename"} =>
           Keeps(held'[k], saved' \cup IF phase'[k] = "post" THEN {k} ELSE {})
    /\ \A f \in failures : f.call = k =>
           \/ phase'[k] = "over"
           \/ phase'[k] = "post" /\ step'[k] \in {"open", "write", "rename"}
    /\ \A j \in saved' : IF j = k THEN phase'[k] = "over" ELSE j \in saved

LEMMA KeptStep ==
    ASSUME TypeOK, KeptInv, NEW k \in Calls, saved' \in SUBSET Calls, KeepsItsShare(k)
    PROVE  KeptInv'
<1> USE DEF KeepsItsShare
<1>1. Keeps(file.state, saved)'
  BY DEF Keeps, Due
<1>2. ASSUME NEW j \in Calls
      PROVE  /\ step'[j] \in {"update", "check"} => Keeps(held[j], saved)'
             /\ step'[j] \in {"open", "write", "rename"} => Keeps(held[j], saved \cup Saving(j))'
  <2>1. CASE j = k
    BY <2>1 DEF Keeps, Due, Saving
  <2>2. CASE j # k
    BY <2>2
  <2> QED
    BY <2>1, <2>2
<1>3. ASSUME NEW f \in failures'
      PROVE  \/ phase'[f.call] = "over"
             \/ phase'[f.call] = "post" /\ step'[f.call] \in {"open", "write", "rename"}
  <2>1. f \in failures /\ f.call \in Calls
    BY DEF TypeOK, Stamp
  <2>2. CASE f.call = k
    BY <2>1, <2>2
  <2>3. CASE f.call # k
    BY <2>1, <2>3 DEF KeptInv
  <2> QED
    BY <2>2, <2>3
<1>4. \A j \in saved' : phase'[j] = "over"
  BY DEF KeptInv
<1> QED
  BY <1>1, <1>2, <1>3, <1>4 DEF KeptInv

LEMMA KeptNext ==
    ASSUME ~Overlap, Roomy, TypeOK, SerialInv, BoundedInv, KeptInv, [Next]_vars
    PROVE  KeptInv'
<1>0. /\ step \in [Calls -> Steps] /\ phase \in [Calls -> Phases] /\ held \in [Calls -> State]
      /\ saved \in SUBSET Calls /\ saved' \in SUBSET Calls
      /\ now \in Time /\ failures \in SUBSET Stamp /\ command \in [Calls -> Commands]
      /\ \A k \in Calls : HookRunning(k) <=> step[k] # "none"
      /\ \A k \in Calls : Latest(held[k], now)
  BY TypeNext DEF TypeOK, ControlOK, BoundedInv, InUse
<1>1. ASSUME NEW k \in Calls, HookRunning(k)
      PROVE  /\ step[k] # "none" /\ k \notin saved /\ phase[k] # "over"
             /\ \A j \in Calls : j # k => step[j] = "none"
  BY <1>0, <1>1 DEF SerialInv, HookRunning, KeptInv
<1>2. ASSUME NEW k \in Calls, StartPre(k) \/ ToolEnds(k) PROVE KeptInv'
  <2>1. /\ \A j \in Calls : step[j] = "none"
        /\ phase[k] \in {"idle", "tool"} /\ step'[k] \in {"none", "load"}
        /\ UNCHANGED <<now, failures, command, file, saved>>
        /\ \A j \in Calls : j # k => step'[j] = step[j] /\ phase'[j] = phase[j]
    BY <1>0, <1>2 DEF StartPre, ToolEnds, MayStartHook, EndHook, callVars, historyVars
  <2>2. \A f \in failures : f.call # k
    BY <2>1 DEF KeptInv
  <2>3. Keeps(file.state, saved) /\ k \notin saved
    BY <2>1 DEF KeptInv
  <2>4. Keeps(file'.state, saved')
    BY <2>1, <2>3
  <2>5. KeepsItsShare(k)
    BY <1>0, <2>1, <2>2, <2>3, <2>4 DEF KeepsItsShare
  <2> QED
    BY <1>0, <2>5, KeptStep
<1>3. ASSUME NEW k \in Calls, Load(k) PROVE KeptInv'
  <2>1. /\ HookRunning(k) /\ step[k] = "load"
        /\ phase' = phase /\ step'[k] \in {"update", "check"} /\ held'[k] = file.state
        /\ UNCHANGED <<now, failures, command, file, saved>>
        /\ \A j \in Calls : j # k => step'[j] = step[j]
    BY <1>0, <1>3 DEF Load, Goto, AfterLoad, callVars, historyVars
  <2>2. \A f \in failures : f.call # k
    BY <1>1, <2>1 DEF KeptInv
  <2>3. Keeps(file.state, saved)
    BY DEF KeptInv
  <2>4. Keeps(file'.state, saved') /\ Keeps(held'[k], saved')
    BY <2>1, <2>3
  <2>5. KeepsItsShare(k)
    BY <1>0, <1>1, <2>1, <2>2, <2>4 DEF KeepsItsShare
  <2> QED
    BY <1>0, <2>5, KeptStep
<1>4. ASSUME NEW k \in Calls, PruneOnRead(k) PROVE KeptInv'
  <2>1. /\ HookRunning(k) /\ step[k] = "update" /\ phase[k] = "pre"
        /\ phase' = phase /\ step'[k] \in {"open", "check"}
        /\ UNCHANGED <<now, failures, command, file, saved>>
        /\ \A j \in Calls : j # k => step'[j] = step[j]
        /\ held'[k] \in Prune(held[k], now)
    BY <1>0, <1>4 DEF PruneOnRead, Goto, HookRunning, callVars, historyVars
  <2>2. \A f \in failures : f.call # k
    BY <1>1, <2>1 DEF KeptInv
  <2>3. Keeps(held[k], saved) /\ Keeps(file.state, saved)
    BY <2>1 DEF KeptInv
  <2>4. Keeps(held'[k], saved')
    <3> SUFFICES ASSUME NEW f \in Due(saved)
                 PROVE  f \in held'[k][command[f.call]].timestamps
      BY <2>1 DEF Keeps
    <3>1. /\ f \in held[k][command[f.call]].timestamps /\ SaturatingSub(now, f.at) <= Window
          /\ command[f.call] \in Commands
      BY <1>0, <2>3 DEF Keeps, Due, Stamp
    <3> QED
      BY <1>0, <2>1, <3>1, PruneKeeps
  <2>5. Keeps(file'.state, saved')
    BY <2>1, <2>3
  <2>6. saved' \cup {} = saved'
    OBVIOUS
  <2>7. step'[k] = "open" =>
           Keeps(held'[k], saved' \cup IF phase'[k] = "post" THEN {k} ELSE {})
    BY <2>1, <2>4, <2>6
  <2>8. KeepsItsShare(k)
    BY <1>0, <1>1, <2>1, <2>2, <2>4, <2>5, <2>7 DEF KeepsItsShare
  <2> QED
    BY <1>0, <2>8, KeptStep
<1>5. ASSUME NEW k \in Calls, Record(k) PROVE KeptInv'
  <2> DEFINE new == [at |-> now, call |-> k]
  <2>1. /\ HookRunning(k) /\ step[k] = "update" /\ phase[k] = "post"
        /\ phase' = phase /\ step'[k] = "open"
        /\ UNCHANGED <<now, command, file, saved>>
        /\ \A j \in Calls : j # k => step'[j] = step[j]
        /\ failures' = failures \cup {new}
        /\ held'[k] \in RecordFailure(held[k], command[k], k, now)
    BY <1>0, <1>5 DEF Record, Goto, HookRunning, callVars, historyVars
  <2>2. (\A f \in failures : f.call # k) /\ k \notin saved
    BY <1>1, <2>1 DEF KeptInv
  <2>3. Keeps(held[k], saved) /\ Keeps(file.state, saved)
    BY <2>1 DEF KeptInv
  <2>4. new.call = k /\ new.at = now /\ new \in held'[k][command[k]].timestamps
        /\ \A c \in Commands : \A s \in held[k][c].timestamps :
                 SaturatingSub(now, s.at) <= Window => s \in held'[k][c].timestamps
    BY <1>0, <2>1, RecordKeeps
  <2> HIDE DEF new
  <2>5. Keeps(file.state, saved)'
    BY <2>1, <2>2, <2>3, <2>4 DEF Keeps, Due
  <2>6. ASSUME NEW f \in failures', f.call \in saved \cup {k}, SaturatingSub(now, f.at) <= Window
        PROVE  f \in held'[k][command[f.call]].timestamps
    <3>1. CASE f = new
      BY <2>4, <3>1
    <3>2. CASE f \in failures
      <4>1. f.call \in saved /\ command[f.call] \in Commands
        BY <1>0, <2>2, <2>6, <3>2 DEF Stamp
      <4>2. f \in held[k][command[f.call]].timestamps
        BY <2>3, <2>6, <3>2, <4>1 DEF Keeps, Due
      <4> QED
        BY <2>4, <2>6, <4>1, <4>2
    <3> QED
      BY <2>1, <3>1, <3>2
  <2>7. \A j \in Calls :
           /\ step'[j] \in {"update", "check"} => Keeps(held[j], saved)'
           /\ step'[j] \in {"open", "write", "rename"} => Keeps(held[j], saved \cup Saving(j))'
    <3>1. \A j \in Calls : j # k => step'[j] = "none"
      BY <1>1, <2>1
    <3>2. Keeps(held[k], saved \cup Saving(k))'
      BY <2>1, <2>6 DEF Keeps, Due, Saving
    <3> QED
      BY <2>1, <3>1, <3>2
  <2>8. \A f \in failures' :
           \/ phase'[f.call] = "over"
           \/ phase'[f.call] = "post" /\ step'[f.call] \in {"open", "write", "rename"}
    <3>1. \A f \in failures : f.call \in Calls
      BY <1>0 DEF Stamp
    <3> QED
      BY <2>1, <2>2, <2>4, <3>1 DEF KeptInv
  <2>9. \A j \in saved' : phase'[j] = "over"
    BY <2>1 DEF KeptInv
  <2> QED
    BY <2>5, <2>7, <2>8, <2>9 DEF KeptInv
<1>6. ASSUME NEW k \in Calls, OpenTmp(k) \/ WriteTmp(k) PROVE KeptInv'
  <2>1. /\ HookRunning(k) /\ step[k] \in {"open", "write"}
        /\ phase' = phase /\ step'[k] \in {"write", "rename"}
        /\ UNCHANGED <<now, failures, command, held, saved>>
        /\ \A j \in Calls : j # k => step'[j] = step[j]
    BY <1>0, <1>6 DEF OpenTmp, WriteTmp, Goto, callVars, historyVars
  <2>2. file' = file
    BY <1>6 DEF OpenTmp, WriteTmp, WriteThrough, SerialInv
  <2>3. Keeps(held[k], saved \cup Saving(k)) /\ Keeps(file.state, saved)
    BY <2>1 DEF KeptInv
  <2>4. Keeps(file'.state, saved')
    BY <2>1, <2>2, <2>3
  <2>5. Keeps(held'[k], saved' \cup IF phase'[k] = "post" THEN {k} ELSE {})
    BY <2>1, <2>3 DEF Saving
  <2>6. \A f \in failures : f.call = k => phase'[k] = "post"
    BY <1>1, <2>1 DEF KeptInv
  <2>7. KeepsItsShare(k)
    BY <1>0, <1>1, <2>1, <2>4, <2>5, <2>6 DEF KeepsItsShare
  <2> QED
    BY <1>0, <2>7, KeptStep
<1>7. ASSUME NEW k \in Calls, RenameTmp(k) PROVE KeptInv'
  <2>1. /\ HookRunning(k) /\ step[k] = "rename" /\ tmp = Json(held[k])
        /\ UNCHANGED <<now, failures, command>>
        /\ \A j \in Calls : j # k => step'[j] = step[j] /\ phase'[j] = phase[j]
    BY <1>0, <1>7 DEF RenameTmp, AfterSave, EndHook, Goto, callVars, historyVars, SerialInv
  <2>2. /\ file' = Json(held[k])
        /\ saved' = IF phase[k] = "post" THEN saved \cup {k} ELSE saved
        /\ \/ phase[k] = "pre" /\ step'[k] = "check" /\ held' = held
           \/ phase[k] = "post" /\ step'[k] = "none" /\ phase'[k] = "over"
    BY <1>0, <1>7, <2>1 DEF RenameTmp, AfterSave, EndHook, Goto, Json, HookRunning
  <2>3. Keeps(held[k], saved \cup Saving(k))
    BY <2>1 DEF KeptInv
  <2>4. saved' = saved \cup Saving(k) /\ file'.state = held[k]
    BY <2>2 DEF Saving, Json
  <2>5. Keeps(file'.state, saved')
    BY <2>3, <2>4
  <2>6. step'[k] = "check" => Keeps(held'[k], saved')
    BY <2>2, <2>3, <2>4
  <2>7. \A f \in failures : f.call = k => phase'[k] = "over"
    BY <1>1, <2>1, <2>2 DEF KeptInv
  <2>8. \A j \in saved' : IF j = k THEN phase'[k] = "over" ELSE j \in saved
    BY <1>1, <2>1, <2>2
  <2>9. step'[k] \in {"check", "none"}
    BY <2>2
  <2>10. KeepsItsShare(k)
    BY <1>1, <2>1, <2>5, <2>6, <2>7, <2>8, <2>9 DEF KeepsItsShare
  <2> QED
    BY <1>0, <2>10, KeptStep
<1>8. ASSUME NEW k \in Calls, OpenFails(k) \/ WriteFails(k) PROVE KeptInv'
  <2>1. /\ HookRunning(k) /\ step[k] \in {"open", "write"}
        /\ UNCHANGED <<now, failures, command, saved>>
        /\ \A j \in Calls : j # k => step'[j] = step[j] /\ phase'[j] = phase[j]
        /\ \/ phase[k] = "pre" /\ step'[k] = "check" /\ held' = held
           \/ phase[k] = "post" /\ step'[k] = "none" /\ phase'[k] = "over"
    BY <1>0, <1>8 DEF OpenFails, WriteFails, AfterSave, EndHook, Goto, callVars, historyVars,
                      HookRunning
  <2>2. file' = file
    BY <1>8 DEF OpenFails, WriteFails, WriteThrough, SerialInv
  <2>3. Keeps(held[k], saved \cup Saving(k)) /\ Keeps(file.state, saved)
    BY <2>1 DEF KeptInv
  <2>4. Keeps(file'.state, saved')
    BY <2>1, <2>2, <2>3
  <2>5. step'[k] = "check" => Keeps(held'[k], saved')
    BY <2>1, <2>3 DEF Keeps, Due, Saving
  <2>6. \A f \in failures : f.call = k => phase'[k] = "over"
    BY <1>1, <2>1 DEF KeptInv
  <2>7. KeepsItsShare(k)
    BY <1>0, <1>1, <2>1, <2>4, <2>5, <2>6 DEF KeepsItsShare
  <2> QED
    BY <1>0, <2>7, KeptStep
<1>9. ASSUME NEW k \in Calls, CheckLearned(k) \/ Crash(k) PROVE KeptInv'
  <2>1. /\ HookRunning(k) /\ step'[k] = "none"
        /\ UNCHANGED <<now, failures, command, saved, file>>
        /\ \A j \in Calls : j # k => step'[j] = step[j] /\ phase'[j] = phase[j]
        /\ phase[k] = "pre" \/ phase'[k] = "over"
    BY <1>0, <1>9 DEF CheckLearned, Crash, EndHook, callVars, historyVars, HookRunning
  <2>2. Keeps(file.state, saved)
    BY DEF KeptInv
  <2>3. Keeps(file'.state, saved')
    BY <2>1, <2>2
  <2>4. \A f \in failures : f.call = k => phase'[k] = "over"
    BY <1>1, <2>1 DEF KeptInv
  <2>5. KeepsItsShare(k)
    BY <1>0, <1>1, <2>1, <2>3, <2>4 DEF KeepsItsShare
  <2> QED
    BY <1>0, <2>5, KeptStep
<1>10. CASE Tick \/ UNCHANGED vars
  <2>1. /\ UNCHANGED <<file, phase, step, held, command, failures, saved>>
        /\ now' \in Time /\ now <= now'
    <3>1. now' \in Time /\ now <= now'
      BY <1>0, <1>10, PolicyAssumption DEF Tick, vars, Time
    <3> QED
      BY <1>10, <3>1 DEF Tick, vars, callVars, historyVars
  <2>2. \A state, K : Keeps(state, K) =>
           \A d \in Due(K)' : d \in state[command'[d.call]].timestamps
    BY <2>1, KeepsOn
  <2>3. Keeps(file.state, saved)'
    BY <2>1, <2>2 DEF KeptInv, Keeps, Due
  <2>4. \A k \in Calls :
           /\ step'[k] \in {"update", "check"} => Keeps(held[k], saved)'
           /\ step'[k] \in {"open", "write", "rename"} => Keeps(held[k], saved \cup Saving(k))'
    BY <2>1, <2>2 DEF KeptInv, Keeps, Due, Saving
  <2> QED
    BY <2>1, <2>3, <2>4 DEF KeptInv
<1> QED
  BY <1>2, <1>3, <1>4, <1>5, <1>6, <1>7, <1>8, <1>9, <1>10
  DEF Next, HookStep, AllOver

\* The memory that k's process holds knows every failure that was saved.
LEMMA SavedAreKnown ==
    ASSUME TypeOK, KeptInv, NEW k \in Calls, step[k] = "check"
    PROVE  SavedFailures(k) \subseteq Recent(held[k][command[k]].timestamps, now)
<1>1. Keeps(held[k], saved)
  BY DEF KeptInv
<1> QED
  BY <1>1 DEF SavedFailures, FailuresBefore, FailuresOf, Keeps, Due, Recent

\* A process that knows Threshold failures of the command denies it.
LEMMA KnownFailuresDeny ==
    ASSUME TypeOK, KeptInv, NEW k \in Calls, CheckLearned(k), Enabled,
           Cardinality(SavedFailures(k)) >= Threshold, SavedFailures(k) # {}
    PROVE  verdict'[k] = "learned"
<1> DEFINE entry == held[k][command[k]]
           recent == Recent(entry.timestamps, now)
<1>1. /\ step[k] = "check" /\ verdict \in [Calls -> Verdicts]
      /\ held[k] \in State /\ command[k] \in Commands
  BY DEF CheckLearned, TypeOK
<1>2. entry \in Entry
  BY <1>1 DEF State
<1>3. SavedFailures(k) \subseteq recent
  BY <1>1, SavedAreKnown
<1>4. command[k] \in Tracked(held[k])
  BY <1>1, <1>2, <1>3 DEF Tracked, Entry, Recent
<1>5. Cardinality(recent) >= Threshold
  <2>1. IsFiniteSet(entry.timestamps) /\ recent \subseteq entry.timestamps
    BY <1>2, StampsFinite DEF Entry, Recent
  <2>2. IsFiniteSet(recent)
    BY <2>1, FS_Subset
  <2> HIDE DEF recent
  <2>3. /\ Cardinality(SavedFailures(k)) <= Cardinality(recent)
        /\ Cardinality(SavedFailures(k)) \in Nat /\ Cardinality(recent) \in Nat
    BY <1>3, <2>2, FS_Subset, FS_CardinalityType
  <2> QED
    BY <2>3, PolicyAssumption
<1>6. Learned(held[k], command[k], now)
  BY <1>4, <1>5 DEF Learned
<1> QED
  BY <1>1, <1>6 DEF CheckLearned

\* "Failures required to trigger a block": when hook processes do not overlap,
\* every pre-hook that looks a command up denies it once Threshold failures of
\* it were saved within the window, whichever hooks crashed and whatever write
\* failed, in a memory that has room for every command.
THEOREM RepeatedFailuresDenied ==
    ASSUME ~Overlap
    PROVE  Spec => RepeatedFailureDenied
<1> DEFINE Inv == TypeOK /\ SerialInv /\ BoundedInv /\ (Roomy => KeptInv)
           Denied == \A k \in Calls :
                        /\ CheckLearned(k)
                        /\ Enabled
                        /\ Cleanup >= Window
                        /\ MaxTracked >= Cardinality(Commands)
                        /\ Cardinality(SavedFailures(k)) >= Threshold
                        /\ SavedFailures(k) # {}
                        => verdict'[k] = "learned"
<1>1. Init => Inv
  BY TypeInit, SerialInit, BoundedInit, KeptInit
<1>2. Inv /\ [Next]_vars => Inv'
  <2>1. Inv /\ [Next]_vars => TypeOK' /\ SerialInv' /\ BoundedInv'
    BY TypeNext, SerialNext, BoundedNext
  <2>2. Inv /\ [Next]_vars => (Roomy => KeptInv)'
    BY KeptNext DEF Roomy
  <2> QED
    BY <2>1, <2>2
<1>3. Inv /\ [Next]_vars => [Denied]_vars
  BY KnownFailuresDeny DEF Roomy
<1> QED
  BY <1>1, <1>2, <1>3, PTL DEF Spec, RepeatedFailureDenied

-----------------------------------------------------------------------------
(* Without overlap: one atomic memory *)

\* The memory at this moment, pruned at most.
PrunedAtMost(state) == \E t \in 0..now : state \in Prune(file.state, t) \cup {file.state}

\* The memory after k's failure.
Learnt(k, state) == \E t \in 0..now : state \in RecordFailure(file.state, command[k], k, t)

\* What a call that has come so far has, and what its process holds of the
\* one memory: nobody changes the file between its load and its rename.
Linked(k) ==
    /\ phase[k] \in {"idle", "pre"} => verdict[k] = "none"
    /\ phase[k] = "pre" => command[k] \notin RuleBlocked
    /\ phase[k] \in {"tool", "post"} => verdict[k] = "allow"
    /\ k \in saved => phase[k] = "over"
    /\ step[k] = "update" => held[k] = file.state
    /\ phase[k] = "pre" /\ step[k] \in {"open", "write", "rename", "check"}
           => PrunedAtMost(held[k])
    /\ phase[k] = "post" /\ step[k] \in {"open", "write", "rename"} => Learnt(k, held[k])

LinkedInv == \A k \in Calls : Linked(k)

LEMMA LinkedInit == Init => LinkedInv
BY DEF Init, LinkedInv, Linked

\* What was pruned or learnt before is so later, while the file stays.
LEMMA LinkStays ==
    ASSUME TypeOK, NEW k \in Calls, now' \in Time, now <= now', file' = file,
           command' = command, NEW state
    PROVE  /\ PrunedAtMost(state) =>
                  \E t \in 0..now' : state \in Prune(file'.state, t) \cup {file'.state}
           /\ Learnt(k, state) =>
                  \E t \in 0..now' : state \in RecordFailure(file'.state, command'[k], k, t)
<1>1. now \in Time /\ 0..now \subseteq 0..now'
  BY PolicyAssumption DEF TypeOK, Time
<1> QED
  BY <1>1 DEF PrunedAtMost, Learnt

\* A step of the one process that runs.
OneMoves(k) ==
    /\ UNCHANGED <<now, command>>
    /\ \A j \in Calls : j # k => /\ step'[j] = "none" /\ phase'[j] = phase[j]
                                 /\ verdict'[j] = verdict[j]
                                 /\ (j \in saved') = (j \in saved)

\* It keeps the links of all calls if it keeps those of its own.
LEMMA LinkedStep ==
    ASSUME LinkedInv, NEW k \in Calls, OneMoves(k), Linked(k)'
    PROVE  LinkedInv'
<1> SUFFICES ASSUME NEW j \in Calls, j # k PROVE Linked(j)'
  BY DEF LinkedInv
<1> QED
  BY DEF LinkedInv, OneMoves, Linked

LEMMA LinkedNext ==
    ASSUME ~Overlap, TypeOK, SerialInv, LinkedInv, [Next]_vars
    PROVE  LinkedInv'
<1>0. /\ step \in [Calls -> Steps] /\ phase \in [Calls -> Phases] /\ held \in [Calls -> State]
      /\ verdict \in [Calls -> Verdicts] /\ saved \in SUBSET Calls /\ now \in Time
      /\ \A k \in Calls : /\ HookRunning(k) <=> step[k] # "none"
                          /\ phase[k] = "post" => step[k] # "check"
      /\ now \in 0..now
  BY PolicyAssumption DEF TypeOK, ControlOK, Time
<1>1. ASSUME NEW k \in Calls, HookRunning(k)
      PROVE  /\ step[k] # "none" /\ k \notin saved
             /\ \A j \in Calls : j # k => step[j] = "none"
  BY <1>0, <1>1 DEF SerialInv, HookRunning, LinkedInv, Linked
<1>2. ASSUME NEW k \in Calls, StartPre(k) PROVE LinkedInv'
  <2>1. /\ \A j \in Calls : step[j] = "none"
        /\ phase[k] = "idle" /\ k \notin saved /\ verdict[k] = "none"
        /\ UNCHANGED <<now, command, saved>>
        /\ \A j \in Calls : j # k => /\ step'[j] = step[j] /\ phase'[j] = phase[j]
                                     /\ verdict'[j] = verdict[j]
    BY <1>0, <1>2 DEF StartPre, MayStartHook, EndHook, callVars, historyVars, LinkedInv, Linked
  <2>2. \/ phase'[k] = "over" /\ step'[k] = "none"
        \/ phase'[k] = "tool" /\ step'[k] = "none" /\ verdict'[k] = "allow"
        \/ /\ phase'[k] = "pre" /\ step'[k] = "load" /\ verdict'[k] = "none"
           /\ command[k] \notin RuleBlocked
    BY <1>0, <1>2, <2>1 DEF StartPre, EndHook
  <2>3. Linked(k)'
    BY <2>1, <2>2 DEF Linked
  <2> QED
    BY <2>1, <2>3, LinkedStep DEF OneMoves
<1>3. ASSUME NEW k \in Calls, ToolEnds(k) PROVE LinkedInv'
  <2>1. /\ \A j \in Calls : step[j] = "none"
        /\ phase[k] = "tool" /\ k \notin saved /\ verdict[k] = "allow"
        /\ UNCHANGED <<now, command, saved, verdict>>
        /\ \A j \in Calls : j # k => step'[j] = step[j] /\ phase'[j] = phase[j]
    BY <1>0, <1>3 DEF ToolEnds, MayStartHook, callVars, historyVars, LinkedInv, Linked
  <2>2. \/ phase'[k] = "over" /\ step'[k] = "none"
        \/ phase'[k] = "post" /\ step'[k] = "load"
    BY <1>0, <1>3, <2>1 DEF ToolEnds
  <2>3. Linked(k)'
    BY <2>1, <2>2 DEF Linked
  <2> QED
    BY <2>1, <2>3, LinkedStep DEF OneMoves
<1>4. ASSUME NEW k \in Calls, Load(k) PROVE LinkedInv'
  <2>1. /\ HookRunning(k) /\ UNCHANGED <<now, command, saved, verdict, phase, file>>
        /\ \A j \in Calls : j # k => step'[j] = step[j]
        /\ step'[k] = AfterLoad(k) /\ held'[k] = file.state
    BY <1>0, <1>4 DEF Load, Goto, callVars, resultVars, historyVars
  <2>2. PrunedAtMost(file.state)
    BY <1>0 DEF PrunedAtMost
  <2>3. PrunedAtMost(held[k])'
    BY <2>1, <2>2 DEF PrunedAtMost
  <2>4. Linked(k)
    BY DEF LinkedInv
  <2>5. Linked(k)'
    BY <2>1, <2>3, <2>4 DEF Linked, AfterLoad
  <2> QED
    BY <1>1, <2>1, <2>5, LinkedStep DEF OneMoves
<1>5. ASSUME NEW k \in Calls, PruneOnRead(k) PROVE LinkedInv'
  <2>1. /\ HookRunning(k) /\ UNCHANGED <<now, command, saved, verdict, phase, file>>
        /\ \A j \in Calls : j # k => step'[j] = step[j]
        /\ step'[k] \in {"open", "check"} /\ held'[k] \in Prune(held[k], now)
        /\ phase[k] = "pre" /\ step[k] = "update"
    BY <1>0, <1>5 DEF PruneOnRead, Goto, callVars, resultVars, historyVars, HookRunning
  <2>2. Linked(k) /\ held[k] = file.state
    BY <2>1 DEF LinkedInv, Linked
  <2>3. PrunedAtMost(held[k])'
    BY <1>0, <2>1, <2>2 DEF PrunedAtMost
  <2>4. Linked(k)'
    BY <2>1, <2>2, <2>3 DEF Linked
  <2> QED
    BY <1>1, <2>1, <2>4, LinkedStep DEF OneMoves
<1>6. ASSUME NEW k \in Calls, Record(k) PROVE LinkedInv'
  <2>1. /\ HookRunning(k) /\ UNCHANGED <<now, command, saved, verdict, phase, file>>
        /\ \A j \in Calls : j # k => step'[j] = step[j]
        /\ step'[k] = "open" /\ held'[k] \in RecordFailure(held[k], command[k], k, now)
        /\ phase[k] = "post" /\ step[k] = "update"
    BY <1>0, <1>6 DEF Record, Goto, callVars, resultVars, HookRunning
  <2>2. Linked(k) /\ held[k] = file.state
    BY <2>1 DEF LinkedInv, Linked
  <2>3. Learnt(k, held[k])'
    BY <1>0, <2>1, <2>2 DEF Learnt
  <2>4. Linked(k)'
    BY <2>1, <2>2, <2>3 DEF Linked
  <2> QED
    BY <1>1, <2>1, <2>4, LinkedStep DEF OneMoves
<1>7. ASSUME NEW k \in Calls, OpenTmp(k) \/ WriteTmp(k) PROVE LinkedInv'
  <2>1. /\ HookRunning(k) /\ UNCHANGED <<now, command, saved, verdict, phase, held>>
        /\ \A j \in Calls : j # k => step'[j] = step[j]
        /\ step[k] \in {"open", "write"} /\ step'[k] \in {"write", "rename"}
    BY <1>0, <1>7 DEF OpenTmp, WriteTmp, Goto, callVars, resultVars, historyVars
  <2>2. file' = file
    BY <1>7 DEF OpenTmp, WriteTmp, WriteThrough, SerialInv
  <2>3. Linked(k)
    BY DEF LinkedInv
  <2>4. Linked(k)'
    BY <2>1, <2>2, <2>3 DEF Linked, PrunedAtMost, Learnt
  <2> QED
    BY <1>1, <2>1, <2>4, LinkedStep DEF OneMoves
<1>8. ASSUME NEW k \in Calls, RenameTmp(k) PROVE LinkedInv'
  <2>1. /\ HookRunning(k) /\ step[k] = "rename" /\ tmp = Json(held[k])
        /\ UNCHANGED <<now, command, verdict>>
        /\ \A j \in Calls : j # k => step'[j] = step[j] /\ phase'[j] = phase[j]
        /\ \A j \in Calls : j # k => (j \in saved') = (j \in saved)
    BY <1>0, <1>8 DEF RenameTmp, AfterSave, EndHook, Goto, callVars, resultVars, SerialInv
  <2>2. /\ file' = Json(held[k])
        /\ \/ phase[k] = "pre" /\ step'[k] = "check" /\ UNCHANGED <<held, phase, saved>>
           \/ phase[k] = "post" /\ step'[k] = "none" /\ phase'[k] = "over"
    BY <1>0, <1>8, <2>1 DEF RenameTmp, AfterSave, EndHook, Goto, Json, HookRunning
  <2>3. Linked(k) /\ file'.state = held[k]
    BY <2>2 DEF LinkedInv, Json
  <2>4. phase[k] = "pre" => PrunedAtMost(held[k])'
    BY <1>0, <2>1, <2>2, <2>3 DEF PrunedAtMost
  <2>5. Linked(k)'
    BY <1>1, <2>1, <2>2, <2>3, <2>4 DEF Linked
  <2> QED
    BY <1>1, <2>1, <2>5, LinkedStep DEF OneMoves
<1>9. ASSUME NEW k \in Calls, OpenFails(k) \/ WriteFails(k) PROVE LinkedInv'
  <2>1. /\ HookRunning(k) /\ step[k] \in {"open", "write"}
        /\ UNCHANGED <<now, command, verdict, saved>>
        /\ \A j \in Calls : j # k => step'[j] = step[j] /\ phase'[j] = phase[j]
        /\ \/ phase[k] = "pre" /\ step'[k] = "check" /\ UNCHANGED <<held, phase>>
           \/ phase[k] = "post" /\ step'[k] = "none" /\ phase'[k] = "over"
    BY <1>0, <1>9 DEF OpenFails, WriteFails, AfterSave, EndHook, Goto, callVars, resultVars,
                      historyVars, HookRunning
  <2>2. file' = file
    BY <1>9 DEF OpenFails, WriteFails, WriteThrough, SerialInv
  <2>3. Linked(k)
    BY DEF LinkedInv
  <2>4. phase[k] = "pre" => PrunedAtMost(held[k])'
    BY <2>1, <2>2, <2>3 DEF Linked, PrunedAtMost
  <2>5. Linked(k)'
    BY <1>1, <2>1, <2>3, <2>4 DEF Linked
  <2> QED
    BY <1>1, <2>1, <2>5, LinkedStep DEF OneMoves
<1>10. ASSUME NEW k \in Calls, CheckLearned(k) \/ Crash(k) PROVE LinkedInv'
  <2>1. /\ HookRunning(k) /\ step'[k] = "none" /\ UNCHANGED <<now, command, saved>>
        /\ \A j \in Calls : j # k => /\ step'[j] = step[j] /\ phase'[j] = phase[j]
                                     /\ verdict'[j] = verdict[j]
        /\ phase'[k] = "over" \/ (phase'[k] = "tool" /\ verdict'[k] = "allow")
    BY <1>0, <1>10 DEF CheckLearned, Crash, EndHook, callVars, historyVars, HookRunning
  <2>2. Linked(k)'
    BY <1>1, <2>1 DEF Linked
  <2> QED
    BY <1>1, <2>1, <2>2, LinkedStep DEF OneMoves
<1>11. CASE Tick \/ UNCHANGED vars
  <2>1. /\ UNCHANGED <<file, phase, step, held, command, verdict, saved>>
        /\ now' \in Time /\ now <= now'
    <3>1. now' \in Time /\ now <= now'
      BY <1>0, <1>11, PolicyAssumption DEF Tick, vars, Time
    <3> QED
      BY <1>11, <3>1 DEF Tick, vars, callVars, resultVars, historyVars
  <2>2. ASSUME NEW k \in Calls PROVE Linked(k)'
    <3>1. Linked(k)
      BY DEF LinkedInv
    <3>2. /\ PrunedAtMost(held[k]) => PrunedAtMost(held[k])'
          /\ Learnt(k, held[k]) => Learnt(k, held[k])'
      BY <2>1, LinkStays DEF PrunedAtMost, Learnt
    <3> QED
      BY <2>1, <3>1, <3>2 DEF Linked
  <2> QED
    BY <2>2 DEF LinkedInv
<1> QED
  BY <1>2, <1>3, <1>4, <1>5, <1>6, <1>7, <1>8, <1>9, <1>10, <1>11
  DEF Next, HookStep, AllOver

\* FailureMemory computes with the same operators.
LEMMA MemoryOperators ==
    /\ Memory!EmptyState = EmptyState
    /\ \A state, t : Memory!Prune(state, t) = Prune(state, t)
    /\ \A state, c, k, t : Memory!RecordFailure(state, c, k, t) = RecordFailure(state, c, k, t)
    /\ \A state, c, t : Memory!Learned(state, c, t) = Learned(state, c, t)
    /\ Memory!Time = Time
<1>1. \A state : Memory!Tracked(state) = Tracked(state)
  BY DEF Memory!Tracked, Tracked
<1>2. \A a, b : Memory!SaturatingSub(a, b) = SaturatingSub(a, b)
  BY DEF Memory!SaturatingSub, SaturatingSub
<1>3. \A stamps, t : Memory!Recent(stamps, t) = Recent(stamps, t)
  BY <1>2 DEF Memory!Recent, Recent
<1>4. Memory!NoEntry = NoEntry
  BY DEF Memory!NoEntry, NoEntry
<1>5. \A state, t : Memory!DropAged(state, t) = DropAged(state, t)
  BY <1>3, <1>4 DEF Memory!DropAged, DropAged
<1>6. ASSUME NEW state PROVE Memory!Evictions(state) = Evictions(state)
  <2>1. Memory!Tracked(state) = Tracked(state)
    BY <1>1
  <2>2. Memory!SaturatingSub(Cardinality(Tracked(state)), MaxTracked)
           = SaturatingSub(Cardinality(Tracked(state)), MaxTracked)
    BY <1>2
  <2> QED
    BY <2>1, <2>2, Zenon DEF Memory!Evictions, Evictions, Memory!Cardinality, Cardinality
<1>7. \A state, V : Memory!Evict(state, V) = Evict(state, V)
  BY <1>4 DEF Memory!Evict, Evict
<1>8. \A state, t : Memory!Prune(state, t) = Prune(state, t)
  BY <1>5, <1>6, <1>7 DEF Memory!Prune, Prune
<1>9. \A state, c, k, t : Memory!Push(state, c, k, t) = Push(state, c, k, t)
  BY DEF Memory!Push, Push
<1>10. \A state, c, k, t :
          Memory!RecordFailure(state, c, k, t) = RecordFailure(state, c, k, t)
  BY <1>8, <1>9 DEF Memory!RecordFailure, RecordFailure
<1>11. ASSUME NEW state, NEW c, NEW t
       PROVE  Memory!Learned(state, c, t) = Learned(state, c, t)
  <2>1. /\ Memory!Tracked(state) = Tracked(state)
        /\ Memory!Recent(state[c].timestamps, t) = Recent(state[c].timestamps, t)
    BY <1>1, <1>3
  <2> QED
    BY <2>1, Zenon DEF Memory!Learned, Learned, Memory!Cardinality, Cardinality
<1> QED
  BY <1>4, <1>8, <1>10, <1>11 DEF Memory!EmptyState, EmptyState, Memory!Time, Time

LEMMA MemoryInit == Init => Memory!Init
BY MemoryOperators DEF Init, Memory!Init, Absent

\* Every step of a hook process is a step of the one memory, or none.
LEMMA MemoryNext ==
    ASSUME ~Overlap, TypeOK, SerialInv, LinkedInv, [Next]_vars
    PROVE  [Memory!Next]_(Memory!vars)
<1> DEFINE MemoryStep == [Memory!Next]_(Memory!vars)
<1>0. /\ step \in [Calls -> Steps] /\ phase \in [Calls -> Phases] /\ held \in [Calls -> State]
      /\ verdict \in [Calls -> Verdicts] /\ saved \in SUBSET Calls /\ now \in Time
  BY DEF TypeOK
<1>1. ASSUME NEW k \in Calls, StartPre(k) PROVE MemoryStep
  <2>1. verdict[k] = "none" /\ UNCHANGED <<now, file, command, saved>>
    BY <1>1 DEF StartPre, callVars, historyVars, LinkedInv, Linked
  <2>2. CASE command[k] \in RuleBlocked
    <3>1. verdict' = [verdict EXCEPT ![k] = "rule"]
      BY <1>1, <2>2 DEF StartPre
    <3>2. Memory!DenyByRule(k)
      BY <2>1, <2>2, <3>1 DEF Memory!DenyByRule, Memory!Answer
    <3> QED
      BY <3>2 DEF Memory!Next
  <2>3. CASE command[k] \notin RuleBlocked /\ ~Enabled /\ verdict' = [verdict EXCEPT ![k] = "allow"]
    <3>1. ~Memory!Learned(file.state, command[k], now)
      BY <2>3 DEF Memory!Learned
    <3>2. now \in 0..now
      BY <1>0, PolicyAssumption DEF Time
    <3>3. Memory!Judge(k)
      BY <2>1, <2>3, <3>1, <3>2 DEF Memory!Judge, Memory!Answer
    <3> QED
      BY <3>3 DEF Memory!Next
  <2>4. CASE verdict' = verdict
    BY <2>1, <2>4 DEF Memory!vars
  <2> QED
    BY <1>1, <2>2, <2>3, <2>4 DEF StartPre
<1>2. ASSUME NEW k \in Calls, CheckLearned(k) PROVE MemoryStep
  <2>1. /\ verdict[k] = "none" /\ UNCHANGED <<now, file, command, saved>>
        /\ command[k] \notin RuleBlocked
        /\ PrunedAtMost(held[k])
    BY <1>2 DEF CheckLearned, callVars, historyVars, LinkedInv, Linked
  <2>2. verdict' = [verdict EXCEPT ![k] =
                       IF Learned(held[k], command[k], now) THEN "learned" ELSE "allow"]
    BY <1>2 DEF CheckLearned
  <2>3. PICK t \in 0..now : held[k] \in Memory!Prune(file.state, t) \cup {file.state}
    BY <2>1, MemoryOperators DEF PrunedAtMost
  <2>4. Memory!Answer(k, IF Memory!Learned(held[k], command[k], now) THEN "learned" ELSE "allow")
    BY <2>1, <2>2, MemoryOperators DEF Memory!Answer
  <2>5. Memory!Judge(k)
    BY <2>1, <2>3, <2>4 DEF Memory!Judge
  <2> QED
    BY <2>5 DEF Memory!Next
<1>3. ASSUME NEW k \in Calls, RenameTmp(k) PROVE MemoryStep
  <2>1. /\ HookRunning(k) /\ step[k] = "rename" /\ tmp = Json(held[k])
        /\ UNCHANGED <<now, command, verdict>> /\ Linked(k)
    BY <1>3 DEF RenameTmp, callVars, resultVars, SerialInv, LinkedInv
  <2>2. /\ file'.state = held[k]
        /\ saved' = IF phase[k] = "post" THEN saved \cup {k} ELSE saved
    BY <1>3, <2>1 DEF RenameTmp, Json
  <2>3. CASE phase[k] = "pre"
    <3>1. PICK t \in 0..now : held[k] \in Memory!Prune(file.state, t) \cup {file.state}
      BY <2>1, <2>3, MemoryOperators DEF PrunedAtMost, Linked
    <3>2. CASE held[k] = file.state
      BY <2>1, <2>2, <2>3, <3>2 DEF Memory!vars
    <3>3. CASE held[k] \in Memory!Prune(file.state, t)
      <4>1. Memory!Forget
        BY <2>1, <2>2, <2>3, <3>3 DEF Memory!Forget
      <4> QED
        BY <4>1 DEF Memory!Next
    <3> QED
      BY <3>1, <3>2, <3>3
  <2>4. CASE phase[k] = "post"
    <3>1. PICK t \in 0..now : held[k] \in Memory!RecordFailure(file.state, command[k], k, t)
      BY <2>1, <2>4, MemoryOperators DEF Learnt, Linked
    <3>2. verdict[k] = "allow" /\ k \notin saved
      BY <2>1, <2>4 DEF Linked
    <3>3. Memory!Learn(k)
      BY <2>1, <2>2, <2>4, <3>1, <3>2 DEF Memory!Learn
    <3> QED
      BY <3>3 DEF Memory!Next
  <2> QED
    BY <2>1, <2>3, <2>4 DEF HookRunning
<1>4. ASSUME NEW k \in Calls, Crash(k) PROVE MemoryStep
  <2>1. HookRunning(k) /\ UNCHANGED <<now, file, command, saved>> /\ Linked(k) /\ Faults
    BY <1>4 DEF Crash, callVars, historyVars, LinkedInv
  <2>2. CASE phase[k] = "pre"
    <3>1. /\ verdict' = [verdict EXCEPT ![k] = "allow"] /\ verdict[k] = "none"
          /\ command[k] \notin RuleBlocked
      BY <1>4, <2>1, <2>2 DEF Crash, Linked
    <3>2. Memory!FailOpen(k)
      BY <2>1, <3>1 DEF Memory!FailOpen, Memory!Answer
    <3> QED
      BY <3>2 DEF Memory!Next
  <2>3. CASE phase[k] # "pre"
    <3>1. verdict' = verdict
      BY <1>4, <2>3 DEF Crash
    <3> QED
      BY <2>1, <3>1 DEF Memory!vars
  <2> QED
    BY <2>2, <2>3
<1>5. ASSUME Tick PROVE MemoryStep
  <2>1. Memory!Tick
    BY <1>5, MemoryOperators DEF Tick, Memory!Tick, callVars, resultVars, historyVars
  <2> QED
    BY <2>1 DEF Memory!Next
<1>6. ASSUME NEW k \in Calls, OpenTmp(k) \/ WriteTmp(k) \/ OpenFails(k) \/ WriteFails(k)
      PROVE MemoryStep
  <2>1. file' = file
    BY <1>6 DEF OpenTmp, WriteTmp, OpenFails, WriteFails, WriteThrough, SerialInv
  <2>2. UNCHANGED <<now, command, verdict, saved>>
    BY <1>6 DEF OpenTmp, WriteTmp, OpenFails, WriteFails, callVars, resultVars, historyVars
  <2> QED
    BY <2>1, <2>2 DEF Memory!vars
<1>7. ASSUME NEW k \in Calls, Load(k) \/ PruneOnRead(k) \/ Record(k) \/ ToolEnds(k)
      PROVE MemoryStep
  BY <1>7 DEF Load, PruneOnRead, Record, ToolEnds, callVars, resultVars, historyVars, Memory!vars
<1>8. CASE UNCHANGED vars
  BY <1>8 DEF vars, callVars, resultVars, historyVars, Memory!vars
<1> QED
  BY <1>1, <1>2, <1>3, <1>4, <1>5, <1>6, <1>7, <1>8 DEF Next, HookStep, AllOver

\* When hook processes do not overlap, the processes and their files amount to
\* one memory that every call is judged by and taken into at once.
THEOREM ImplementsAtomicMemory ==
    ASSUME ~Overlap
    PROVE  Spec => ImplementsMemory
<1> DEFINE Inv == TypeOK /\ SerialInv /\ LinkedInv
<1>1. Init => Inv
  BY TypeInit, SerialInit, LinkedInit
<1>2. Inv /\ [Next]_vars => Inv'
  BY TypeNext, SerialNext, LinkedNext
<1>3. Inv /\ [Next]_vars => [Memory!Next]_(Memory!vars)
  BY MemoryNext
<1> QED
  BY <1>1, <1>2, <1>3, MemoryInit, PTL DEF Spec, ImplementsMemory, Memory!Spec

=============================================================================
