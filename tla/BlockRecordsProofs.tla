-------------------------- MODULE BlockRecordsProofs --------------------------
(***************************************************************************)
(* Theorems of BlockRecords: they hold for every finite set of processes,  *)
(* every set of rules and every length of time, with processes that        *)
(* overlap, overwrite each other's statistics and die.                     *)
(***************************************************************************)
EXTENDS BlockRecords, RecursionTheorems, FiniteSetTheorems, TLAPS

-----------------------------------------------------------------------------
(* Types and time *)

Entries == [by : Processes, outcome : {"deny", "pass"}]

Unfinished == {p \in Processes : pc[p] # "over"}

\* Each process may still need one instant of the clock, for its commit.
Timely == now + Cardinality(Unfinished) <= MaxTime

Past == \A t \in DOMAIN log : t < now

\* Which jobs come to which steps, and who holds nothing yet.
AtWork == \A p \in Processes :
    /\ pc[p] = "idle" => held[p] = NoStats
    /\ pc[p] = "read" => job[p] \in {"deny", "stats"}
    /\ pc[p] \in {"truncate", "write"} => job[p] = "deny"

Typed ==
    /\ RecordsTypeOK
    /\ job \in [Processes -> Jobs] /\ rule \in [Processes -> Rules]
    /\ log \in [DOMAIN log -> Entries]
    /\ exclusive \in BOOLEAN /\ faulted \in BOOLEAN
    /\ Timely /\ Past /\ AtWork

LEMMA ContentsFacts ==
    /\ NoStats \in Stats
    /\ Absent \in Contents /\ Empty \in Contents /\ Garbled \in Contents
    /\ \A c \in Contents : c.stats \in Stats
    /\ \A s \in Stats : Json(s) \in Contents
<1>1. NoStats \in Stats
    BY RecordsAssumption DEF NoStats, Stats
<1> QED
    BY <1>1 DEF Contents, Absent, Empty, Garbled, Json

\* Whatever a write leaves is a file.
LEMMA OverwriteFacts ==
    ASSUME NEW c \in Contents, NEW s \in Stats, NEW text \in Overwrite(c, Json(s))
    PROVE  text \in Contents /\ (text = Json(s) \/ text = Garbled)
BY ContentsFacts DEF Overwrite

LEMMA CountedFacts ==
    ASSUME NEW s \in Stats, NEW r \in Rules, NEW t \in 0..MaxTime
    PROVE  /\ Counted(s, r, t) \in Stats
           /\ \A q \in Rules :
                 /\ Counted(s, r, t).blocks[q] = IF q = r THEN s.blocks[q] + 1 ELSE s.blocks[q]
                 /\ Counted(s, r, t).lastSeen[q] = IF q = r THEN t ELSE s.lastSeen[q]
BY DEF Counted, Stats

\* A process that is not over and comes to be over leaves an instant unused.
LEMMA UnfinishedFacts ==
    ASSUME Typed, NEW p \in Processes, NEW s,
           pc[p] # "over", pc' = [pc EXCEPT ![p] = s]
    PROVE  /\ Cardinality(Unfinished) \in Nat /\ Cardinality(Unfinished') \in Nat
           /\ Cardinality(Unfinished') <= Cardinality(Unfinished)
           /\ s = "over" => Cardinality(Unfinished') = Cardinality(Unfinished) - 1
<1>1. IsFiniteSet(Unfinished)
    BY RecordsAssumption, FS_Subset DEF Unfinished
<1>2. p \in Unfinished /\ pc \in [Processes -> {"idle", "read", "truncate", "write", "open", "commit", "over"}]
    BY DEF Unfinished, Typed, RecordsTypeOK
<1>3. CASE s = "over"
  <2>1. Unfinished' = Unfinished \ {p}
    BY <1>2, <1>3 DEF Unfinished
  <2>2. IsFiniteSet(Unfinished \ {p})
        /\ Cardinality(Unfinished \ {p}) = Cardinality(Unfinished) - 1
    BY <1>1, <1>2, FS_RemoveElement
  <2>3. Cardinality(Unfinished) \in Nat /\ Cardinality(Unfinished \ {p}) \in Nat
    BY <1>1, <2>2, FS_CardinalityType
  <2> QED
    BY <2>1, <2>2, <2>3
<1>4. CASE s # "over"
  <2>1. Unfinished' = Unfinished
    BY <1>2, <1>4 DEF Unfinished
  <2> QED
    BY <1>1, <1>4, <2>1, FS_CardinalityType
<1> QED
    BY <1>3, <1>4

LEMMA TypedInit == Init => Typed
<1> SUFFICES ASSUME Init PROVE Typed
    OBVIOUS
<1>1. RecordsTypeOK
    BY RecordsAssumption, ContentsFacts, FS_CardinalityType DEF Init, RecordsTypeOK, Paths
<1>2. log \in [DOMAIN log -> Entries] /\ Past
    BY DEF Init, Past
<1>3. Timely
  <2>1. Unfinished = Processes
    BY DEF Init, Unfinished
  <2> QED
    BY <2>1, RecordsAssumption, FS_CardinalityType DEF Init, Timely
<1>4. AtWork
    BY DEF Init, AtWork
<1> QED
    BY <1>1, <1>2, <1>3, <1>4 DEF Init, Typed

\* A step of p that leaves the clock alone keeps to its time.
LEMMA TimelyOfOne ==
    ASSUME Typed, NEW p \in Processes, NEW s,
           pc[p] # "over", pc' = [pc EXCEPT ![p] = s], now' = now
    PROVE  Timely'
<1>1. /\ Cardinality(Unfinished) \in Nat /\ Cardinality(Unfinished') \in Nat
      /\ Cardinality(Unfinished') <= Cardinality(Unfinished)
    BY UnfinishedFacts
<1> QED
    BY <1>1, RecordsAssumption DEF Typed, Timely, RecordsTypeOK

\* The clock never gets to its end before the last commit.
LEMMA CommitInTime ==
    ASSUME Typed, NEW p \in Processes, pc[p] # "over"
    PROVE  now + 1 \in 0..MaxTime
<1>1. IsFiniteSet(Unfinished) /\ p \in Unfinished
    BY RecordsAssumption, FS_Subset DEF Unfinished
<1>2. Cardinality(Unfinished) \in Nat /\ Cardinality(Unfinished) # 0
    BY <1>1, FS_CardinalityType, FS_EmptySet
<1> QED
    BY <1>2, RecordsAssumption DEF Typed, Timely, RecordsTypeOK

\* Every step of every process keeps the types and its time.
LEMMA TypedNext == Typed /\ [Next]_vars => Typed'
<1> SUFFICES ASSUME Typed, [Next]_vars PROVE Typed'
    OBVIOUS
<1> USE DEF taskVars
<1>1. ASSUME NEW p \in Processes, Start(p) PROVE Typed'
  <2>1. Timely'
    BY <1>1, TimelyOfOne DEF Start, Goto
  <2>2. RecordsTypeOK'
    BY <1>1 DEF Start, Goto, Typed, RecordsTypeOK, StatsPath, Paths
  <2>3. AtWork'
    BY <1>1 DEF Start, Goto, Typed, RecordsTypeOK, AtWork
  <2> QED
    BY <1>1, <2>1, <2>2, <2>3 DEF Start, Typed, Past
<1>2. ASSUME NEW p \in Processes, ReadStats(p) PROVE Typed'
  <2>1. Timely'
    BY <1>2, TimelyOfOne DEF ReadStats, Goto
  <2>2. held' \in [Processes -> Stats]
    BY <1>2, ContentsFacts, CountedFacts DEF ReadStats, Typed, RecordsTypeOK
  <2>3. RecordsTypeOK'
    BY <1>2, <2>2 DEF ReadStats, Goto, Typed, RecordsTypeOK
  <2>4. AtWork'
    BY <1>2 DEF ReadStats, Goto, Typed, RecordsTypeOK, AtWork
  <2> QED
    BY <1>2, <2>1, <2>3, <2>4 DEF ReadStats, Typed, Past
<1>3. ASSUME NEW p \in Processes, Truncate(p) PROVE Typed'
  <2>1. Timely'
    BY <1>3, TimelyOfOne DEF Truncate, Goto
  <2>2. RecordsTypeOK'
    BY <1>3, ContentsFacts DEF Truncate, Goto, Typed, RecordsTypeOK
  <2>3. AtWork'
    BY <1>3 DEF Truncate, Goto, Typed, RecordsTypeOK, AtWork
  <2> QED
    BY <1>3, <2>1, <2>2, <2>3 DEF Truncate, Typed, Past
<1>4. ASSUME NEW p \in Processes, WriteStats(p) PROVE Typed'
  <2>1. Timely'
    BY <1>4, TimelyOfOne DEF WriteStats, Goto
  <2>2. files' \in [Paths -> Contents]
    BY <1>4, OverwriteFacts DEF WriteStats, Typed, RecordsTypeOK
  <2>3. RecordsTypeOK'
    BY <1>4, <2>2, ContentsFacts DEF WriteStats, Goto, Typed, RecordsTypeOK
  <2>4. AtWork'
    BY <1>4 DEF WriteStats, Goto, Typed, RecordsTypeOK, AtWork
  <2> QED
    BY <1>4, <2>1, <2>3, <2>4 DEF WriteStats, Typed, Past
<1>5. ASSUME NEW p \in Processes, OpenLog(p) PROVE Typed'
  <2>1. Timely'
    BY <1>5, TimelyOfOne DEF OpenLog, Goto
  <2>2. RecordsTypeOK'
    BY <1>5 DEF OpenLog, Goto, Typed, RecordsTypeOK
  <2>3. AtWork'
    BY <1>5 DEF OpenLog, Goto, Typed, RecordsTypeOK, AtWork
  <2> QED
    BY <1>5, <2>1, <2>2, <2>3 DEF OpenLog, Typed, Past
<1>6. ASSUME NEW p \in Processes, Commit(p) PROVE Typed'
  <2>1. now + 1 \in 0..MaxTime
    BY <1>6, CommitInTime DEF Commit
  <2>2. Timely'
    <3>1. /\ Cardinality(Unfinished) \in Nat /\ Cardinality(Unfinished') \in Nat
          /\ Cardinality(Unfinished') = Cardinality(Unfinished) - 1
      BY <1>6, UnfinishedFacts DEF Commit, Goto
    <3> QED
      BY <1>6, <3>1, RecordsAssumption DEF Commit, Typed, Timely, RecordsTypeOK
  <2>3. log' \in [DOMAIN log' -> Entries]
    BY <1>6 DEF Commit, Typed, Entries, Entry
  <2>4. DOMAIN log' = DOMAIN log \cup {now}
    BY <1>6 DEF Commit, Stamp
  <2>5. Past'
    BY <1>6, <2>1, <2>4 DEF Commit, Typed, Past, RecordsTypeOK
  <2>6. RecordsTypeOK'
    BY <1>6, <2>1, <2>4 DEF Commit, Goto, Typed, RecordsTypeOK
  <2>7. AtWork'
    BY <1>6 DEF Commit, Goto, Typed, RecordsTypeOK, AtWork
  <2> QED
    BY <1>6, <2>2, <2>3, <2>5, <2>6, <2>7 DEF Commit, Typed
<1>7. ASSUME NEW p \in Processes, ShowLog(p) PROVE Typed'
  <2>1. Timely'
    BY <1>7, TimelyOfOne DEF ShowLog, Goto
  <2>2. RecordsTypeOK'
    BY <1>7 DEF ShowLog, Goto, Typed, RecordsTypeOK
  <2>3. AtWork'
    BY <1>7 DEF ShowLog, Goto, Typed, RecordsTypeOK, AtWork
  <2> QED
    BY <1>7, <2>1, <2>2, <2>3 DEF ShowLog, Typed, Past
<1>8. ASSUME NEW p \in Processes, NEW age \in Ages, Prune(p, age) PROVE Typed'
  <2>1. Timely'
    BY <1>8, TimelyOfOne DEF Prune, Goto
  <2>2. DOMAIN log' \subseteq DOMAIN log /\ \A t \in DOMAIN log' : log'[t] = log[t]
    BY <1>8 DEF Prune
  <2>3. log' \in [DOMAIN log' -> Entries] /\ Past'
    BY <1>8, <2>2 DEF Prune, Typed, Past
  <2>4. pruned' \subseteq Processes
    BY <1>8 DEF Prune, Typed, RecordsTypeOK, Entries
  <2>5. RecordsTypeOK'
    BY <1>8, <2>2, <2>4 DEF Prune, Goto, Typed, RecordsTypeOK
  <2>6. AtWork'
    BY <1>8 DEF Prune, Goto, Typed, RecordsTypeOK, AtWork
  <2> QED
    BY <1>8, <2>1, <2>3, <2>5, <2>6 DEF Prune, Typed
<1>9. ASSUME NEW p \in Processes, Crash(p) PROVE Typed'
  <2>1. Timely'
    BY <1>9, TimelyOfOne DEF Crash, Goto, Running
  <2>2. RecordsTypeOK'
    BY <1>9, ContentsFacts DEF Crash, Goto, Typed, RecordsTypeOK
  <2>3. AtWork'
    BY <1>9 DEF Crash, Goto, Typed, RecordsTypeOK, AtWork
  <2> QED
    BY <1>9, <2>1, <2>2, <2>3 DEF Crash, Typed, Past
<1>10. CASE MakeCtx
  <2>1. Timely' /\ AtWork'
    BY <1>10 DEF MakeCtx, Typed, Timely, Unfinished, AtWork
  <2> QED
    BY <1>10, <2>1 DEF MakeCtx, Typed, RecordsTypeOK, Past
<1>11. CASE Tick
  <2>1. Cardinality(Unfinished) \in Nat /\ Cardinality(Processes) \in Nat
        /\ Cardinality(Unfinished) <= Cardinality(Processes)
    BY RecordsAssumption, FS_Subset, FS_CardinalityType DEF Unfinished
  <2>2. Unfinished' = Unfinished
    BY <1>11 DEF Tick, Unfinished
  <2>3. Timely' /\ now' \in 0..MaxTime
    BY <1>11, <2>1, <2>2, RecordsAssumption DEF Tick, Timely, Typed, RecordsTypeOK
  <2>4. Past' /\ AtWork'
    BY <1>11 DEF Tick, Typed, RecordsTypeOK, Past, AtWork
  <2> QED
    BY <1>11, <2>3, <2>4 DEF Tick, Typed, RecordsTypeOK
<1>12. CASE UNCHANGED vars
  <2>1. Timely' /\ AtWork'
    BY <1>12 DEF vars, Typed, Timely, Unfinished, AtWork
  <2> QED
    BY <1>12, <2>1 DEF vars, Typed, RecordsTypeOK, Past
<1> QED
    BY <1>1, <1>2, <1>3, <1>4, <1>5, <1>6, <1>7, <1>8, <1>9, <1>10, <1>11, <1>12
    DEF Next, RecordsOver

\* Every variable keeps its type, and the clock lasts for every commit, however
\* many processes there are.
THEOREM TypeCorrect == Spec => []RecordsTypeOK
<1>1. Typed => RecordsTypeOK
    BY DEF Typed
<1> QED
    BY <1>1, TypedInit, TypedNext, PTL DEF Spec

-----------------------------------------------------------------------------
(* The log *)

\* A cutoff that does not wrap is a moment the age ago.
LEMMA CutoffFacts ==
    ASSUME now \in 0..MaxTime, NEW age \in Nat, age <= now
    PROVE  Cutoff(age) = now - age
<1> DEFINE past == now - age
<1>1. past \in Nat /\ past < Word /\ Word \in Nat /\ (now + Word) - age = past + Word
    BY RecordsAssumption
<1> HIDE DEF past
<1>2. (past + Word) % Word = past
    BY <1>1
<1> QED
    BY <1>1, <1>2 DEF Cutoff, past

LEMMA AgesFacts == Ages \subseteq Nat
BY RecordsAssumption DEF Ages

\* log.rs: no entry replaces another and none leaves the log but in a prune that
\* was asked to let go of entries of its age: for any number of processes.
THEOREM EntriesAlwaysStay == Spec => EntriesStay
<1> DEFINE Stays == \A t \in DOMAIN log :
        \/ t \in DOMAIN log' /\ log'[t] = log[t]
        \/ \E p \in Processes, age \in Ages :
              Prune(p, age) /\ (age <= now => t < now - age)
<1>1. Typed /\ [Next]_vars => [Stays]_vars
  <2> SUFFICES ASSUME Typed, Next, NEW t \in DOMAIN log
               PROVE  \/ t \in DOMAIN log' /\ log'[t] = log[t]
                      \/ \E p \in Processes, age \in Ages :
                            Prune(p, age) /\ (age <= now => t < now - age)
      OBVIOUS
  <2>1. CASE log' = log
      BY <2>1
  <2>2. ASSUME NEW p \in Processes, Commit(p)
        PROVE  t \in DOMAIN log' /\ log'[t] = log[t]
      BY <2>2 DEF Commit, Stamp, Typed, Past, RecordsTypeOK
  <2>3. ASSUME NEW p \in Processes, NEW age \in Ages, Prune(p, age), t \notin DOMAIN log'
        PROVE  age <= now => t < now - age
    <3>1. SUFFICES ASSUME age <= now PROVE t < now - age
        OBVIOUS
    <3>2. Cutoff(age) = now - age
        BY <3>1, CutoffFacts, AgesFacts DEF Typed, RecordsTypeOK
    <3>3. ~(t >= Cutoff(age))
        BY <2>3 DEF Prune
    <3>4. now \in Nat /\ age \in Nat /\ t \in Nat
        BY AgesFacts, RecordsAssumption DEF Typed, RecordsTypeOK
    <3> QED
        BY <3>1, <3>2, <3>3, <3>4
  <2>4. ASSUME NEW p \in Processes, NEW age \in Ages, Prune(p, age), t \in DOMAIN log'
        PROVE  log'[t] = log[t]
      BY <2>4 DEF Prune
  <2>5. \/ log' = log
        \/ \E p \in Processes : Commit(p)
        \/ \E p \in Processes, age \in Ages : Prune(p, age)
      BY DEF Next, Start, ReadStats, Truncate, WriteStats, OpenLog, ShowLog, Crash, MakeCtx, Tick,
         RecordsOver, vars
  <2> QED
      BY <2>1, <2>2, <2>3, <2>4, <2>5
<1>2. Spec => [][Stays]_vars
    BY <1>1, TypedInit, TypedNext, PTL DEF Spec
<1> QED
    BY <1>2 DEF EntriesStay

-----------------------------------------------------------------------------
(* The counts *)

\* The denials that were counted, or lost, in one of the two files.
DeniedAt(r, f) == {p \in Denied(r) : path[p] = f}

CountInv == \A r \in Rules :
    /\ \A f \in Paths : /\ files[f].stats.blocks[r] <= Cardinality(DeniedAt(r, f))
                        /\ files[f].stats.lastSeen[r] > 0 => files[f].stats.blocks[r] > 0
    /\ \A p \in Processes, f \in Paths :
          path[p] = f => held[p].blocks[r] <= Cardinality(DeniedAt(r, f))
    /\ \A p \in Processes : held[p].lastSeen[r] > 0 => held[p].blocks[r] > 0

LEMMA DeniedFacts ==
    ASSUME NEW r, NEW f
    PROVE  /\ IsFiniteSet(Denied(r)) /\ Cardinality(Denied(r)) \in Nat
           /\ IsFiniteSet(DeniedAt(r, f)) /\ Cardinality(DeniedAt(r, f)) \in Nat
           /\ Cardinality(DeniedAt(r, f)) <= Cardinality(Denied(r))
<1>1. IsFiniteSet(Denied(r))
    BY RecordsAssumption, FS_Subset DEF Denied
<1> QED
    BY <1>1, FS_Subset, FS_CardinalityType DEF DeniedAt

\* No denial is taken back: a process only ever joins those that were counted,
\* and only in the file it resolved when it started.
LEMMA DeniedGrows ==
    ASSUME Typed, NEW p \in Processes, NEW s,
           job' = job, rule' = rule, pc' = [pc EXCEPT ![p] = s],
           path' \in [Processes -> Paths],
           \A q \in Processes : path'[q] = path[q] \/ (q = p /\ pc[p] = "idle"),
           s \in {"idle", "read"} => pc[p] \in {"idle", "read"}
    PROVE  \A r, f : /\ DeniedAt(r, f) \subseteq DeniedAt(r, f)'
                     /\ Cardinality(DeniedAt(r, f)) <= Cardinality(DeniedAt(r, f)')
                     /\ Cardinality(DeniedAt(r, f)) \in Nat
                     /\ Cardinality(DeniedAt(r, f)') \in Nat
<1> TAKE r, f
<1>1. DeniedAt(r, f) \subseteq DeniedAt(r, f)'
    BY DEF DeniedAt, Denied, Typed, RecordsTypeOK
<1>2. IsFiniteSet(DeniedAt(r, f)')
    BY RecordsAssumption, FS_Subset DEF DeniedAt, Denied
<1> QED
    BY <1>1, <1>2, FS_Subset, FS_CardinalityType

\* A step that leaves files, memories and paths alone, or puts a memory to nothing,
\* leaves the counts below the denials, which only grow.
LEMMA CountsOfOthers ==
    ASSUME Typed, CountInv, held' \in [Processes -> Stats], files' = files,
           \A q \in Processes : (path'[q] = path[q] /\ held'[q] = held[q]) \/ held'[q] = NoStats,
           \A r, f : /\ Cardinality(DeniedAt(r, f)) <= Cardinality(DeniedAt(r, f)')
                     /\ Cardinality(DeniedAt(r, f)) \in Nat
                     /\ Cardinality(DeniedAt(r, f)') \in Nat
    PROVE  CountInv'
<1> SUFFICES ASSUME NEW r \in Rules
             PROVE  /\ \A f \in Paths :
                          /\ files'[f].stats.blocks[r] <= Cardinality(DeniedAt(r, f)')
                          /\ files'[f].stats.lastSeen[r] > 0 => files'[f].stats.blocks[r] > 0
                    /\ \A q \in Processes, f \in Paths :
                          path'[q] = f => held'[q].blocks[r] <= Cardinality(DeniedAt(r, f)')
                    /\ \A q \in Processes : held'[q].lastSeen[r] > 0 => held'[q].blocks[r] > 0
    BY DEF CountInv
<1>1. ASSUME NEW f \in Paths
      PROVE  /\ files'[f].stats.blocks[r] <= Cardinality(DeniedAt(r, f)')
             /\ files'[f].stats.lastSeen[r] > 0 => files'[f].stats.blocks[r] > 0
  <2>1. files[f].stats.blocks[r] \in Nat
    BY ContentsFacts DEF Typed, RecordsTypeOK, Stats
  <2> QED
    BY <2>1 DEF CountInv
<1>2. ASSUME NEW q \in Processes, NEW f \in Paths
      PROVE  /\ path'[q] = f => held'[q].blocks[r] <= Cardinality(DeniedAt(r, f)')
             /\ held'[q].lastSeen[r] > 0 => held'[q].blocks[r] > 0
  <2>1. CASE held'[q] = NoStats
    BY <2>1 DEF NoStats
  <2>2. CASE path'[q] = path[q] /\ held'[q] = held[q]
    <3>1. held[q].blocks[r] \in Nat
      BY DEF Typed, RecordsTypeOK, Stats
    <3> QED
      BY <2>2, <3>1 DEF CountInv
  <2> QED
    BY <2>1, <2>2
<1> QED
    BY <1>1, <1>2 DEF Paths

\* The one step that counts: what was read, and one for the denial of p, which
\* from now on is among those of its file.
LEMMA ReadCounts ==
    ASSUME Typed, CountInv, NEW p \in Processes, ReadStats(p)
    PROVE  CountInv'
<1>1. \A r, f : /\ Cardinality(DeniedAt(r, f)) <= Cardinality(DeniedAt(r, f)')
                /\ Cardinality(DeniedAt(r, f)) \in Nat
                /\ Cardinality(DeniedAt(r, f)') \in Nat
    BY DeniedGrows DEF ReadStats, Goto, taskVars, Typed, RecordsTypeOK
<1>2. \A f \in Paths, r \in Rules : /\ files[f].stats \in Stats
                                    /\ files[f].stats.blocks[r] \in Nat
                                    /\ files[f].stats.lastSeen[r] \in Nat
    BY ContentsFacts, RecordsAssumption DEF Typed, RecordsTypeOK, Stats
<1>3. /\ path[p] \in Paths /\ path' = path /\ files' = files
      /\ \A q \in Processes \ {p} : held'[q] = held[q]
    BY DEF ReadStats, Typed, RecordsTypeOK
<1>4. PICK f \in Paths : f = path[p]
    BY <1>3
<1> DEFINE read == files[f].stats
<1>5. ASSUME NEW r \in Rules
      PROVE  /\ held'[p].blocks[r] <= Cardinality(DeniedAt(r, f)')
             /\ held'[p].lastSeen[r] > 0 => held'[p].blocks[r] > 0
  <2>1. /\ read.blocks[r] \in Nat /\ read \in Stats
        /\ read.blocks[r] <= Cardinality(DeniedAt(r, f))
        /\ read.lastSeen[r] > 0 => read.blocks[r] > 0
    BY <1>2 DEF CountInv
  <2>2. CASE job[p] = "deny" /\ rule[p] = r
    <3>1. held'[p] = Counted(read, r, now)
      BY <1>4, <2>2 DEF ReadStats, Typed, RecordsTypeOK
    <3>2. held'[p].blocks[r] = read.blocks[r] + 1
      BY <2>1, <3>1, CountedFacts DEF Typed, RecordsTypeOK
    <3>3. p \notin DeniedAt(r, f)
      BY DEF ReadStats, DeniedAt, Denied
    <3>4. DeniedAt(r, f)' = DeniedAt(r, f) \cup {p}
      BY <1>3, <1>4, <2>2 DEF ReadStats, Goto, taskVars, DeniedAt, Denied, Typed, RecordsTypeOK
    <3>5. Cardinality(DeniedAt(r, f)') = Cardinality(DeniedAt(r, f)) + 1
      BY <3>3, <3>4, DeniedFacts, FS_AddElement
    <3> QED
      BY <1>1, <2>1, <3>2, <3>5
  <2>3. CASE job[p] = "deny" /\ rule[p] # r
    <3>1. held'[p] = Counted(read, rule[p], now) /\ rule[p] \in Rules
      BY <1>4, <2>3 DEF ReadStats, Typed, RecordsTypeOK
    <3>2. held'[p].blocks[r] = read.blocks[r] /\ held'[p].lastSeen[r] = read.lastSeen[r]
      BY <2>1, <2>3, <3>1, CountedFacts DEF Typed, RecordsTypeOK
    <3> QED
      BY <1>1, <2>1, <3>2
  <2>4. CASE job[p] # "deny"
    <3>1. held'[p] = read
      BY <1>4, <2>4 DEF ReadStats, Typed, RecordsTypeOK
    <3> QED
      BY <1>1, <2>1, <3>1
  <2> QED
    BY <2>2, <2>3, <2>4
<1>6. ASSUME NEW q \in Processes \ {p}, NEW r \in Rules, NEW g \in Paths
      PROVE  /\ path[q] = g => held'[q].blocks[r] <= Cardinality(DeniedAt(r, g)')
             /\ held'[q].lastSeen[r] > 0 => held'[q].blocks[r] > 0
  <2>1. held[q].blocks[r] \in Nat
    BY DEF Typed, RecordsTypeOK, Stats
  <2> QED
    BY <1>1, <1>3, <2>1 DEF CountInv
<1>7. ASSUME NEW g \in Paths, NEW r \in Rules
      PROVE  /\ files'[g].stats.blocks[r] <= Cardinality(DeniedAt(r, g)')
             /\ files'[g].stats.lastSeen[r] > 0 => files'[g].stats.blocks[r] > 0
    BY <1>1, <1>2, <1>3 DEF CountInv
<1>8. \A q \in Processes, g \in Paths, r \in Rules :
          /\ path'[q] = g => held'[q].blocks[r] <= Cardinality(DeniedAt(r, g)')
          /\ held'[q].lastSeen[r] > 0 => held'[q].blocks[r] > 0
    BY <1>3, <1>4, <1>5, <1>6
<1> QED
    BY <1>7, <1>8, <1>4 DEF CountInv

\* A torn write loses what was counted, a whole one leaves what p held, which was
\* no more than the denials of its file.
LEMMA WriteCounts ==
    ASSUME Typed, CountInv, NEW p \in Processes, WriteStats(p)
    PROVE  CountInv'
<1>1. \A r, f : /\ Cardinality(DeniedAt(r, f)) <= Cardinality(DeniedAt(r, f)')
                /\ Cardinality(DeniedAt(r, f)) \in Nat
                /\ Cardinality(DeniedAt(r, f)') \in Nat
    BY DeniedGrows DEF WriteStats, Goto, taskVars, Typed, RecordsTypeOK
<1>2. /\ path[p] \in Paths /\ path' = path
      /\ \A f \in Paths \ {path[p]} : files'[f] = files[f]
      /\ files'[path[p]] \in {Json(held[p]), Garbled}
      /\ \A q \in Processes : held'[q] = IF q = p THEN NoStats ELSE held[q]
  <2>1. held[p] \in Stats /\ files[path[p]] \in Contents /\ path[p] \in Paths
    BY DEF Typed, RecordsTypeOK
  <2>2. PICK text \in Overwrite(files[path[p]], Json(held[p])) :
            files' = [files EXCEPT ![path[p]] = text]
    BY DEF WriteStats
  <2>3. text = Json(held[p]) \/ text = Garbled
    BY <2>1, OverwriteFacts
  <2> QED
    BY <2>1, <2>2, <2>3 DEF WriteStats, Typed, RecordsTypeOK
<1>3. ASSUME NEW f \in Paths, NEW r \in Rules
      PROVE  /\ files'[f].stats.blocks[r] <= Cardinality(DeniedAt(r, f)')
             /\ files'[f].stats.lastSeen[r] > 0 => files'[f].stats.blocks[r] > 0
  <2>1. files[f].stats.blocks[r] \in Nat /\ held[p].blocks[r] \in Nat
    BY ContentsFacts DEF Typed, RecordsTypeOK, Stats
  <2>2. CASE f # path[p]
    BY <1>1, <1>2, <2>1, <2>2 DEF CountInv
  <2>3. CASE files'[f] = Json(held[p]) /\ f = path[p]
    BY <1>1, <2>1, <2>3 DEF CountInv, Json
  <2>4. CASE files'[f] = Garbled
    BY <1>1, <2>4 DEF Garbled, NoStats
  <2> QED
    BY <1>2, <2>2, <2>3, <2>4
<1>4. ASSUME NEW q \in Processes, NEW f \in Paths, NEW r \in Rules
      PROVE  /\ path'[q] = f => held'[q].blocks[r] <= Cardinality(DeniedAt(r, f)')
             /\ held'[q].lastSeen[r] > 0 => held'[q].blocks[r] > 0
  <2>1. held[q].blocks[r] \in Nat
    BY DEF Typed, RecordsTypeOK, Stats
  <2>2. CASE q # p
    BY <1>1, <1>2, <2>1, <2>2 DEF CountInv
  <2>3. CASE q = p
    BY <1>1, <1>2, <2>3 DEF NoStats
  <2> QED
    BY <2>2, <2>3
<1> QED
    BY <1>3, <1>4, <1>2 DEF CountInv

LEMMA CountInit == Init => CountInv
<1> SUFFICES ASSUME Init PROVE CountInv
    OBVIOUS
<1>1. \A r, f : Cardinality(DeniedAt(r, f)) \in Nat
    BY DeniedFacts
<1> QED
    BY <1>1 DEF Init, CountInv, Absent, NoStats

LEMMA CountNext == Typed /\ Typed' /\ CountInv /\ [Next]_vars => CountInv'
<1> SUFFICES ASSUME Typed, Typed', CountInv, [Next]_vars PROVE CountInv'
    OBVIOUS
<1> USE DEF Goto, taskVars
<1> DEFINE Grows == \A r, f : /\ Cardinality(DeniedAt(r, f)) <= Cardinality(DeniedAt(r, f)')
                              /\ Cardinality(DeniedAt(r, f)) \in Nat
                              /\ Cardinality(DeniedAt(r, f)') \in Nat
<1>1. held' \in [Processes -> Stats] /\ path' \in [Processes -> Paths]
    BY DEF Typed, RecordsTypeOK
<1>2. ASSUME NEW p \in Processes, Start(p) PROVE CountInv'
  <2>1. Grows
    BY <1>1, <1>2, DeniedGrows DEF Start, Typed, RecordsTypeOK
  <2>2. \A q \in Processes : (path'[q] = path[q] /\ held'[q] = held[q]) \/ held'[q] = NoStats
    BY <1>2 DEF Start, Typed, RecordsTypeOK, AtWork
  <2> QED
    BY <1>1, <1>2, <2>1, <2>2, CountsOfOthers DEF Start
<1>3. ASSUME NEW p \in Processes, ReadStats(p) PROVE CountInv'
    BY <1>3, ReadCounts
<1>4. ASSUME NEW p \in Processes, Truncate(p) PROVE CountInv'
  <2>1. Grows
    BY <1>1, <1>4, DeniedGrows DEF Truncate, Typed, RecordsTypeOK
  <2>2. /\ path' = path /\ held' = held
        /\ \A f \in Paths : files'[f] = files[f] \/ files'[f] = Empty
    BY <1>4 DEF Truncate, Typed, RecordsTypeOK
  <2>3. ASSUME NEW f \in Paths, NEW r \in Rules
        PROVE  /\ files'[f].stats.blocks[r] <= Cardinality(DeniedAt(r, f)')
               /\ files'[f].stats.lastSeen[r] > 0 => files'[f].stats.blocks[r] > 0
    <3>1. files[f].stats.blocks[r] \in Nat
      BY ContentsFacts DEF Typed, RecordsTypeOK, Stats
    <3>2. CASE files'[f] = files[f]
      BY <2>1, <3>1, <3>2 DEF CountInv
    <3>3. CASE files'[f] = Empty
      BY <2>1, <3>3 DEF Empty, NoStats
    <3> QED
      BY <2>2, <3>2, <3>3
  <2>4. ASSUME NEW q \in Processes, NEW f \in Paths, NEW r \in Rules
        PROVE  /\ path'[q] = f => held'[q].blocks[r] <= Cardinality(DeniedAt(r, f)')
               /\ held'[q].lastSeen[r] > 0 => held'[q].blocks[r] > 0
    <3>1. held[q].blocks[r] \in Nat
      BY DEF Typed, RecordsTypeOK, Stats
    <3> QED
      BY <2>1, <2>2, <3>1 DEF CountInv
  <2> QED
    BY <2>3, <2>4 DEF CountInv, Paths
<1>5. ASSUME NEW p \in Processes, WriteStats(p) PROVE CountInv'
    BY <1>5, WriteCounts
<1>6. ASSUME NEW p \in Processes,
             \/ OpenLog(p) \/ Commit(p) \/ ShowLog(p) \/ Crash(p)
             \/ \E age \in Ages : Prune(p, age)
      PROVE  CountInv'
  <2>1. /\ job' = job /\ rule' = rule /\ path' = path /\ files' = files
        /\ \/ pc' = [pc EXCEPT ![p] = "over"]
           \/ pc[p] = "open" /\ pc' = [pc EXCEPT ![p] = "commit"]
        /\ \A q \in Processes : held'[q] = held[q] \/ held'[q] = NoStats
    BY <1>6 DEF OpenLog, Commit, ShowLog, Crash, Prune, Typed, RecordsTypeOK
  <2>2. Grows
    BY <1>1, <2>1, DeniedGrows
  <2> QED
    BY <1>1, <2>1, <2>2, CountsOfOthers
<1>7. CASE MakeCtx \/ Tick \/ UNCHANGED vars
  <2>1. /\ job' = job /\ rule' = rule /\ path' = path /\ files' = files
        /\ pc' = pc /\ held' = held
    BY <1>7 DEF MakeCtx, Tick, vars
  <2>2. \A r, f : DeniedAt(r, f)' = DeniedAt(r, f)
    BY <2>1 DEF DeniedAt, Denied
  <2> QED
    BY <2>1, <2>2 DEF CountInv
<1> QED
    BY <1>2, <1>3, <1>4, <1>5, <1>6, <1>7 DEF Next, RecordsOver

\* Every denial is in one of the two files.
LEMMA DeniedSplits ==
    ASSUME Typed, NEW r
    PROVE  Cardinality(Denied(r))
               = Cardinality(DeniedAt(r, "local")) + Cardinality(DeniedAt(r, "global"))
<1>1. Denied(r) = DeniedAt(r, "local") \cup DeniedAt(r, "global")
      /\ DeniedAt(r, "local") \cap DeniedAt(r, "global") = {}
    BY DEF DeniedAt, Denied, Typed, RecordsTypeOK, Paths
<1>2. /\ IsFiniteSet(DeniedAt(r, "local")) /\ Cardinality(DeniedAt(r, "local")) \in Nat
      /\ IsFiniteSet(DeniedAt(r, "global")) /\ Cardinality(DeniedAt(r, "global")) \in Nat
    BY DeniedFacts
<1>3. Cardinality(DeniedAt(r, "local") \cup DeniedAt(r, "global"))
          = Cardinality(DeniedAt(r, "local")) + Cardinality(DeniedAt(r, "global"))
            - Cardinality(DeniedAt(r, "local") \cap DeniedAt(r, "global"))
    BY <1>2, FS_Union
<1>4. Cardinality(DeniedAt(r, "local") \cap DeniedAt(r, "global")) = 0
    BY <1>1, FS_EmptySet
<1> QED
    BY <1>1, <1>2, <1>3, <1>4

\* record_block (stats.rs): however many processes overlap on the files, tear
\* them or die, no rule is ever counted more often than it denied.
THEOREM CountsAlwaysJustified == Spec => []CountsJustified
<1>1. Typed /\ CountInv => CountsJustified
  <2> SUFFICES ASSUME Typed, CountInv, NEW r \in Rules
               PROVE  /\ Total(r) <= Cardinality(Denied(r))
                      /\ \A p \in Processes : held[p].blocks[r] <= Cardinality(Denied(r))
                      /\ \A f \in Paths :
                            files[f].stats.lastSeen[r] > 0 => files[f].stats.blocks[r] > 0
    BY DEF CountsJustified
  <2>2. Cardinality(Denied(r))
            = Cardinality(DeniedAt(r, "local")) + Cardinality(DeniedAt(r, "global"))
    BY DeniedSplits
  <2>3. \A f \in Paths : files[f].stats.blocks[r] \in Nat
    BY ContentsFacts DEF Typed, RecordsTypeOK, Stats
  <2>4. Total(r) <= Cardinality(Denied(r))
    BY <2>2, <2>3, DeniedFacts DEF Total, CountInv, Paths
  <2>5. ASSUME NEW p \in Processes PROVE held[p].blocks[r] <= Cardinality(Denied(r))
    <3>1. held[p].blocks[r] \in Nat /\ path[p] \in Paths
      BY DEF Typed, RecordsTypeOK, Stats
    <3> QED
      BY <3>1, DeniedFacts DEF CountInv
  <2> QED
    BY <2>4, <2>5 DEF CountInv
<1> QED
    BY <1>1, TypedInit, TypedNext, CountInit, CountNext, PTL DEF Spec

-----------------------------------------------------------------------------
(* Nothing is lost while processes run one after another *)

\* Who denied or saw an event, and is over, is in the log or was pruned from it.
LogInv ==
    ~faulted => \A p \in Processes : job[p] \in {"deny", "event"} /\ pc[p] = "over" =>
        p \in pruned \/ \E t \in DOMAIN log : log[t].by = p

Writing(p) == pc[p] \in {"truncate", "write"}

\* A file counts all of its denials, or the one process that is about to write
\* it does.
SerialInv == exclusive /\ ~faulted =>
    /\ \A p, q \in Processes : Running(p) /\ Running(q) => p = q
    /\ \A p \in Processes : pc[p] = "write" => files[path[p]].kind = "empty"
    /\ \A f \in Paths, r \in Rules :
          (\A p \in Processes : Writing(p) => path[p] # f)
              => files[f].stats.blocks[r] = Cardinality(DeniedAt(r, f))
    /\ \A p \in Processes, f \in Paths, r \in Rules :
          Writing(p) /\ path[p] = f => held[p].blocks[r] = Cardinality(DeniedAt(r, f))

LEMMA LogInit == Init => LogInv
BY DEF Init, LogInv

LEMMA LogNext == Typed /\ LogInv /\ [Next]_vars => LogInv'
<1> SUFFICES ASSUME Typed, LogInv, [Next]_vars, ~faulted',
                    NEW q \in Processes, job'[q] \in {"deny", "event"}, pc'[q] = "over"
             PROVE  q \in pruned' \/ \E t \in DOMAIN log' : log'[t].by = q
    BY DEF LogInv
<1> USE DEF Goto, taskVars, Typed, RecordsTypeOK
<1>1. ASSUME NEW p \in Processes, Start(p) \/ ReadStats(p) \/ Truncate(p) \/ WriteStats(p)
      PROVE  q \in pruned' \/ \E t \in DOMAIN log' : log'[t].by = q
    BY <1>1 DEF Start, ReadStats, Truncate, WriteStats, LogInv, AtWork
<1>2. ASSUME NEW p \in Processes, OpenLog(p) \/ ShowLog(p) \/ Crash(p)
      PROVE  q \in pruned' \/ \E t \in DOMAIN log' : log'[t].by = q
    BY <1>2 DEF OpenLog, ShowLog, Crash, LogInv
<1>3. ASSUME NEW p \in Processes, Commit(p)
      PROVE  q \in pruned' \/ \E t \in DOMAIN log' : log'[t].by = q
  <2>1. CASE q = p
    <3>1. now \in DOMAIN log' /\ log'[now].by = p
      BY <1>3 DEF Commit, Stamp, Entry
    <3> QED
      BY <2>1, <3>1
  <2>2. CASE q # p
    <3>1. \A t \in DOMAIN log : t \in DOMAIN log' /\ log'[t] = log[t]
      BY <1>3 DEF Commit, Stamp, Past
    <3>2. q \in pruned \/ \E t \in DOMAIN log : log[t].by = q
      BY <1>3, <2>2 DEF Commit, LogInv
    <3> QED
      BY <1>3, <3>1, <3>2 DEF Commit
  <2> QED
    BY <2>1, <2>2
<1>4. ASSUME NEW p \in Processes, NEW age \in Ages, Prune(p, age)
      PROVE  q \in pruned' \/ \E t \in DOMAIN log' : log'[t].by = q
  <2>1. q # p
    BY <1>4 DEF Prune
  <2>2. q \in pruned \/ \E t \in DOMAIN log : log[t].by = q
    BY <1>4, <2>1 DEF Prune, LogInv
  <2>3. /\ \A t \in DOMAIN log' : log'[t] = log[t]
        /\ pruned' = pruned \cup {log[t].by : t \in DOMAIN log \ DOMAIN log'}
    BY <1>4 DEF Prune
  <2> QED
    BY <2>2, <2>3
<1>5. CASE MakeCtx \/ Tick \/ UNCHANGED vars
    BY <1>5 DEF MakeCtx, Tick, vars, LogInv
<1> QED
    BY <1>1, <1>2, <1>3, <1>4, <1>5 DEF Next, RecordsOver

\* Only a denial that is read for changes which denials there are.
LEMMA DeniedStays ==
    ASSUME Typed, NEW p \in Processes, NEW s,
           job' = job, rule' = rule, pc' = [pc EXCEPT ![p] = s],
           \A q \in Processes : path'[q] = path[q] \/ (q = p /\ pc[p] = "idle"),
           job[p] = "deny" => (s \in {"idle", "read"} <=> pc[p] \in {"idle", "read"})
    PROVE  \A r, f : DeniedAt(r, f)' = DeniedAt(r, f)
BY DEF DeniedAt, Denied, Typed, RecordsTypeOK

LEMMA SerialInit == Init => SerialInv
<1> SUFFICES ASSUME Init PROVE SerialInv
    OBVIOUS
<1>1. \A r, f : DeniedAt(r, f) = {}
    BY DEF Init, DeniedAt, Denied
<1>2. \A r, f : Cardinality(DeniedAt(r, f)) = 0
    BY <1>1, FS_EmptySet
<1> QED
    BY <1>2 DEF Init, SerialInv, Running, Writing, Absent, NoStats

LEMMA SerialNext == Typed /\ Typed' /\ SerialInv /\ [Next]_vars => SerialInv'
<1> SUFFICES ASSUME Typed, Typed', SerialInv, [Next]_vars, exclusive', ~faulted'
             PROVE  SerialInv'
    BY DEF SerialInv
<1> USE DEF Goto, taskVars
<1>1. exclusive /\ ~faulted
  <2>1. \A p \in Processes :
            Start(p) \/ ReadStats(p) \/ Truncate(p) \/ WriteStats(p) \/ OpenLog(p)
                => exclusive' = exclusive /\ (faulted' = faulted \/ faulted' = TRUE)
    BY DEF Start, ReadStats, Truncate, WriteStats, OpenLog
  <2>2. \A p \in Processes :
            Commit(p) \/ ShowLog(p) \/ (\E age \in Ages : Prune(p, age)) \/ Crash(p)
                => exclusive' = exclusive /\ (faulted' = faulted \/ faulted' = TRUE)
    BY DEF Commit, ShowLog, Prune, Crash
  <2>3. MakeCtx \/ Tick \/ UNCHANGED vars => exclusive' = exclusive /\ faulted' = faulted
    BY DEF MakeCtx, Tick, vars
  <2>4. exclusive' = exclusive /\ (faulted' = faulted \/ faulted' = TRUE)
    BY <2>1, <2>2, <2>3 DEF Next, RecordsOver
  <2> QED
    BY <2>4
<1>2. /\ \A p, q \in Processes : Running(p) /\ Running(q) => p = q
      /\ \A p \in Processes : pc[p] = "write" => files[path[p]].kind = "empty"
      /\ \A f \in Paths, r \in Rules :
            (\A p \in Processes : Writing(p) => path[p] # f)
                => files[f].stats.blocks[r] = Cardinality(DeniedAt(r, f))
      /\ \A p \in Processes, f \in Paths, r \in Rules :
            Writing(p) /\ path[p] = f => held[p].blocks[r] = Cardinality(DeniedAt(r, f))
    BY <1>1 DEF SerialInv
\* Steps that touch no file and no denial.
<1>3. ASSUME NEW p \in Processes, NEW s, ~Writing(p), s \notin {"truncate", "write"},
             pc' = [pc EXCEPT ![p] = s], files' = files,
             \A q \in Processes \ {p} : path'[q] = path[q] /\ held'[q] = held[q],
             \A q \in Processes \ {p} : ~Running(q),
             \A r, f : DeniedAt(r, f)' = DeniedAt(r, f)
      PROVE  SerialInv'
  <2>1. \A q \in Processes : ~Writing(q) /\ ~Writing(q)'
    BY <1>3 DEF Writing, Running, Typed, RecordsTypeOK
  <2>2. \A q, o \in Processes : Running(q)' /\ Running(o)' => q = o
    BY <1>3 DEF Running, Typed, RecordsTypeOK
  <2> QED
    BY <1>2, <1>3, <2>1, <2>2 DEF SerialInv, Writing
<1>4. ASSUME NEW p \in Processes, Start(p) PROVE SerialInv'
  <2>1. PICK s : pc' = [pc EXCEPT ![p] = s] /\ s \in {"read", "open"}
                 /\ (job[p] = "deny" => s = "read")
    BY <1>4 DEF Start
  <2>2. \A r, f : DeniedAt(r, f)' = DeniedAt(r, f)
    BY <1>4, <2>1, DeniedStays DEF Start, Typed, RecordsTypeOK
  <2> QED
    BY <1>1, <1>3, <1>4, <2>1, <2>2 DEF Start, Writing, Typed, RecordsTypeOK
<1>5. ASSUME NEW p \in Processes, Running(p) PROVE \A q \in Processes \ {p} : ~Running(q)
    BY <1>2, <1>5
<1>6. ASSUME NEW p \in Processes, OpenLog(p) \/ Commit(p) \/ ShowLog(p) \/ \E age \in Ages : Prune(p, age)
      PROVE  SerialInv'
  <2>1. PICK s : pc' = [pc EXCEPT ![p] = s] /\ s \in {"commit", "over"}
    BY <1>6 DEF OpenLog, Commit, ShowLog, Prune
  <2>2. /\ pc[p] \in {"open", "commit"} /\ job' = job /\ rule' = rule
        /\ path' = path /\ held' = held /\ files' = files
    BY <1>6 DEF OpenLog, Commit, ShowLog, Prune
  <2>3. \A r, f : DeniedAt(r, f)' = DeniedAt(r, f)
    BY <2>1, <2>2, DeniedStays
  <2>4. \A q \in Processes \ {p} : ~Running(q)
    BY <2>2, <1>5 DEF Running
  <2> QED
    BY <1>3, <2>1, <2>2, <2>3, <2>4 DEF Writing
<1>7. ASSUME NEW p \in Processes, ReadStats(p), job[p] # "deny" PROVE SerialInv'
  <2>1. /\ pc' = [pc EXCEPT ![p] = "over"] /\ pc[p] = "read" /\ job' = job /\ rule' = rule
        /\ path' = path /\ files' = files
        /\ \A q \in Processes \ {p} : held'[q] = held[q]
    BY <1>7 DEF ReadStats, Typed, RecordsTypeOK
  <2>2. \A r, f : DeniedAt(r, f)' = DeniedAt(r, f)
    BY <1>7, <2>1, DeniedStays
  <2>3. \A q \in Processes \ {p} : ~Running(q)
    BY <2>1, <1>5 DEF Running
  <2> QED
    BY <1>3, <2>1, <2>2, <2>3 DEF Writing
<1>8. ASSUME NEW p \in Processes, ReadStats(p), job[p] = "deny" PROVE SerialInv'
  <2>1. /\ pc' = [pc EXCEPT ![p] = "truncate"] /\ pc[p] = "read" /\ job' = job /\ rule' = rule
        /\ path' = path /\ files' = files /\ path[p] \in Paths
        /\ held'[p] = Counted(files[path[p]].stats, rule[p], now)
        /\ \A q \in Processes : pc'[q] = IF q = p THEN "truncate" ELSE pc[q]
    BY <1>8 DEF ReadStats, Typed, RecordsTypeOK
  <2>2. \A q \in Processes \ {p} : ~Running(q)
    BY <2>1, <1>5 DEF Running
  <2>3. /\ \A q \in Processes : ~Writing(q)
        /\ \A q \in Processes : Running(q)' <=> q = p
        /\ \A q \in Processes : Writing(q)' <=> q = p
    BY <2>1, <2>2 DEF Writing, Running
  <2>4. \A f \in Paths, r \in Rules : files[f].stats.blocks[r] = Cardinality(DeniedAt(r, f))
    BY <1>2, <2>3
  <2>5. ASSUME NEW f \in Paths, NEW r \in Rules, f # path[p]
        PROVE  files'[f].stats.blocks[r] = Cardinality(DeniedAt(r, f)')
    <3>1. DeniedAt(r, f)' = DeniedAt(r, f)
      BY <2>1, <2>5 DEF DeniedAt, Denied, Typed, RecordsTypeOK
    <3> QED
      BY <2>1, <2>4, <3>1
  <2>6. ASSUME NEW f \in Paths, NEW r \in Rules, f = path[p]
        PROVE  held'[p].blocks[r] = Cardinality(DeniedAt(r, f)')
    <3>1. files[f].stats \in Stats /\ rule[p] \in Rules /\ now \in 0..MaxTime
      BY ContentsFacts DEF Typed, RecordsTypeOK
    <3>2. held'[p].blocks[r]
              = IF r = rule[p] THEN files[f].stats.blocks[r] + 1 ELSE files[f].stats.blocks[r]
      BY <2>1, <2>6, <3>1, CountedFacts
    <3>3. CASE r = rule[p]
      <4>1. p \notin DeniedAt(r, f) /\ DeniedAt(r, f)' = DeniedAt(r, f) \cup {p}
        BY <1>8, <2>1, <2>6, <3>3 DEF DeniedAt, Denied, Typed, RecordsTypeOK
      <4>2. Cardinality(DeniedAt(r, f)') = Cardinality(DeniedAt(r, f)) + 1
        BY <4>1, DeniedFacts, FS_AddElement
      <4> QED
        BY <2>4, <3>2, <3>3, <4>2
    <3>4. CASE r # rule[p]
      <4>1. DeniedAt(r, f)' = DeniedAt(r, f)
        BY <2>1, <3>4 DEF DeniedAt, Denied, Typed, RecordsTypeOK
      <4> QED
        BY <2>4, <3>2, <3>4, <4>1
    <3> QED
      BY <3>3, <3>4
  <2>7. /\ \A q, o \in Processes : Running(q)' /\ Running(o)' => q = o
        /\ \A q \in Processes : pc'[q] # "write"
    BY <2>1, <2>2, <2>3 DEF Running
  <2>8. \A f \in Paths, r \in Rules :
            (\A q \in Processes : Writing(q)' => path'[q] # f)
                => files'[f].stats.blocks[r] = Cardinality(DeniedAt(r, f)')
    BY <2>1, <2>3, <2>5
  <2>9. \A q \in Processes, f \in Paths, r \in Rules :
            Writing(q)' /\ path'[q] = f => held'[q].blocks[r] = Cardinality(DeniedAt(r, f)')
    BY <2>1, <2>3, <2>6
  <2> QED
    BY <2>7, <2>8, <2>9 DEF SerialInv
<1>9. ASSUME NEW p \in Processes, Truncate(p) PROVE SerialInv'
  <2>1. /\ pc' = [pc EXCEPT ![p] = "write"] /\ pc[p] = "truncate" /\ job' = job /\ rule' = rule
        /\ path' = path /\ held' = held /\ path[p] \in Paths
        /\ files'[path[p]] = Empty
        /\ \A f \in Paths \ {path[p]} : files'[f] = files[f]
        /\ \A q \in Processes : pc'[q] = IF q = p THEN "write" ELSE pc[q]
    BY <1>9 DEF Truncate, Typed, RecordsTypeOK
  <2>2. \A q \in Processes \ {p} : ~Running(q)
    BY <2>1, <1>5 DEF Running
  <2>3. /\ \A q \in Processes : Running(q)' <=> q = p
        /\ \A q \in Processes : Writing(q) <=> q = p
        /\ \A q \in Processes : Writing(q)' <=> q = p
    BY <2>1, <2>2 DEF Writing, Running
  <2>4. \A r, f : DeniedAt(r, f)' = DeniedAt(r, f)
    BY <2>1, DeniedStays
  <2>5. \A q \in Processes : pc'[q] = "write" => q = p
    BY <2>1, <2>3 DEF Writing
  <2> QED
    BY <1>2, <2>1, <2>3, <2>4, <2>5 DEF SerialInv, Empty
<1>10. ASSUME NEW p \in Processes, WriteStats(p) PROVE SerialInv'
  <2>1. /\ pc' = [pc EXCEPT ![p] = "open"] /\ pc[p] = "write" /\ job' = job /\ rule' = rule
        /\ path' = path /\ path[p] \in Paths
        /\ \A f \in Paths \ {path[p]} : files'[f] = files[f]
        /\ \A q \in Processes : pc'[q] = IF q = p THEN "open" ELSE pc[q]
    BY <1>10 DEF WriteStats, Typed, RecordsTypeOK
  <2>2. files'[path[p]] = Json(held[p])
    BY <1>2, <1>10, <2>1 DEF WriteStats, Overwrite, Typed, RecordsTypeOK
  <2>3. \A q \in Processes \ {p} : ~Running(q)
    BY <2>1, <1>5 DEF Running
  <2>4. /\ \A q \in Processes : Running(q)' => q = p
        /\ \A q \in Processes : Writing(q) <=> q = p
        /\ \A q \in Processes : ~Writing(q)' /\ pc'[q] # "write"
    BY <2>1, <2>3 DEF Writing, Running
  <2>5. \A r, f : DeniedAt(r, f)' = DeniedAt(r, f)
    BY <2>1, DeniedStays
  <2>6. \A f \in Paths, r \in Rules : files'[f].stats.blocks[r] = Cardinality(DeniedAt(r, f)')
    BY <1>2, <2>1, <2>2, <2>4, <2>5 DEF Json
  <2> QED
    BY <2>4, <2>6 DEF SerialInv
<1>11. ASSUME NEW p \in Processes, Crash(p) PROVE SerialInv'
    BY <1>11 DEF Crash
<1>12. CASE MakeCtx \/ Tick \/ UNCHANGED vars
  <2>1. /\ job' = job /\ rule' = rule /\ path' = path /\ files' = files /\ pc' = pc /\ held' = held
    BY <1>12 DEF MakeCtx, Tick, vars
  <2>2. /\ \A r, f : DeniedAt(r, f)' = DeniedAt(r, f)
        /\ \A q \in Processes : (Running(q)' <=> Running(q)) /\ (Writing(q)' <=> Writing(q))
    BY <2>1 DEF DeniedAt, Denied, Running, Writing
  <2> QED
    BY <1>2, <2>1, <2>2 DEF SerialInv
<1> QED
    BY <1>4, <1>6, <1>7, <1>8, <1>9, <1>10, <1>11, <1>12 DEF Next, RecordsOver

\* pre.rs: when processes run one after another and none dies, every denial is
\* counted exactly once and on record unless pruned, for any number of them and
\* wherever the project's directory appears in between.
THEOREM DenialsAlwaysOnRecord == Spec => []DenialsOnRecord
<1>1. Typed /\ SerialInv /\ LogInv => DenialsOnRecord
  <2> SUFFICES ASSUME Typed, SerialInv, LogInv, exclusive, ~faulted,
                      \A p \in Processes : ~Running(p)
               PROVE  /\ \A r \in Rules : Total(r) = Cardinality(Denied(r))
                      /\ \A p \in Processes : job[p] \in {"deny", "event"} /\ pc[p] = "over" =>
                            p \in pruned \/ \E t \in DOMAIN log : log[t].by = p
    BY DEF DenialsOnRecord
  <2>1. \A f \in Paths, r \in Rules : files[f].stats.blocks[r] = Cardinality(DeniedAt(r, f))
    BY DEF SerialInv, Writing, Running
  <2>2. ASSUME NEW r \in Rules PROVE Total(r) = Cardinality(Denied(r))
    BY <2>1, DeniedSplits DEF Total, Paths
  <2> QED
    BY <2>2 DEF LogInv
<1> QED
    BY <1>1, TypedInit, TypedNext, LogInit, LogNext, SerialInit, SerialNext, PTL DEF Spec

-----------------------------------------------------------------------------
(* What is reported of the log *)

\* A sequence of as many different elements as the set has lists the whole set.
LEMMA SeqsListAll ==
    ASSUME NEW S, IsFiniteSet(S), NEW l \in SetToSeqs(S)
    PROVE  /\ Len(l) = Cardinality(S) /\ Len(l) \in Nat /\ DOMAIN l = 1..Len(l)
           /\ l \in Seq(S)
           /\ ToSet(l) = S
           /\ \A i, j \in DOMAIN l : i # j => l[i] # l[j]
<1> DEFINE n == Cardinality(S)
<1>1. n \in Nat
  BY FS_CardinalityType
<1>2. l \in [1..n -> S] /\ \A i, j \in 1..n : i # j => l[i] # l[j]
  BY DEF SetToSeqs
<1> HIDE DEF n
<1>3. DOMAIN l = 1..n /\ Len(l) = n /\ l \in Seq(S)
  BY <1>1, <1>2
<1>4. ToSet(l) \in SUBSET S
  BY <1>2 DEF ToSet
<1>5. ExistsBijection(1..n, ToSet(l))
  <2>1. l \in Bijection(1..n, ToSet(l))
    BY <1>2 DEF ToSet, Bijection, Injection, Surjection, IsInjective
  <2>2. QED
    BY <2>1 DEF ExistsBijection
<1>6. Cardinality(ToSet(l)) = n
  BY <1>1, <1>5, FS_CountingElements
<1>7. ToSet(l) = S
  BY <1>4, <1>6, FS_Subset DEF n
<1>8. QED
  BY <1>1, <1>2, <1>3, <1>7 DEF n

Descending(l) == \A i, j \in DOMAIN l : i < j => l[i] > l[j]

\* A bounded set of times can be listed newest first.
LEMMA ListedNewestFirst ==
    ASSUME NEW bound \in Nat, NEW S \in SUBSET (0..bound)
    PROVE  IsFiniteSet(S) /\ \E l \in SetToSeqs(S) : Descending(l)
<1> DEFINE Upto(m) == {t \in S : t < m}
           T == {m \in 0..(bound + 1) :
                   IsFiniteSet(Upto(m)) /\ \E l \in SetToSeqs(Upto(m)) : Descending(l)}
<1>0. \A t \in S : t \in Nat /\ t < bound + 1
  OBVIOUS
<1>1. 0 \in T
  <2>1. Upto(0) = {}
    <3>1. \A t \in S : ~(t < 0)
      BY <1>0
    <3>2. QED
      BY <3>1
  <2>2. IsFiniteSet({}) /\ Cardinality({}) = 0
    BY FS_EmptySet
  <2>3. <<>> \in SetToSeqs({})
    BY <2>2 DEF SetToSeqs
  <2>4. Descending(<<>>)
    BY DEF Descending
  <2>5. 0 \in 0..(bound + 1)
    OBVIOUS
  <2> HIDE DEF Upto
  <2>6. QED
    BY <2>1, <2>2, <2>3, <2>4, <2>5
<1>2. ASSUME NEW m \in 1..(bound + 1), m - 1 \in T
      PROVE  m \in T
  <2>1. IsFiniteSet(Upto(m - 1))
    BY <1>2
  <2>2. PICK l \in SetToSeqs(Upto(m - 1)) : Descending(l)
    BY <1>2
  <2>3. m \in 0..(bound + 1) /\ m - 1 \in Nat
    OBVIOUS
  <2>4. CASE m - 1 \in S
    <3> DEFINE k == [i \in 1..(Len(l) + 1) |-> IF i = 1 THEN m - 1 ELSE l[i - 1]]
    <3>1. Upto(m) = Upto(m - 1) \cup {m - 1} /\ m - 1 \notin Upto(m - 1)
      <4>1. \A t \in S : t < m <=> (t < m - 1 \/ t = m - 1)
        BY <1>0, <2>3
      <4>2. ~(m - 1 < m - 1)
        BY <2>3
      <4>3. QED
        BY <2>4, <4>1, <4>2
    <3>2. \A t \in Upto(m - 1) : t < m - 1
      OBVIOUS
    <3> HIDE DEF Upto
    <3>3. /\ Len(l) = Cardinality(Upto(m - 1)) /\ Len(l) \in Nat /\ DOMAIN l = 1..Len(l)
          /\ \A i \in 1..Len(l) : l[i] \in Upto(m - 1)
          /\ \A i, j \in 1..Len(l) : i # j => l[i] # l[j]
      BY <2>1, <2>2, SeqsListAll
    <3>4. IsFiniteSet(Upto(m)) /\ Cardinality(Upto(m)) = Len(l) + 1
      BY <2>1, <3>1, <3>3, FS_AddElement
    <3>5. \A i \in 1..(Len(l) + 1) : i = 1 \/ (i > 1 /\ i - 1 \in 1..Len(l))
      BY <3>3
    <3>6. k \in [1..(Len(l) + 1) -> Upto(m)]
      BY <3>1, <3>3, <3>5
    <3>7. \A i, j \in 1..(Len(l) + 1) : i < j => k[i] > k[j]
      <4> SUFFICES ASSUME NEW i \in 1..(Len(l) + 1), NEW j \in 1..(Len(l) + 1), i < j
                   PROVE  k[i] > k[j]
        OBVIOUS
      <4>1. j > 1 /\ j - 1 \in 1..Len(l) /\ k[j] = l[j - 1] /\ l[j - 1] < m - 1
        BY <3>2, <3>3, <3>5
      <4>2. CASE i = 1
        BY <4>1, <4>2, <2>3, <3>2, <3>3
      <4>3. CASE i # 1
        <5>1. i - 1 \in 1..Len(l) /\ k[i] = l[i - 1] /\ i - 1 < j - 1
          BY <3>5, <4>3
        <5>2. l[i - 1] > l[j - 1]
          BY <2>2, <3>3, <4>1, <5>1 DEF Descending
        <5>3. QED
          BY <4>1, <5>1, <5>2
      <4>4. QED
        BY <4>2, <4>3
    <3>8. \A t \in Upto(m) : t \in Nat
      BY DEF Upto
    <3> HIDE DEF k
    <3>9. \A i, j \in 1..(Len(l) + 1) : i # j => k[i] # k[j]
      BY <3>3, <3>6, <3>7, <3>8
    <3>10. k \in SetToSeqs(Upto(m))
      BY <3>4, <3>6, <3>9 DEF SetToSeqs
    <3>11. Descending(k)
      BY <3>6, <3>7 DEF Descending
    <3>12. QED
      BY <2>3, <3>4, <3>10, <3>11
  <2>5. CASE m - 1 \notin S
    <3>1. Upto(m) = Upto(m - 1)
      <4>1. \A t \in S : t < m <=> t < m - 1
        BY <1>0, <2>3, <2>5
      <4>2. QED
        BY <4>1
    <3> HIDE DEF Upto
    <3>2. QED
      BY <2>1, <2>2, <2>3, <3>1
  <2>6. QED
    BY <2>4, <2>5
<1>3. bound + 1 \in T
  <2> HIDE DEF T
  <2>1. bound + 1 \in Nat /\ bound + 1 \in 0..(bound + 1)
    OBVIOUS
  <2>2. 0..(bound + 1) \subseteq T
    BY <1>1, <1>2, <2>1, UpTo
  <2>3. QED
    BY <2>1, <2>2
<1>4. Upto(bound + 1) = S
  BY <1>0
<1> HIDE DEF Upto
<1>5. QED
  BY <1>3, <1>4

QueryShape == [after : Nat, before : {NoBound}, outcome : {"any", "deny"}, limit : Nat]

Found == [keys : Seq(Nat), done : BOOLEAN]

\* What the query asks for of the entries of a table.
Wanted(table, q) == {t \in DOMAIN table : /\ q.after # NoBound => t > q.after
                                          /\ q.outcome \in {"any", table[t].outcome}}

\* What a walk over the first i keys of l found: entries that were asked for,
\* the newest of them, newest first, and all of them while the limit is ahead.
Covers(table, q, l, i, found) ==
    /\ found \in Found
    /\ ~found.done
    /\ Len(found.keys) <= Limit(q)
    /\ \A a \in DOMAIN found.keys :
          found.keys[a] \in Wanted(table, q) /\ \E j \in 1..i : found.keys[a] = l[j]
    /\ Descending(found.keys)
    /\ \A j \in 1..i : l[j] \in Wanted(table, q) =>
          \/ \E a \in DOMAIN found.keys : found.keys[a] = l[j]
          \/ Len(found.keys) = Limit(q) /\ \A a \in DOMAIN found.keys : found.keys[a] > l[j]

LEMMA LimitFacts ==
    ASSUME NEW q \in QueryShape
    PROVE  Limit(q) \in Nat /\ Limit(q) > 0
BY DEF QueryShape, Limit

\* One more step of the walk covers one more key.
LEMMA VisitCovers ==
    ASSUME NEW table, NEW q \in QueryShape, NEW l \in Seq(Nat), NEW i \in 1..Len(l),
           DOMAIN table \subseteq Nat, Descending(l), ToSet(l) = DOMAIN table,
           NEW found, Covers(table, q, l, i - 1, found)
    PROVE  Covers(table, q, l, i, Visit(table, q, found, l[i]))
<1> DEFINE t == l[i]
           next1 == Visit(table, q, found, t)
<1>1. /\ i \in DOMAIN l /\ t \in Nat /\ t \in DOMAIN table
      /\ \A j \in 1..i : j \in 1..(i - 1) \/ j = i
      /\ \A j \in 1..(i - 1) : j \in 1..i /\ l[j] > t
  BY DEF ToSet, Descending
<1>2. /\ found \in Found /\ ~found.done /\ found.keys \in Seq(Nat)
      /\ Len(found.keys) \in Nat /\ DOMAIN found.keys = 1..Len(found.keys)
      /\ Len(found.keys) <= Limit(q)
      /\ Limit(q) \in Nat
  BY LimitFacts DEF Covers, Found
<1>3. \A a \in DOMAIN found.keys : found.keys[a] > t
  BY <1>1, <1>2 DEF Covers
<1> HIDE DEF t
<1>4. CASE Len(found.keys) >= Limit(q)
  <2>1. next1 = found
    BY <1>4 DEF Visit
  <2>2. Len(found.keys) = Limit(q)
    BY <1>2, <1>4
  <2>3. QED
    BY <1>1, <1>2, <1>3, <2>1, <2>2 DEF Covers, t
<1>5. CASE Len(found.keys) < Limit(q) /\ t \notin Wanted(table, q)
  <2>1. next1 = found
    <3>1. q.before = NoBound
      BY DEF QueryShape
    <3>2. \/ q.after # NoBound /\ t <= q.after
          \/ ~(q.outcome \in {"any", table[t].outcome})
      <4>1. q.after \in Nat
        BY DEF QueryShape
      <4>2. QED
        BY <1>1, <1>5, <4>1 DEF Wanted
    <3>3. QED
      BY <1>2, <1>5, <3>1, <3>2 DEF Visit
  <2>2. QED
    BY <1>1, <1>5, <2>1 DEF Covers, t
<1>6. CASE Len(found.keys) < Limit(q) /\ t \in Wanted(table, q)
  <2>1. next1 = [found EXCEPT !.keys = Append(@, t)]
    <3>1. q.before = NoBound /\ q.after \in Nat
      BY DEF QueryShape
    <3>2. /\ ~(q.after # NoBound /\ t <= q.after)
          /\ q.outcome \in {"any", table[t].outcome}
      BY <1>1, <1>6, <3>1 DEF Wanted
    <3>3. ~(Len(found.keys) >= Limit(q))
      BY <1>2, <1>6
    <3>4. QED
      BY <1>2, <3>1, <3>2, <3>3 DEF Visit
  <2> DEFINE keys == Append(found.keys, t)
             n == Len(found.keys) + 1
  <2>2. next1 \in Found /\ next1.keys = keys /\ ~next1.done
    <3>1. DOMAIN found = {"keys", "done"} /\ found.done \in BOOLEAN
      BY <1>2 DEF Found
    <3>2. keys \in Seq(Nat)
      BY <1>1, <1>2
    <3>3. next1.keys = keys /\ next1.done = found.done
      BY <2>1, <3>1
    <3>4. next1 \in Found
      BY <1>2, <2>1, <3>2 DEF Found
    <3>5. QED
      BY <1>2, <3>3, <3>4
  <2>3. /\ DOMAIN keys = 1..n /\ Len(keys) = n /\ keys[n] = t
        /\ \A a \in 1..n : a = n \/ (a \in DOMAIN found.keys /\ keys[a] = found.keys[a] /\ a < n)
        /\ \A a \in DOMAIN found.keys : a \in 1..n /\ keys[a] = found.keys[a]
    BY <1>1, <1>2
  <2>4. Len(keys) <= Limit(q)
    BY <1>2, <1>6, <2>3
  <2> HIDE DEF keys
  <2>5. Descending(keys)
    <3> SUFFICES ASSUME NEW a \in 1..n, NEW b \in 1..n, a < b PROVE keys[a] > keys[b]
      BY <2>3 DEF Descending
    <3>1. a \in DOMAIN found.keys /\ keys[a] = found.keys[a]
      BY <1>2, <2>3
    <3>2. CASE b = n
      BY <1>3, <2>3, <3>1, <3>2
    <3>3. CASE b # n
      BY <2>3, <3>1, <3>3 DEF Covers, Descending
    <3>4. QED
      BY <3>2, <3>3
  <2> HIDE DEF n
  <2>6. \A a \in DOMAIN keys :
           keys[a] \in Wanted(table, q) /\ \E j \in 1..i : keys[a] = l[j]
    <3> SUFFICES ASSUME NEW a \in 1..n
                 PROVE  keys[a] \in Wanted(table, q) /\ \E j \in 1..i : keys[a] = l[j]
      BY <2>3
    <3>1. CASE a = n
      <4>1. i \in 1..i /\ keys[a] = l[i]
        BY <2>3, <3>1 DEF t
      <4>2. QED
        BY <1>6, <2>3, <3>1, <4>1
    <3>2. CASE a # n
      <4>1. a \in DOMAIN found.keys /\ keys[a] = found.keys[a]
        BY <2>3, <3>2
      <4>2. PICK j \in 1..(i - 1) : found.keys[a] = l[j]
        BY <4>1 DEF Covers
      <4>3. j \in 1..i /\ found.keys[a] \in Wanted(table, q)
        BY <1>1, <4>1 DEF Covers
      <4>4. QED
        BY <4>1, <4>2, <4>3
    <3>3. QED
      BY <3>1, <3>2
  <2>7. n \in DOMAIN keys
    BY <1>2, <2>3 DEF n
  <2>8. ASSUME NEW j \in 1..i, l[j] \in Wanted(table, q)
        PROVE  \E a \in DOMAIN keys : keys[a] = l[j]
    <3>1. CASE j = i
      BY <2>3, <2>7, <3>1 DEF t
    <3>2. CASE j \in 1..(i - 1)
      <4>1. PICK a \in DOMAIN found.keys : found.keys[a] = l[j]
        BY <1>2, <1>6, <2>8, <3>2 DEF Covers
      <4>2. QED
        BY <2>3, <4>1
    <3>3. QED
      BY <1>1, <3>1, <3>2
  <2> HIDE DEF next1
  <2>9. Covers(table, q, l, i, next1)
    BY <2>2, <2>4, <2>5, <2>6, <2>8 DEF Covers
  <2>10. QED
    BY <2>9 DEF next1, t
<1>7. QED
  BY <1>2, <1>4, <1>5, <1>6 DEF t

\* The walk of a query covers the whole log.
LEMMA QueryCovers ==
    ASSUME NEW table, NEW q \in QueryShape, NEW bound \in Nat, DOMAIN table \subseteq 0..bound
    PROVE  \E l \in Seq(Nat), found \in Found :
              /\ ToSet(l) = DOMAIN table
              /\ Covers(table, q, l, Len(l), found)
              /\ Query(table, q) = found.keys
<1> DEFINE l == Newest(table)
           n == Len(l)
<1>1. IsFiniteSet(DOMAIN table) /\ \E k \in SetToSeqs(DOMAIN table) : Descending(k)
  BY ListedNewestFirst
<1>2. l \in SetToSeqs(DOMAIN table) /\ Descending(l)
  BY <1>1 DEF Newest, Descending
<1> HIDE DEF l
<1>3. l \in Seq(DOMAIN table) /\ ToSet(l) = DOMAIN table
  BY <1>1, <1>2, SeqsListAll
<1>4. DOMAIN table \subseteq Nat
  OBVIOUS
<1>5. l \in Seq(Nat) /\ n \in Nat /\ DOMAIN l = 1..n
  BY <1>3, <1>4
<1> DEFINE none == [keys |-> <<>>, done |-> FALSE]
           visit == [p \in Found \X (1..n) |-> Visit(table, q, p[1], l[p[2]])]
           Body(f) == [i \in 0..n |-> IF i = 0 THEN none
                                      ELSE Visit(table, q, f[i - 1], l[i])]
<1>6. none \in Found
  BY DEF Found
<1>7. visit \in [Found \X (1..n) -> Found]
  <2> SUFFICES ASSUME NEW found \in Found, NEW i \in 1..n
               PROVE  Visit(table, q, found, l[i]) \in Found
    OBVIOUS
  <2>1. l[i] \in Nat
    BY <1>5
  <2>2. Append(found.keys, l[i]) \in Seq(Nat)
    BY <2>1 DEF Found
  <2>3. QED
    BY <2>2 DEF Visit, Found
<1>8. PICK f : Computes(f, n, Found, none, visit)
  <2> HIDE DEF visit, none, n
  <2>1. QED
    BY <1>5, <1>6, <1>7, Recursion
<1>9. f \in [0..n -> Found] /\ f[0] = none
  BY <1>8 DEF Computes
<1> HIDE DEF n, none
<1>10. ASSUME NEW i \in 1..n
       PROVE  f[i] = Visit(table, q, f[i - 1], l[i])
  <2>1. f[i] = visit[<<f[i - 1], i>>]
    BY <1>8 DEF Computes
  <2>2. f[i - 1] \in Found
    BY <1>5, <1>9
  <2>3. QED
    BY <2>1, <2>2
<1>11. f = Body(f)
  <2>1. \A i \in 0..n : i = 0 \/ i \in 1..n
    BY <1>5
  <2>2. \A i \in 0..n : f[i] = IF i = 0 THEN none ELSE Visit(table, q, f[i - 1], l[i])
    BY <1>9, <1>10, <2>1
  <2>3. QED
    BY <1>9, <2>2
<1> DEFINE g == CHOOSE h : h = Body(h)
<1>12. g = Body(g)
  BY <1>11
<1>13. Query(table, q) = g[n].keys
  BY DEF Query, l, n, none
<1> HIDE DEF g
<1>14. g[0] = none
  BY <1>5, <1>12
<1>15. ASSUME NEW i \in 1..n
       PROVE  g[i] = Visit(table, q, g[i - 1], l[i])
  <2>1. i \in 0..n /\ i # 0
    BY <1>5
  <2>2. Body(g)[i] = Visit(table, q, g[i - 1], l[i])
    BY <2>1
  <2> HIDE DEF Body
  <2>3. QED
    BY <1>12, <2>2
<1> DEFINE S == {i \in 0..n : Covers(table, q, l, i, g[i])}
<1>16. 0 \in S
  <2>1. /\ none \in Found /\ ~none.done /\ none.keys = <<>> /\ Len(none.keys) = 0
        /\ DOMAIN none.keys = {}
    BY <1>6 DEF none
  <2>2. Len(none.keys) <= Limit(q)
    BY <2>1, LimitFacts
  <2>3. Covers(table, q, l, 0, none)
    BY <2>1, <2>2 DEF Covers, Descending
  <2>4. 0 \in 0..n
    BY <1>5
  <2>5. QED
    BY <1>14, <2>3, <2>4
<1>17. ASSUME NEW i \in 1..n, i - 1 \in S PROVE i \in S
  <2>1. Covers(table, q, l, i - 1, g[i - 1]) /\ i \in 0..n
    BY <1>5, <1>17
  <2>2. Covers(table, q, l, i, Visit(table, q, g[i - 1], l[i]))
    BY <1>2, <1>3, <1>4, <1>5, <2>1, VisitCovers DEF n
  <2>3. QED
    BY <1>15, <2>1, <2>2
<1>18. n \in S
  <2> HIDE DEF S
  <2>1. 0..n \subseteq S
    BY <1>5, <1>16, <1>17, UpTo
  <2>2. QED
    BY <1>5, <2>1
<1>19. Covers(table, q, l, n, g[n]) /\ g[n] \in Found
  BY <1>18 DEF Covers
<1>20. QED
  BY <1>3, <1>5, <1>13, <1>19 DEF n

\* What the walk covers is what the query was to show.
LEMMA QueriesShowNewest ==
    ASSUME Typed
    PROVE  QueryShowsNewest
<1> SUFFICES ASSUME NEW q \in Queries
             PROVE  LET keys == Query(log, q)
                        shown == ToSet(keys)
                    IN /\ shown \subseteq Asked(q)
                       /\ \A i, j \in DOMAIN keys : i < j => keys[i] > keys[j]
                       /\ \A t \in Asked(q) \ shown :
                             Len(keys) = Limit(q) /\ \A s \in shown : s > t
  BY DEF QueryShowsNewest
<1>1. q \in QueryShape
  BY RecordsAssumption DEF Queries, QueryShape, NoBound
<1>2. DOMAIN log \subseteq 0..MaxTime /\ MaxTime \in Nat
  BY RecordsAssumption DEF Typed, RecordsTypeOK
<1>3. Asked(q) = Wanted(log, q)
  BY DEF Asked, Wanted
<1>4. PICK l \in Seq(Nat), found \in Found :
         /\ ToSet(l) = DOMAIN log
         /\ Covers(log, q, l, Len(l), found)
         /\ Query(log, q) = found.keys
  BY <1>1, <1>2, QueryCovers
<1>5. ASSUME NEW t \in Wanted(log, q) PROVE \E j \in 1..Len(l) : t = l[j]
  BY <1>4 DEF Wanted, ToSet
<1> DEFINE keys == found.keys
<1>6. ToSet(keys) \subseteq Wanted(log, q)
  BY <1>4 DEF Covers, ToSet
<1>7. \A i, j \in DOMAIN keys : i < j => keys[i] > keys[j]
  BY <1>4 DEF Covers, Descending
<1>8. ASSUME NEW t \in Wanted(log, q), t \notin ToSet(keys)
      PROVE  Len(keys) = Limit(q) /\ \A s \in ToSet(keys) : s > t
  <2>1. PICK j \in 1..Len(l) : t = l[j]
    BY <1>5
  <2>2. ~ \E a \in DOMAIN keys : keys[a] = l[j]
    BY <1>8, <2>1 DEF ToSet
  <2>3. Len(keys) = Limit(q) /\ \A a \in DOMAIN keys : keys[a] > l[j]
    BY <1>4, <2>1, <2>2 DEF Covers
  <2>4. QED
    BY <2>1, <2>3 DEF ToSet
<1>9. QED
  BY <1>3, <1>4, <1>6, <1>7, <1>8

-----------------------------------------------------------------------------
(* What is reported of the statistics *)

\* Whoever counts a rule says when it was: the clock starts after 0.
Dated(stats) == \A r \in Rules : stats.blocks[r] > 0 <=> stats.lastSeen[r] > 0

DatedInv ==
    /\ now > 0
    /\ \A f \in Paths : Dated(files[f].stats)
    /\ \A p \in Processes : Dated(held[p])

LEMMA DatedInit == Init => DatedInv
BY DEF Init, DatedInv, Dated, Absent, NoStats

LEMMA DatedNext == Typed /\ DatedInv /\ [Next]_vars => DatedInv'
<1> SUFFICES ASSUME Typed, DatedInv, [Next]_vars PROVE DatedInv'
  OBVIOUS
<1>1. Dated(NoStats)
  BY DEF Dated, NoStats
<1>2. now \in 0..MaxTime /\ MaxTime \in Nat
  BY RecordsAssumption DEF Typed, RecordsTypeOK
<1>3. now' > 0
  <2>1. now' = now \/ now' = now + 1
    BY DEF Next, Start, ReadStats, Truncate, WriteStats, OpenLog, Commit, ShowLog, Prune, Crash,
           MakeCtx, Tick, RecordsOver, vars
  <2>2. QED
    BY <1>2, <2>1 DEF DatedInv
<1>4. \A f \in Paths : Dated(files'[f].stats)
  <2>1. ASSUME NEW p \in Processes, Truncate(p) PROVE \A f \in Paths : Dated(files'[f].stats)
    <3>1. \A f \in Paths : files'[f].stats \in {files[f].stats, NoStats}
      BY <2>1 DEF Truncate, Empty, Typed, RecordsTypeOK
    <3>2. QED
      BY <1>1, <3>1 DEF DatedInv
  <2>2. ASSUME NEW p \in Processes, WriteStats(p) PROVE \A f \in Paths : Dated(files'[f].stats)
    <3>1. PICK text \in Overwrite(files[path[p]], Json(held[p])) :
             files' = [files EXCEPT ![path[p]] = text]
      BY <2>2 DEF WriteStats
    <3>2. text = Json(held[p]) \/ text = Garbled
      BY DEF Overwrite
    <3>3. text.stats \in {held[p], NoStats}
      BY <3>2 DEF Json, Garbled
    <3>4. \A f \in Paths : files'[f].stats \in {files[f].stats, held[p], NoStats}
      BY <3>1, <3>3 DEF Typed, RecordsTypeOK
    <3>5. QED
      BY <1>1, <3>4 DEF DatedInv
  <2>3. \/ files' = files
        \/ \E p \in Processes : Truncate(p)
        \/ \E p \in Processes : WriteStats(p)
    BY DEF Next, Start, ReadStats, OpenLog, Commit, ShowLog, Prune, Crash,
           MakeCtx, Tick, RecordsOver, vars
  <2>4. QED
    BY <2>1, <2>2, <2>3 DEF DatedInv
<1>5. \A p \in Processes : Dated(held'[p])
  <2>1. ASSUME NEW p \in Processes, ReadStats(p) PROVE \A q \in Processes : Dated(held'[q])
    <3>1. path[p] \in Paths /\ files[path[p]].stats \in Stats /\ rule[p] \in Rules
      BY ContentsFacts DEF Typed, RecordsTypeOK
    <3> DEFINE stats == files[path[p]].stats
    <3>2. Dated(stats)
      BY <3>1 DEF DatedInv
    <3> HIDE DEF stats
    <3>3. stats \in Stats
      BY <3>1 DEF stats
    <3>4. Dated(Counted(stats, rule[p], now))
      <4> SUFFICES ASSUME NEW r \in Rules
                   PROVE  Counted(stats, rule[p], now).blocks[r] > 0
                              <=> Counted(stats, rule[p], now).lastSeen[r] > 0
        BY DEF Dated
      <4>1. stats.blocks[r] \in Nat
        BY <3>3 DEF Stats
      <4>2. stats.blocks[r] + 1 > 0 /\ now > 0
        BY <4>1 DEF DatedInv
      <4>3. /\ Counted(stats, rule[p], now).blocks[r]
                   = IF r = rule[p] THEN stats.blocks[r] + 1 ELSE stats.blocks[r]
            /\ Counted(stats, rule[p], now).lastSeen[r]
                   = IF r = rule[p] THEN now ELSE stats.lastSeen[r]
        BY <1>2, <3>1, <3>3, CountedFacts
      <4>4. QED
        BY <3>2, <4>2, <4>3 DEF Dated
    <3>5. \A q \in Processes : held'[q] \in {held[q], stats, Counted(stats, rule[p], now)}
      BY <2>1 DEF ReadStats, Typed, RecordsTypeOK, stats
    <3>6. QED
      BY <3>2, <3>4, <3>5 DEF DatedInv
  <2>2. ASSUME NEW p \in Processes, WriteStats(p) \/ Crash(p)
        PROVE  \A q \in Processes : Dated(held'[q])
    <3>1. \A q \in Processes : held'[q] \in {held[q], NoStats}
      BY <2>2 DEF WriteStats, Crash, Typed, RecordsTypeOK
    <3>2. QED
      BY <1>1, <3>1 DEF DatedInv
  <2>3. \/ held' = held
        \/ \E p \in Processes : ReadStats(p)
        \/ \E p \in Processes : WriteStats(p) \/ Crash(p)
    BY DEF Next, Start, Truncate, OpenLog, Commit, ShowLog, Prune,
           MakeCtx, Tick, RecordsOver, vars
  <2>4. QED
    BY <2>1, <2>2, <2>3 DEF DatedInv
<1>6. QED
  BY <1>3, <1>4, <1>5 DEF DatedInv

\* Every rule that has a time has one firing.
LEMMA FiringsFacts ==
    ASSUME NEW stats
    PROVE  LET seen == {r \in Rules : stats.lastSeen[r] > 0}
           IN  /\ IsFiniteSet(seen)
               /\ Cardinality(HeatFirings(stats, Rules)) = Cardinality(seen)
<1> DEFINE seen == {r \in Rules : stats.lastSeen[r] > 0}
           firing(r) == [rule |-> r, at |-> stats.lastSeen[r]]
           b == [r \in seen |-> firing(r)]
<1>1. IsFiniteSet(seen)
  BY RecordsAssumption, FS_Subset
<1>2. b \in Bijection(seen, HeatFirings(stats, Rules))
  <2>1. b \in [seen -> HeatFirings(stats, Rules)]
    BY DEF HeatFirings
  <2>2. \A r, s \in seen : b[r] = b[s] => r = s
    OBVIOUS
  <2>3. \A x \in HeatFirings(stats, Rules) : \E r \in seen : b[r] = x
    BY DEF HeatFirings
  <2> HIDE DEF b, seen
  <2>4. QED
    BY <2>1, <2>2, <2>3 DEF Bijection, Injection, Surjection, IsInjective
<1>3. ExistsBijection(seen, HeatFirings(stats, Rules))
  BY <1>2 DEF ExistsBijection
<1> HIDE DEF b, seen
<1>4. Cardinality(HeatFirings(stats, Rules)) = Cardinality(seen)
  BY <1>1, <1>3, FS_Bijection
<1>5. QED
  BY <1>1, <1>4 DEF seen

\* The total is no less than the number of rules that have a count.
LEMMA TotalFacts ==
    ASSUME NEW stats \in Stats
    PROVE  BlockTable(stats).total >= Cardinality({r \in Rules : stats.blocks[r] > 0})
<1> DEFINE counted == {r \in Rules : stats.blocks[r] > 0}
           all == UNION {{r} \X (1..stats.blocks[r]) : r \in Rules}
           ones == {<<r, 1>> : r \in counted}
           b == [r \in counted |-> <<r, 1>>]
<1>1. IsFiniteSet(counted)
  BY RecordsAssumption, FS_Subset
<1>2. IsFiniteSet(all)
  <2> DEFINE family == {{r} \X (1..stats.blocks[r]) : r \in Rules}
             part == [r \in Rules |-> {r} \X (1..stats.blocks[r])]
  <2>1. IsFiniteSet(family)
    <3>1. part \in Surjection(Rules, family)
      BY DEF Surjection
    <3> HIDE DEF part, family
    <3>2. QED
      BY <3>1, RecordsAssumption, FS_Surjection
  <2>2. ASSUME NEW r \in Rules PROVE IsFiniteSet({r} \X (1..stats.blocks[r]))
    <3>1. IsFiniteSet(1..stats.blocks[r])
      <4>1. stats.blocks[r] \in Int /\ 1 \in Int
        BY DEF Stats
      <4>2. QED
        BY <4>1, FS_Interval
    <3>2. IsFiniteSet({r})
      BY FS_Singleton
    <3>3. QED
      BY <3>1, <3>2, FS_Product
  <2>3. \A part1 \in family : IsFiniteSet(part1)
    BY <2>2
  <2> HIDE DEF family
  <2>4. IsFiniteSet(UNION family)
    BY <2>1, <2>3, FS_UNION
  <2>5. QED
    BY <2>4 DEF family
<1>3. ones \in SUBSET all
  <2>1. \A r \in counted : 1 \in 1..stats.blocks[r]
    BY DEF Stats
  <2>2. ASSUME NEW r \in counted PROVE <<r, 1>> \in all
    BY <2>1
  <2>3. QED
    BY <2>2
<1>4. ExistsBijection(counted, ones)
  <2>1. b \in [counted -> ones] /\ \A r, s \in counted : b[r] = b[s] => r = s
    OBVIOUS
  <2>2. \A x \in ones : \E r \in counted : b[r] = x
    OBVIOUS
  <2> HIDE DEF b, ones, counted
  <2>3. b \in Bijection(counted, ones)
    BY <2>1, <2>2 DEF Bijection, Injection, Surjection, IsInjective
  <2>4. QED
    BY <2>3 DEF ExistsBijection
<1>5. BlockTable(stats).total = Cardinality(all)
  BY DEF BlockTable
<1> HIDE DEF all, ones, counted
<1>6. Cardinality(ones) = Cardinality(counted)
  BY <1>1, <1>4, FS_Bijection
<1>7. Cardinality(ones) <= Cardinality(all)
  BY <1>2, <1>3, FS_Subset
<1>8. Cardinality(ones) \in Nat /\ Cardinality(all) \in Nat
  BY <1>1, <1>2, <1>3, <1>4, FS_Bijection, FS_CardinalityType
<1>9. QED
  BY <1>5, <1>6, <1>7, <1>8 DEF counted

\* The rules that were seen, in order of their times and cut at the limit: what
\* is not shown is no newer than what is.
LEMMA HistoryFacts ==
    ASSUME NEW stats, NEW asked \in SUBSET Rules, NEW limit \in Nat,
           NEW shown \in History(stats, asked, limit),
           NEW r \in asked, stats.lastSeen[r] > 0
    PROVE  \/ r \in ToSet(shown)
           \/ Len(shown) = limit /\ \A q \in ToSet(shown) : stats.lastSeen[q] >= stats.lastSeen[r]
<1> DEFINE seen == {q \in asked : stats.lastSeen[q] > 0}
<1>1. IsFiniteSet(seen)
  BY RecordsAssumption, FS_Subset
<1>2. PICK l \in Sorted(seen, stats.lastSeen) :
         shown = SubSeq(l, 1, IF limit < Len(l) THEN limit ELSE Len(l))
  BY DEF History
<1> HIDE DEF seen
<1>3. /\ l \in SetToSeqs(seen)
      /\ \A i, j \in DOMAIN l : i < j => stats.lastSeen[l[i]] >= stats.lastSeen[l[j]]
  BY <1>2 DEF Sorted
<1>4. Len(l) \in Nat /\ DOMAIN l = 1..Len(l) /\ l \in Seq(seen) /\ ToSet(l) = seen
  BY <1>1, <1>3, SeqsListAll
<1>5. PICK k \in 1..Len(l) : r = l[k]
  <2>1. r \in ToSet(l)
    BY <1>4 DEF seen
  <2>2. QED
    BY <1>4, <2>1 DEF ToSet
<1> DEFINE n == IF limit < Len(l) THEN limit ELSE Len(l)
<1>6. n \in Nat /\ n <= Len(l)
  BY <1>4
<1>7. Len(shown) = n /\ DOMAIN shown = 1..n /\ \A i \in 1..n : shown[i] = l[i]
  <2>1. shown = SubSeq(l, 1, n)
    BY <1>2
  <2> HIDE DEF n
  <2>2. QED
    BY <1>4, <1>6, <2>1
<1>8. CASE k <= n
  <2>1. k \in DOMAIN shown /\ shown[k] = r
    BY <1>5, <1>6, <1>7, <1>8
  <2>2. QED
    BY <2>1 DEF ToSet
<1>9. CASE ~(k <= n)
  <2>1. n = limit
    <3>1. k <= Len(l)
      BY <1>4, <1>5
    <3>2. n # Len(l)
      BY <1>9, <3>1
    <3>3. QED
      BY <3>2
  <2>2. ASSUME NEW i \in 1..n PROVE stats.lastSeen[shown[i]] >= stats.lastSeen[r]
    <3>1. i < k /\ i \in DOMAIN l /\ k \in DOMAIN l
      BY <1>4, <1>5, <1>6, <1>9
    <3>2. QED
      BY <1>3, <1>5, <1>7, <3>1
  <2>3. QED
    BY <1>7, <2>1, <2>2 DEF ToSet
<1>10. QED
  BY <1>8, <1>9

LEMMA TablesOfDated ==
    ASSUME NEW stats \in Stats, Dated(stats)
    PROVE  TablesAgree(stats)
<1> DEFINE counted == {r \in Rules : stats.blocks[r] > 0}
<1>1. counted = {r \in Rules : stats.lastSeen[r] > 0}
  BY DEF Dated
<1>2. IsFiniteSet(counted) /\ Cardinality(HeatFirings(stats, Rules)) = Cardinality(counted)
  BY <1>1, FiringsFacts
<1>3. BlockTable(stats).total >= Cardinality(counted)
  BY TotalFacts
<1>4. BlockTable(stats).lists = Sorted(counted, stats.blocks)
  BY DEF BlockTable
<1> HIDE DEF counted
<1>5. ASSUME NEW table \in BlockTable(stats).lists
      PROVE  Len(table) = Cardinality(counted)
  <2>1. table \in SetToSeqs(counted)
    BY <1>4 DEF Sorted
  <2>2. QED
    BY <1>2, <2>1, SeqsListAll
<1>6. ASSUME NEW asked \in SUBSET Rules, NEW limit \in 0..2,
             NEW shown \in History(stats, asked, limit), NEW firing \in HeatFirings(stats, asked)
      PROVE  \/ firing.rule \in ToSet(shown) /\ stats.blocks[firing.rule] > 0
             \/ /\ Len(shown) = limit
                /\ \A r \in ToSet(shown) : stats.lastSeen[r] >= firing.at
  <2>1. PICK r \in {q \in asked : stats.lastSeen[q] > 0} :
           firing = [rule |-> r, at |-> stats.lastSeen[r]]
    BY DEF HeatFirings
  <2>2. firing.rule = r /\ firing.at = stats.lastSeen[r] /\ stats.blocks[r] > 0
    BY <2>1 DEF Dated
  <2>3. limit \in Nat
    OBVIOUS
  <2>4. \/ r \in ToSet(shown)
        \/ Len(shown) = limit /\ \A q \in ToSet(shown) : stats.lastSeen[q] >= stats.lastSeen[r]
    BY <2>1, <2>3, HistoryFacts
  <2>5. QED
    BY <2>2, <2>4
<1>7. QED
  BY <1>2, <1>3, <1>5, <1>6 DEF TablesAgree

\* log.rs and stats.rs: a query without an upper bound shows exactly the newest
\* of what it asks for, and the three reports of the statistics agree, for every
\* number of processes, entries and rules.
THEOREM ReportsAlwaysShowNewest == Spec => []ReportsShowNewest
<1>1. Typed /\ DatedInv => ReportsShowNewest
  <2> SUFFICES ASSUME Typed, DatedInv PROVE ReportsShowNewest
    OBVIOUS
  <2>1. \A f \in Paths : files[f].stats \in Stats /\ Dated(files[f].stats)
    BY ContentsFacts DEF Typed, RecordsTypeOK, DatedInv
  <2>2. \A f \in Paths : TablesAgree(files[f].stats)
    BY <2>1, TablesOfDated
  <2>3. QED
    BY <2>2, QueriesShowNewest DEF ReportsShowNewest
<1>2. QED
  BY <1>1, TypedInit, TypedNext, DatedInit, DatedNext, PTL DEF Spec

=============================================================================
