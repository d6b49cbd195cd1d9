----------------------------- MODULE BlockRecords -----------------------------
(***************************************************************************)
(* What a denial leaves behind: the count of its rule in the statistics    *)
(* file (core/src/analyze/stats.rs), which processes read, change and      *)
(* write in place without a lock, and an entry of the hook log             *)
(* (core/src/hook/log.rs), a table keyed by time in a database that one    *)
(* process has open at a time.  Every process is one command: a pre-hook   *)
(* that denies (pre.rs), a pipeline hook whose rules fired (crs_commands   *)
(* .rs, opencode.rs), `crs stats`, `crs log` or `crs log --prune`.         *)
(***************************************************************************)
EXTENDS Naturals, FiniteSets, SequencesExt

CONSTANTS
    Processes,  \* the processes of an instance
    Rules,      \* rule ids
    NoOne,      \* no process: nobody has the database open
    MaxTime,    \* bound: the clock stops here
    Word        \* 2^64 of the code's u64, as a small number

ASSUME RecordsAssumption ==
    /\ NoOne \notin Processes
    /\ IsFiniteSet(Processes) /\ IsFiniteSet(Rules)
    /\ MaxTime \in Nat /\ MaxTime > Cardinality(Processes)
    /\ Word \in Nat /\ Word > MaxTime + 1

VARIABLES
    now,        \* the clock, in nanoseconds
    ctx,        \* whether the project has a .ctx directory
    files,      \* what the local and the global statistics file hold
    log,        \* the table: time -> entry
    opener,     \* the process that has the database open
    job,        \* what each process was started for
    rule,       \* the rule that fired in it
    pc,         \* the step each process is at
    path,       \* the statistics file it resolved
    held,       \* the statistics it read and changed
    exclusive,  \* whether processes run one after another
    faulted,    \* history: a process died, or found the database open
    pruned      \* history: the processes whose entries were pruned

vars == <<now, ctx, files, log, opener, job, rule, pc, path, held,
          exclusive, faulted, pruned>>
taskVars == <<job, rule, exclusive>>

-----------------------------------------------------------------------------

Jobs == {"deny", "event", "stats", "log", "prune"}
Paths == {"local", "global"}

\* A rule that is not in the maps counts 0 and was seen at 0.
Stats == [blocks : [Rules -> Nat], lastSeen : [Rules -> 0..MaxTime]]
NoStats == [blocks |-> [r \in Rules |-> 0], lastSeen |-> [r \in Rules |-> 0]]

\* Text that does not parse, and no text, load as Stats::default().
Contents == [kind : {"json"}, stats : Stats]
                \cup [kind : {"absent", "empty", "garbled"}, stats : {NoStats}]
Json(stats) == [kind |-> "json", stats |-> stats]
Absent == [kind |-> "absent", stats |-> NoStats]
Empty == [kind |-> "empty", stats |-> NoStats]
Garbled == [kind |-> "garbled", stats |-> NoStats]

\* write(2) at offset 0 of a file others may have filled since it was truncated.
Overwrite(old, new) ==
    IF old.kind \in {"absent", "empty"} \/ old = new THEN {new} ELSE {new, Garbled}

\* The project's file is taken when its directory is there, whether or not it
\* has a file in it.
StatsPath == IF ctx THEN "local" ELSE "global"

\* Mutation of Counted: or_insert(1).
CountedFromOne(stats, r, t) ==
    [stats EXCEPT !.blocks[r] = IF @ = 0 THEN 2 ELSE @ + 1, !.lastSeen[r] = t]

\* Mutation of Counted: the entry of a rule that is there already stays as it is.
CountedOnce(stats, r, t) ==
    [stats EXCEPT !.blocks[r] = IF @ = 0 THEN 1 ELSE @, !.lastSeen[r] = t]

Counted(stats, r, t) ==
    [blocks |-> [stats.blocks EXCEPT ![r] = @ + 1], lastSeen |-> [stats.lastSeen EXCEPT ![r] = t]]

\* Mutation of Stamp: the key is a time in coarser units.
CoarseStamp == now - (now % 2)

Stamp == now

\* Outcome: what entry_from_pipeline and record_correction make of an event.
Entry(p) == [by |-> p, outcome |-> IF job[p] = "deny" THEN "deny" ELSE "pass"]

-----------------------------------------------------------------------------
(* The queries of the log *)

NoBound == MaxTime + 1

\* Mutation of Newest: the walk begins at the oldest entry.
OldestFirst(table) ==
    CHOOSE l \in SetToSeqs(DOMAIN table) : \A i, j \in DOMAIN l : i < j => l[i] < l[j]

\* The keys, newest first.
Newest(table) ==
    CHOOSE l \in SetToSeqs(DOMAIN table) : \A i, j \in DOMAIN l : i < j => l[i] > l[j]

Limit(q) == IF q.limit = 0 THEN 100 ELSE q.limit

\* The walk comes to the entry of time t: it is over when the limit was reached,
\* and also when an entry is not before q.before.
Visit(table, q, found, t) ==
    IF found.done \/ Len(found.keys) >= Limit(q) THEN found
    ELSE IF q.after # NoBound /\ t <= q.after THEN found
    ELSE IF q.before # NoBound /\ t >= q.before THEN [found EXCEPT !.done = TRUE]
    ELSE IF q.outcome \in {"any", table[t].outcome} THEN [found EXCEPT !.keys = Append(@, t)]
    ELSE found

\* query: what a walk from the newest entry finds.
Query(table, q) ==
    LET keys == Newest(table)
        Found[i \in 0..Len(keys)] == IF i = 0 THEN [keys |-> <<>>, done |-> FALSE]
                                     ELSE Visit(table, q, Found[i - 1], keys[i])
    IN Found[Len(keys)].keys

\* The cutoff of a prune is a subtraction of u64 that wraps.
Cutoff(age) == (now + Word - age) % Word

-----------------------------------------------------------------------------
(* What is printed of the statistics, sorted with ties in any order        *)

Sorted(rules, key) ==
    {l \in SetToSeqs(rules) : \A i, j \in DOMAIN l : i < j => key[l[i]] >= key[l[j]]}

\* `crs stats` (sorted_blocks): the rules with their counts, and the total.
BlockTable(stats) ==
    [lists |-> Sorted({r \in Rules : stats.blocks[r] > 0}, stats.blocks),
     total |-> Cardinality(UNION {{r} \X (1..stats.blocks[r]) : r \in Rules})]

\* Mutation of History: the list is cut before it is sorted.
HistoryCutFirst(stats, asked, limit) ==
    LET cuts == {c \in SUBSET {r \in asked : stats.lastSeen[r] > 0} : Cardinality(c) <= limit}
    IN UNION {Sorted(c, stats.lastSeen) : c \in
                 {c \in cuts : \A d \in cuts : Cardinality(d) <= Cardinality(c)}}

\* cmd_history: the rules asked for, newest first, with their counts.
History(stats, asked, limit) ==
    {SubSeq(l, 1, IF limit < Len(l) THEN limit ELSE Len(l)) :
        l \in Sorted({r \in asked : stats.lastSeen[r] > 0}, stats.lastSeen)}

\* cmd_heat: one firing for each rule asked for, the newest.
HeatFirings(stats, asked) ==
    {[rule |-> r, at |-> stats.lastSeen[r]] : r \in {q \in asked : stats.lastSeen[q] > 0}}

-----------------------------------------------------------------------------

\* The rule of a process that denies nothing plays no part.
AnyRule == CHOOSE r \in Rules : TRUE

Init ==
    /\ now = 1
    /\ ctx \in BOOLEAN
    /\ files = [f \in Paths |-> Absent]
    /\ log = [t \in {} |-> Entry(NoOne)]
    /\ opener = NoOne
    /\ job \in [Processes -> Jobs]
    /\ rule \in [Processes -> Rules]
    /\ \A p \in Processes : job[p] # "deny" => rule[p] = AnyRule
    /\ pc = [p \in Processes |-> "idle"]
    /\ path = [p \in Processes |-> "global"]
    /\ held = [p \in Processes |-> NoStats]
    /\ exclusive \in BOOLEAN
    /\ faulted = FALSE
    /\ pruned = {}

\* The ages a prune is asked to keep; the last is older than the clock.
Ages == {0, 1, MaxTime + 1}

Running(p) == pc[p] \notin {"idle", "over"}

Goto(p, step) == pc' = [pc EXCEPT ![p] = step]

\* A process starts; stats_path looks for the project's directory.
Start(p) ==
    /\ pc[p] = "idle"
    /\ exclusive => \A q \in Processes : ~Running(q)
    /\ path' = [path EXCEPT ![p] = IF job[p] \in {"deny", "stats"} THEN StatsPath ELSE @]
    /\ Goto(p, IF job[p] \in {"deny", "stats"} THEN "read" ELSE "open")
    /\ UNCHANGED <<now, ctx, files, log, opener, held, taskVars, faulted, pruned>>

\* record_block reads, increments and stamps; `crs stats` prints what it reads.
ReadStats(p) ==
    /\ pc[p] = "read"
    /\ LET stats == files[path[p]].stats IN
          held' = [held EXCEPT ![p] =
                      IF job[p] = "deny" THEN Counted(stats, rule[p], now) ELSE stats]
    /\ Goto(p, IF job[p] = "deny" THEN "truncate" ELSE "over")
    /\ UNCHANGED <<now, ctx, files, log, opener, path, taskVars, faulted, pruned>>

\* fs::write opens and truncates the statistics file itself ...
Truncate(p) ==
    /\ pc[p] = "truncate"
    /\ files' = [files EXCEPT ![path[p]] = Empty]
    /\ Goto(p, "write")
    /\ UNCHANGED <<now, ctx, log, opener, path, held, taskVars, faulted, pruned>>

\* ... and then writes it.
WriteStats(p) ==
    /\ pc[p] = "write"
    /\ \E text \in Overwrite(files[path[p]], Json(held[p])) :
          files' = [files EXCEPT ![path[p]] = text]
    /\ held' = [held EXCEPT ![p] = NoStats]
    /\ Goto(p, "open")
    /\ UNCHANGED <<now, ctx, log, opener, path, taskVars, faulted, pruned>>

\* The database is opened by one process at a time; whoever comes second goes
\* on without it, and its entry is dropped.
OpenLog(p) ==
    /\ pc[p] = "open"
    /\ IF opener = NoOne
       THEN opener' = p /\ Goto(p, "commit") /\ UNCHANGED faulted
       ELSE faulted' = TRUE /\ Goto(p, "over") /\ UNCHANGED opener
    /\ UNCHANGED <<now, ctx, files, log, path, held, taskVars, pruned>>

\* record: stamp, insert, commit; the database is closed with the function.
Commit(p) ==
    /\ pc[p] = "commit" /\ job[p] \in {"deny", "event"}
    /\ now' = now + 1
    /\ log' = [t \in DOMAIN log \cup {Stamp} |-> IF t = Stamp THEN Entry(p) ELSE log[t]]
    /\ opener' = NoOne
    /\ Goto(p, "over")
    /\ UNCHANGED <<ctx, files, path, held, taskVars, faulted, pruned>>

\* `crs log` reads and prints.
ShowLog(p) ==
    /\ pc[p] = "commit" /\ job[p] = "log"
    /\ opener' = NoOne
    /\ Goto(p, "over")
    /\ UNCHANGED <<now, ctx, files, log, path, held, taskVars, faulted, pruned>>

\* prune: the keys are in order, so those before the cutoff come first.
Prune(p, age) ==
    /\ pc[p] = "commit" /\ job[p] = "prune"
    /\ log' = [t \in {u \in DOMAIN log : u >= Cutoff(age)} |-> log[t]]
    /\ pruned' = pruned \cup {log[t].by : t \in DOMAIN log \ DOMAIN log'}
    /\ opener' = NoOne
    /\ Goto(p, "over")
    /\ UNCHANGED <<now, ctx, files, path, held, taskVars, faulted>>

\* A process is killed; the kernel closes its database.
Crash(p) ==
    /\ Running(p)
    /\ ~faulted
    /\ faulted' = TRUE
    /\ opener' = IF opener = p THEN NoOne ELSE opener
    /\ held' = [held EXCEPT ![p] = NoStats]
    /\ Goto(p, "over")
    /\ UNCHANGED <<now, ctx, files, log, path, taskVars, pruned>>

\* Something makes the project's .ctx directory.
MakeCtx ==
    /\ ~ctx
    /\ ctx' = TRUE
    /\ UNCHANGED <<now, files, log, opener, path, held, pc, taskVars, faulted, pruned>>

\* The clock goes on; what is left of it is enough for every process to commit.
Tick ==
    /\ now + Cardinality(Processes) < MaxTime
    /\ now' = now + 1
    /\ UNCHANGED <<ctx, files, log, opener, path, held, pc, taskVars, faulted, pruned>>

RecordsOver ==
    /\ \A p \in Processes : pc[p] = "over"
    /\ UNCHANGED vars

Next ==
    \/ \E p \in Processes :
          \/ Start(p)
          \/ ReadStats(p)
          \/ Truncate(p)
          \/ WriteStats(p)
          \/ OpenLog(p)
          \/ Commit(p)
          \/ ShowLog(p)
          \/ \E age \in Ages : Prune(p, age)
          \/ Crash(p)
    \/ MakeCtx
    \/ Tick
    \/ RecordsOver

Spec == Init /\ [][Next]_vars

-----------------------------------------------------------------------------
(* Properties *)

RecordsTypeOK ==
    /\ now \in 0..MaxTime
    /\ ctx \in BOOLEAN
    /\ files \in [Paths -> Contents]
    /\ DOMAIN log \subseteq 0..MaxTime
    /\ opener \in Processes \cup {NoOne}
    /\ pc \in [Processes -> {"idle", "read", "truncate", "write", "open", "commit", "over"}]
    /\ path \in [Processes -> Paths]
    /\ held \in [Processes -> Stats]
    /\ pruned \subseteq Processes

\* The calls that rule r denied, as far as their process has come to count them.
Denied(r) == {p \in Processes : /\ job[p] = "deny" /\ rule[p] = r
                                /\ pc[p] \notin {"idle", "read"}}

Total(r) == files["local"].stats.blocks[r] + files["global"].stats.blocks[r]

\* record_block (stats.rs): updates are lost and texts torn, but no count,
\* in a file or printed by `crs stats`, is ever above the calls the rule
\* denied, and a last_seen belongs to a rule that was counted.
CountsJustified ==
    \A r \in Rules :
        /\ Total(r) <= Cardinality(Denied(r))
        /\ \A p \in Processes : held[p].blocks[r] <= Cardinality(Denied(r))
        /\ \A f \in Paths : files[f].stats.lastSeen[r] > 0 => files[f].stats.blocks[r] > 0

\* pre.rs counts and logs before it answers: when processes run one after
\* another and none dies, every denial is counted once, in one of the two
\* files, and is in the log unless a prune removed it.
DenialsOnRecord ==
    exclusive /\ ~faulted /\ (\A p \in Processes : ~Running(p)) =>
        /\ \A r \in Rules : Total(r) = Cardinality(Denied(r))
        /\ \A p \in Processes : job[p] \in {"deny", "event"} /\ pc[p] = "over" =>
              p \in pruned \/ \E t \in DOMAIN log : log[t].by = p

\* The table is keyed by time alone, yet no entry replaces another: whatever
\* leaves the log leaves it in a prune, and is older than the age it was given.
EntriesStay ==
    [][\A t \in DOMAIN log :
        \/ t \in DOMAIN log' /\ log'[t] = log[t]
        \/ \E p \in Processes, age \in Ages :
              Prune(p, age) /\ (age <= now => t < now - age)]_vars

Queries == [after : 0..MaxTime \cup {NoBound}, before : {NoBound},
            outcome : {"any", "deny"}, limit : 0..2]

Asked(q) == {t \in DOMAIN log : /\ q.after # NoBound => t > q.after
                                /\ q.outcome \in {"any", log[t].outcome}}

\* query (log.rs): without an upper bound the walk returns exactly the newest
\* of the entries that were asked for, newest first, as many as the limit lets.
QueryShowsNewest ==
    \A q \in Queries :
        LET keys == Query(log, q)
            shown == ToSet(keys)
        IN /\ shown \subseteq Asked(q)
           /\ \A i, j \in DOMAIN keys : i < j => keys[i] > keys[j]
           /\ \A t \in Asked(q) \ shown : Len(keys) = Limit(q) /\ \A s \in shown : s > t

\* `crs stats`, `crs history` and `crs heat` agree: every rule with a count has
\* its firing, every rule in the history its count, and what a limit leaves out
\* of the history fired no later than what it shows.
TablesAgree(stats) ==
    /\ \A table \in BlockTable(stats).lists :
          /\ Len(table) = Cardinality(HeatFirings(stats, Rules))
          /\ BlockTable(stats).total >= Len(table)
    /\ \A asked \in SUBSET Rules, limit \in 0..2 : \A shown \in History(stats, asked, limit) :
          \A firing \in HeatFirings(stats, asked) :
              \/ firing.rule \in ToSet(shown) /\ stats.blocks[firing.rule] > 0
              \/ /\ Len(shown) = limit
                 /\ \A r \in ToSet(shown) : stats.lastSeen[r] >= firing.at

\* The queries of what is on record: of the log (QueryShowsNewest), and of the
\* statistics in each file (TablesAgree).
ReportsShowNewest == QueryShowsNewest /\ \A f \in Paths : TablesAgree(files[f].stats)

=============================================================================
