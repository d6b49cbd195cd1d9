---------------------------- MODULE SuggestionStore ----------------------------
(***************************************************************************)
(* Suggestion capture (core/src/analyze/capture.rs): a pre-hook that a     *)
(* rule makes deny records (blocked command, suggestion) in a JSONL file,  *)
(* and a post-hook that saw exit code 0 marks the pending suggestions its  *)
(* command follows as accepted.  Both are short processes of parallel tool *)
(* calls; an fd-lock on the file itself orders their read-modify-writes,   *)
(* which extend or rewrite the file in place.                              *)
(*                                                                         *)
(* The rule's message is the suggestion, so a blocked command determines   *)
(* it and is the whole dedup key.  Timestamps, directories and the exit    *)
(* code, always 0, are left out; so is merging a record that is accepted   *)
(* already, which no caller makes.                                         *)
(***************************************************************************)
EXTENDS Naturals, FiniteSets, Sequences, SequencesExt

CONSTANTS
    Calls,          \* hook processes that use the store
    Originals,      \* commands a rule blocks
    Suggestions,    \* what the rules suggest instead
    Advice,         \* the suggestion a blocked command gets
    Sessions,       \* session ids
    NoSession,      \* the session id of a payload without one
    Malformed,      \* a line that is not a record
    Undecodable,    \* a line that is not even UTF-8
    MaxFaults       \* bound on deaths and failed writes

Record == [original : Originals, session : Sessions \cup {NoSession},
           accepted : BOOLEAN, count : Nat]

\* No call holds the lock.
Nobody == "nobody"

ASSUME CaptureAssumption ==
    /\ IsFiniteSet(Calls) /\ Nobody \notin Calls
    /\ Advice \in [Originals -> Suggestions]
    /\ NoSession \notin Sessions
    /\ {Malformed, Undecodable} \cap Record = {}
    /\ MaxFaults \in Nat

VARIABLES
    job,            \* what each call is about
    lines,          \* the file, line by line
    ended,          \* whether its last line ends with a newline
    lock,           \* the call whose process holds the lock, if any
    step,           \* where each call's process is
    held,           \* the records each process works on
    faults          \* deaths and failed writes so far

vars == <<job, lines, ended, lock, step, held, faults>>

-----------------------------------------------------------------------------

Jobs ==
    [kind : {"record"}, original : Originals, session : Sessions \cup {NoSession}]
        \cup [kind : {"accept"}, command : Suggestions, session : Sessions]

\* A line that holds a part of a record, or two records in one: text that is
\* no record, or not even UTF-8 when the cut is inside a character.
Broken == {Malformed, Undecodable}

IsRecord(line) == line \notin Broken

\* BufRead::lines() fails at an undecodable line, and load_records with it.
Loadable == \A i \in DOMAIN lines : lines[i] # Undecodable

\* load_records pushes one line after the other.
Records(ls) ==
    LET kept[n \in 0..Len(ls)] ==
            IF n = 0 THEN <<>>
            ELSE IF IsRecord(ls[n]) THEN Append(kept[n - 1], ls[n])
            ELSE kept[n - 1]
    IN  kept[Len(ls)]

New(j) == [original |-> j.original, session |-> j.session, accepted |-> FALSE, count |-> 1]

\* Mutation of IsDuplicate: blocks of other sessions are other records.
IsDuplicateInSession(records, j) ==
    \E i \in DOMAIN records :
        records[i].original = j.original /\ records[i].session = j.session

IsDuplicate(records, j) == \E i \in DOMAIN records : records[i].original = j.original

\* Mutation of Merged: a repeated block belongs to the session it was seen in.
MergedIntoSession(records, j) ==
    [i \in DOMAIN records |->
        IF records[i].original = j.original
        THEN [records[i] EXCEPT !.count = @ + 1, !.session = j.session]
        ELSE records[i]]

\* merge_duplicate, when there is one.  The entry keeps its first session.
Merged(records, j) ==
    [i \in DOMAIN records |->
        IF records[i].original = j.original
        THEN [records[i] EXCEPT !.count = @ + 1]
        ELSE records[i]]

IsAcceptableMatch(r, j) ==
    /\ ~r.accepted
    /\ r.session = j.session
    /\ Advice[r.original] = j.command

\* apply_accepted: every match, not only the first.
Accepted(records, j) ==
    [i \in DOMAIN records |->
        IF IsAcceptableMatch(records[i], j)
        THEN [records[i] EXCEPT !.accepted = TRUE]
        ELSE records[i]]

\* Text appended to a file that does not end with a newline continues its last
\* line, which then is no record any more.
Extend(line) ==
    IF ended THEN Append(lines, line)
    ELSE Append(Front(lines), IF Undecodable \in {line, Last(lines)}
                              THEN Undecodable ELSE Malformed)

-----------------------------------------------------------------------------

Holds(k) == lock = k

Init ==
    /\ job \in [Calls -> Jobs]
    /\ lines = <<>>
    /\ ended = TRUE
    /\ lock = Nobody
    /\ step = [k \in Calls |-> "idle"]
    /\ held = [k \in Calls |-> <<>>]
    /\ faults = 0

Goto(k, s) ==
    /\ step' = [step EXCEPT ![k] = s]
    /\ UNCHANGED lock

\* do_record or do_mark_accepted returns, and drops the guard with the file.
Return(k) ==
    /\ step' = [step EXCEPT ![k] = "over"]
    /\ lock' = IF Holds(k) THEN Nobody ELSE lock

\* lock_file: the file is created when missing, and left as it is otherwise.
OpenFile(k) ==
    /\ step[k] = "idle"
    /\ Goto(k, "lock")
    /\ UNCHANGED <<job, lines, ended, held, faults>>

\* Mutation of Lock: a shared lock, lock.read().
LockShared(k) ==
    /\ step[k] = "lock"
    /\ lock' = k
    /\ step' = [step EXCEPT ![k] = "load"]
    /\ UNCHANGED <<job, lines, ended, held, faults>>

\* Mutation of Lock: `let _ =`, which drops the guard at once.
LockDropped(k) ==
    /\ step[k] = "lock"
    /\ lock = Nobody
    /\ step' = [step EXCEPT ![k] = "load"]
    /\ UNCHANGED <<job, lines, ended, held, lock, faults>>

\* lock.write() blocks while another process holds the lock.
Lock(k) ==
    /\ step[k] = "lock"
    /\ lock = Nobody
    /\ lock' = k
    /\ step' = [step EXCEPT ![k] = "load"]
    /\ UNCHANGED <<job, lines, ended, held, faults>>

\* The records are read and the change decided: a new pair is appended, a
\* changed record has the file rewritten, and without either nothing happens.
Load(k) ==
    /\ step[k] = "load"
    /\ LET records == Records(lines)
           j == job[k]
       IN  \/ /\ Loadable
              /\ j.kind = "record" /\ IsDuplicate(records, j)
              /\ held' = [held EXCEPT ![k] = Merged(records, j)]
              /\ Goto(k, "truncate")
           \/ /\ Loadable
              /\ j.kind = "record" /\ ~IsDuplicate(records, j)
              /\ Goto(k, "append")
              /\ UNCHANGED held
           \/ /\ Loadable
              /\ j.kind = "accept" /\ Accepted(records, j) # records
              /\ held' = [held EXCEPT ![k] = Accepted(records, j)]
              /\ Goto(k, "truncate")
           \/ /\ Loadable
              /\ j.kind = "accept" /\ Accepted(records, j) = records
              /\ Return(k)
              /\ UNCHANGED held
           \/ /\ ~Loadable
              /\ Return(k)
              /\ UNCHANGED held
    /\ UNCHANGED <<job, lines, ended, faults>>

\* append: writeln! makes two writes, of the text and of the newline.
AppendText(k) ==
    /\ step[k] = "append"
    /\ lines' = Extend(New(job[k]))
    /\ ended' = FALSE
    /\ Goto(k, "newline")
    /\ UNCHANGED <<job, held, faults>>

\* Mutation of AppendNewline: the guard is kept after an append.
AppendNewlineLocked(k) ==
    /\ step[k] = "newline"
    /\ ended' = TRUE
    /\ Goto(k, "over")
    /\ UNCHANGED <<job, lines, held, faults>>

AppendNewline(k) ==
    /\ step[k] = "newline"
    /\ ended' = TRUE
    /\ Return(k)
    /\ UNCHANGED <<job, lines, held, faults>>

\* write_all: opening the file empties it, and one write fills it.
Truncate(k) ==
    /\ step[k] = "truncate"
    /\ lines' = <<>>
    /\ ended' = TRUE
    /\ Goto(k, "rewrite")
    /\ UNCHANGED <<job, held, faults>>

Rewrite(k) ==
    /\ step[k] = "rewrite"
    /\ lines' = held[k]
    /\ ended' = TRUE
    /\ Return(k)
    /\ UNCHANGED <<job, held, faults>>

-----------------------------------------------------------------------------
(* Faults: a write that stops short, by an error or with its process.  *)

Fault ==
    /\ faults < MaxFaults
    /\ faults' = faults + 1

\* A part of the text reaches the file.
AppendCut(k) ==
    /\ Fault
    /\ step[k] = "append"
    /\ \E cut \in Broken \cup {New(job[k])} : lines' = Extend(cut)
    /\ ended' = FALSE
    /\ Return(k)
    /\ UNCHANGED <<job, held>>

\* Whole lines reach the file, and perhaps a part of the next one.
RewriteCut(k) ==
    /\ Fault
    /\ step[k] = "rewrite"
    /\ \E n \in 0..(Len(held[k]) - 1) :
          LET whole == SubSeq(held[k], 1, n)
          IN  \/ lines' = whole /\ ended' = TRUE
              \/ /\ \E cut \in Broken \cup {held[k][n + 1]} : lines' = Append(whole, cut)
                 /\ ended' = FALSE
    /\ Return(k)
    /\ UNCHANGED <<job, held>>

\* The process dies, or a call of it fails without effect; the kernel releases
\* the lock either way.
Crash(k) ==
    /\ Fault
    /\ step[k] \notin {"idle", "over"}
    /\ Return(k)
    /\ UNCHANGED <<job, lines, ended, held>>

AllOver ==
    /\ \A k \in Calls : step[k] = "over"
    /\ UNCHANGED vars

ProcessStep(k) ==
    \/ Lock(k)
    \/ Load(k)
    \/ AppendText(k)
    \/ AppendNewline(k)
    \/ Truncate(k)
    \/ Rewrite(k)

Next ==
    \/ \E k \in Calls :
          OpenFile(k) \/ ProcessStep(k) \/ AppendCut(k) \/ RewriteCut(k) \/ Crash(k)
    \/ AllOver

\* A process that was started and can go on does: the kernel schedules it, and
\* hands the lock to a waiting process once it is free.
Fairness == \A k \in Calls : WF_vars(ProcessStep(k))

Spec == Init /\ [][Next]_vars /\ Fairness

-----------------------------------------------------------------------------
(* Properties *)

\* Every variable keeps its type, and exactly the process that is past the lock
\* and not over holds it.
TypeOK ==
    /\ job \in [Calls -> Jobs]
    /\ lines \in Seq(Record \cup Broken)
    /\ ended \in BOOLEAN
    /\ lock \in Calls \cup {Nobody}
    /\ step \in [Calls -> {"idle", "lock", "load", "append", "newline", "truncate",
                           "rewrite", "over"}]
    /\ held \in [Calls -> Seq(Record)]
    /\ faults \in 0..MaxFaults
    /\ \A k \in Calls : Holds(k) <=> step[k] \notin {"idle", "lock", "over"}
    /\ lines = <<>> => ended

\* Dedup on the pair (module comment of capture.rs): however processes overlap
\* and wherever they are cut off, no blocked command has two records.
OneRecordPerSuggestion ==
    \A i, j \in DOMAIN lines :
        /\ IsRecord(lines[i]) /\ IsRecord(lines[j])
        /\ lines[i].original = lines[j].original
        => i = j

Blocks(o) == {k \in Calls : job[k].kind = "record" /\ job[k].original = o}

BlocksOver(o) == {k \in Blocks(o) : step[k] = "over"}

CountIn(ls, o) ==
    LET is == {i \in DOMAIN ls : IsRecord(ls[i]) /\ ls[i].original = o}
    IN  IF is = {} THEN 0 ELSE ls[CHOOSE i \in is : TRUE].count

CountOf(o) == CountIn(lines, o)

\* "Number of times this (original, suggestion) pair has been seen": never more
\* than the blocks there were, and, as long as no process was cut off, exactly
\* those whose process is over whenever nobody holds the lock.
CountsBlocks ==
    \A o \in Originals :
        /\ CountOf(o) <= Cardinality(Blocks(o))
        /\ faults = 0 /\ lock = Nobody => CountOf(o) = Cardinality(BlocksOver(o))

\* A hook waits on the lock of others, and blocks the agent while it does: it
\* gets its turn and ends, also when a process dies that holds the lock.
HooksEnd == \A k \in Calls : step[k] = "lock" ~> step[k] = "over"

LoadedRecords == IF Loadable THEN Records(lines) ELSE <<>>

\* load: "Silently skips malformed lines": a malformed line hides no record.
MalformedLinesSkipped == LoadedRecords = Records(lines)

\* The file stands for the records in it; while it is being rewritten, for
\* those that are about to be in it.
Meant == IF \E k \in Calls : step[k] = "rewrite"
         THEN held[CHOOSE k \in Calls : step[k] = "rewrite"]
         ELSE Records(lines)

EntryIn(records, o) ==
    LET is == {i \in DOMAIN records : records[i].original = o}
        r == records[CHOOSE i \in is : TRUE]
    IN  IF is = {} THEN [session |-> NoSession, accepted |-> FALSE, count |-> 0]
        ELSE [session |-> r.session, accepted |-> r.accepted, count |-> r.count]

Dataset == INSTANCE CaptureDataset WITH
    dataset <- [o \in Originals |-> EntryIn(Meant, o)],
    taken   <- {k \in Calls : step[k] \in {"newline", "rewrite", "over"}}

\* The processes and the file amount to one atomic dataset (CaptureDataset).
ImplementsDataset == Dataset!Spec

=============================================================================
