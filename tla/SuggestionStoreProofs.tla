------------------------- MODULE SuggestionStoreProofs -------------------------
(***************************************************************************)
(* Proofs about SuggestionStore, for any finite set of calls, any commands *)
(* and suggestions and any number of faults: the lock excludes, no command *)
(* has two records, blocks are counted, and the processes and the file     *)
(* implement CaptureDataset.                                               *)
(***************************************************************************)
EXTENDS SuggestionStore, RecursionTheorems, FiniteSetTheorems, SequenceTheorems, TLAPS

Line == Record \cup Broken

\* OneRecordPerSuggestion of any list of lines.
Unique(ls) ==
    \A i, j \in DOMAIN ls :
        IsRecord(ls[i]) /\ IsRecord(ls[j]) /\ ls[i].original = ls[j].original => i = j

-----------------------------------------------------------------------------
(* What the operators return. *)

\* A line is a record of the dataset or is broken, never both.
LEMMA LineKinds ==
    ASSUME NEW line \in Line
    PROVE  IsRecord(line) <=> line \in Record
BY CaptureAssumption DEF Line, IsRecord, Broken

\* rs has the records among the first n lines of ls, and each as often.
Gathers(ls, n, rs) ==
    /\ rs \in Seq(Record)
    /\ \A i \in DOMAIN rs : \E j \in 1..n : IsRecord(ls[j]) /\ ls[j] = rs[i]
    /\ \A j \in 1..n : IsRecord(ls[j]) => \E i \in DOMAIN rs : rs[i] = ls[j]
    /\ Unique(ls) => Unique(rs)

\* One more line: a record is appended, and another line passed over.
LEMMA GathersNext ==
    ASSUME NEW ls \in Seq(Line), NEW n \in 1..Len(ls), NEW rs, Gathers(ls, n - 1, rs)
    PROVE  Gathers(ls, n, IF IsRecord(ls[n]) THEN Append(rs, ls[n]) ELSE rs)
<1>1. rs \in Seq(Record) /\ ls[n] \in Line /\ n \in Nat
  BY DEF Gathers
<1>2. CASE ~IsRecord(ls[n])
  BY <1>2 DEF Gathers
<1>3. CASE IsRecord(ls[n])
  <2> DEFINE new == Append(rs, ls[n])
  <2>1. ls[n] \in Record
    BY <1>1, <1>3, LineKinds
  <2>2. /\ new \in Seq(Record) /\ Len(rs) \in Nat
        /\ DOMAIN rs = 1..Len(rs) /\ DOMAIN new = 1..(Len(rs) + 1)
        /\ \A i \in 1..Len(rs) : new[i] = rs[i]
        /\ new[Len(rs) + 1] = ls[n]
    BY <1>1, <2>1
  <2> HIDE DEF new
  <2>3. ASSUME NEW i \in DOMAIN new
        PROVE  \E j \in 1..n : IsRecord(ls[j]) /\ ls[j] = new[i]
    <3>1. CASE i = Len(rs) + 1
      BY <2>2, <3>1, <1>3
    <3>2. CASE i \in DOMAIN rs
      <4>1. PICK j \in 1..(n - 1) : IsRecord(ls[j]) /\ ls[j] = rs[i]
        BY <3>2 DEF Gathers
      <4>2. QED
        BY <4>1, <3>2, <2>2
    <3>3. QED
      BY <3>1, <3>2, <2>2
  <2>4. ASSUME NEW j \in 1..n, IsRecord(ls[j])
        PROVE  \E i \in DOMAIN new : new[i] = ls[j]
    <3>1. CASE j = n
      BY <2>2, <3>1
    <3>2. CASE j \in 1..(n - 1)
      <4>1. PICK i \in DOMAIN rs : rs[i] = ls[j]
        BY <3>2, <2>4 DEF Gathers
      <4>2. QED
        BY <4>1, <2>2
    <3>3. QED
      BY <3>1, <3>2
  <2>5. ASSUME Unique(ls)
        PROVE  Unique(new)
    <3> SUFFICES ASSUME NEW a \in DOMAIN new, NEW b \in DOMAIN new,
                        new[a].original = new[b].original, a # b
                 PROVE  FALSE
      BY DEF Unique
    <3>1. Unique(rs) /\ \A i \in DOMAIN rs : IsRecord(rs[i])
      BY <2>5 DEF Gathers
    <3>2. ASSUME NEW i \in DOMAIN rs PROVE rs[i].original # ls[n].original
      <4>1. PICK j \in 1..(n - 1) : IsRecord(ls[j]) /\ ls[j] = rs[i]
        BY DEF Gathers
      <4>2. j \in DOMAIN ls /\ n \in DOMAIN ls /\ j # n
        OBVIOUS
      <4>3. QED
        BY <4>1, <4>2, <1>3, <2>5 DEF Unique
    <3>3. QED
      BY <2>2, <3>1, <3>2 DEF Unique
  <2>6. Gathers(ls, n, new)
    BY <2>2, <2>3, <2>4, <2>5 DEF Gathers
  <2>7. QED
    BY <2>6, <1>3 DEF new
<1>4. QED
  BY <1>2, <1>3

\* load_records returns the records of the file.
LEMMA RecordsFacts ==
    ASSUME NEW ls \in Seq(Line)
    PROVE  Gathers(ls, Len(ls), Records(ls))
<1> DEFINE V == Seq(Record)
           step1 == [p \in V \X (1..Len(ls)) |->
                        IF IsRecord(ls[p[2]]) THEN Append(p[1], ls[p[2]]) ELSE p[1]]
           Body(f) == [n \in 0..Len(ls) |->
                        IF n = 0 THEN <<>>
                        ELSE IF IsRecord(ls[n]) THEN Append(f[n - 1], ls[n])
                        ELSE f[n - 1]]
           kept == CHOOSE f : f = Body(f)
<1>1. Len(ls) \in Nat /\ \A n \in 1..Len(ls) : ls[n] \in Line
  OBVIOUS
<1>2. \E f : f = Body(f)
  <2>1. <<>> \in V
    OBVIOUS
  <2>2. step1 \in [V \X (1..Len(ls)) -> V]
    BY <1>1, LineKinds
  <2>3. PICK f : Computes(f, Len(ls), V, <<>>, step1)
    <3> HIDE DEF V, step1
    <3>1. QED
      BY <1>1, <2>1, <2>2, Recursion
  <2>4. f \in [0..Len(ls) -> V] /\ f[0] = <<>>
    BY <2>3 DEF Computes
  <2>5. ASSUME NEW n \in 1..Len(ls)
        PROVE  f[n] = IF IsRecord(ls[n]) THEN Append(f[n - 1], ls[n]) ELSE f[n - 1]
    <3>1. f[n] = step1[<<f[n - 1], n>>]
      BY <2>3 DEF Computes
    <3>2. f[n - 1] \in V
      BY <1>1, <2>4
    <3>3. QED
      BY <3>1, <3>2
  <2>6. f = Body(f)
    <3>1. \A n \in 0..Len(ls) : n = 0 \/ n \in 1..Len(ls)
      BY <1>1
    <3>2. \A n \in 0..Len(ls) :
             f[n] = IF n = 0 THEN <<>>
                    ELSE IF IsRecord(ls[n]) THEN Append(f[n - 1], ls[n])
                    ELSE f[n - 1]
      BY <2>4, <2>5, <3>1
    <3>3. QED
      BY <2>4, <3>2
  <2>7. QED
    BY <2>6
<1>3. kept = Body(kept)
  BY <1>2
<1>4. Records(ls) = kept[Len(ls)]
  BY DEF Records
<1> HIDE DEF kept
<1> DEFINE S == {n \in 0..Len(ls) : Gathers(ls, n, kept[n])}
<1>5. 0 \in S
  <2>1. kept[0] = <<>>
    BY <1>1, <1>3
  <2>2. Gathers(ls, 0, <<>>)
    BY DEF Gathers, Unique
  <2>3. QED
    BY <1>1, <2>1, <2>2
<1>6. ASSUME NEW n \in 1..Len(ls), n - 1 \in S
      PROVE  n \in S
  <2>1. kept[n] = IF IsRecord(ls[n]) THEN Append(kept[n - 1], ls[n]) ELSE kept[n - 1]
    <3>1. n \in 0..Len(ls) /\ n # 0
      BY <1>1
    <3>2. Body(kept)[n] =
             IF IsRecord(ls[n]) THEN Append(kept[n - 1], ls[n]) ELSE kept[n - 1]
      BY <3>1
    <3> HIDE DEF Body
    <3>3. QED
      BY <1>3, <3>2
  <2>2. Gathers(ls, n - 1, kept[n - 1])
    BY <1>6
  <2>3. Gathers(ls, n, kept[n])
    BY <2>1, <2>2, GathersNext
  <2>4. QED
    BY <1>1, <2>3
<1>7. Len(ls) \in S
  <2> HIDE DEF S
  <2>1. 0..Len(ls) \subseteq S
    BY <1>1, <1>5, <1>6, UpTo
  <2>2. QED
    BY <1>1, <2>1
<1>8. QED
  BY <1>4, <1>7

\* A record of the store is no broken line.
LEMMA RecordsAreRecords ==
    ASSUME NEW rs \in Seq(Record)
    PROVE  /\ rs \in Seq(Line)
           /\ \A i \in DOMAIN rs : rs[i] \in Record /\ IsRecord(rs[i])
<1>1. \A i \in DOMAIN rs : rs[i] \in Record
  OBVIOUS
<1>2. Record \subseteq Line
  BY DEF Line
<1>3. rs \in Seq(Line)
  BY <1>2, SeqMonotonic
<1>4. QED
  BY <1>1, <1>2, <1>3, LineKinds

\* merge_duplicate changes counts only.
LEMMA MergedFacts ==
    ASSUME NEW rs \in Seq(Record), NEW j
    PROVE  /\ Merged(rs, j) \in Seq(Record)
           /\ DOMAIN Merged(rs, j) = DOMAIN rs
           /\ \A i \in DOMAIN rs :
                 Merged(rs, j)[i] = [rs[i] EXCEPT !.count =
                     IF rs[i].original = j.original THEN @ + 1 ELSE @]
           /\ Unique(rs) => Unique(Merged(rs, j))
<1>1. Len(rs) \in Nat /\ DOMAIN rs = 1..Len(rs) /\ \A i \in DOMAIN rs : rs[i] \in Record
  OBVIOUS
<1>2. ASSUME NEW i \in DOMAIN rs
      PROVE  /\ Merged(rs, j)[i] \in Record
             /\ Merged(rs, j)[i] = [rs[i] EXCEPT !.count =
                   IF rs[i].original = j.original THEN @ + 1 ELSE @]
             /\ Merged(rs, j)[i].original = rs[i].original
  BY <1>1 DEF Merged, Record
<1>3. DOMAIN Merged(rs, j) = DOMAIN rs
  BY DEF Merged
<1>4. Merged(rs, j) \in Seq(Record)
  <2>1. Merged(rs, j) = [i \in 1..Len(rs) |-> Merged(rs, j)[i]]
    BY <1>1 DEF Merged
  <2>2. \A i \in 1..Len(rs) : Merged(rs, j)[i] \in Record
    BY <1>1, <1>2
  <2>3. QED
    BY <1>1, <2>1, <2>2
<1>5. Unique(rs) => Unique(Merged(rs, j))
  BY <1>2, <1>3, <1>4, RecordsAreRecords DEF Unique
<1>6. QED
  BY <1>2, <1>3, <1>4, <1>5

\* apply_accepted changes acceptance only.
LEMMA AcceptedFacts ==
    ASSUME NEW rs \in Seq(Record), NEW j
    PROVE  /\ Accepted(rs, j) \in Seq(Record)
           /\ DOMAIN Accepted(rs, j) = DOMAIN rs
           /\ \A i \in DOMAIN rs :
                 Accepted(rs, j)[i] = IF IsAcceptableMatch(rs[i], j)
                                      THEN [rs[i] EXCEPT !.accepted = TRUE] ELSE rs[i]
           /\ Unique(rs) => Unique(Accepted(rs, j))
<1>1. Len(rs) \in Nat /\ DOMAIN rs = 1..Len(rs) /\ \A i \in DOMAIN rs : rs[i] \in Record
  OBVIOUS
<1>2. ASSUME NEW i \in DOMAIN rs
      PROVE  /\ Accepted(rs, j)[i] \in Record
             /\ Accepted(rs, j)[i].original = rs[i].original
  BY <1>1 DEF Accepted, Record
<1>3. DOMAIN Accepted(rs, j) = DOMAIN rs
  BY DEF Accepted
<1>4. Accepted(rs, j) \in Seq(Record)
  <2>1. Accepted(rs, j) = [i \in 1..Len(rs) |-> Accepted(rs, j)[i]]
    BY <1>1 DEF Accepted
  <2>2. \A i \in 1..Len(rs) : Accepted(rs, j)[i] \in Record
    BY <1>1, <1>2
  <2>3. QED
    BY <1>1, <2>1, <2>2
<1>5. Unique(rs) => Unique(Accepted(rs, j))
  BY <1>2, <1>3, <1>4, RecordsAreRecords DEF Unique
<1>6. QED
  BY <1>3, <1>4, <1>5 DEF Accepted

\* The first lines of a list.
LEMMA PrefixFacts ==
    ASSUME NEW S, NEW s \in Seq(S), NEW n \in 0..Len(s)
    PROVE  /\ SubSeq(s, 1, n) \in Seq(S)
           /\ Len(SubSeq(s, 1, n)) = n
           /\ \A i \in 1..n : SubSeq(s, 1, n)[i] = s[i]
<1>1. n \in Nat /\ n <= Len(s) /\ Len(s) \in Nat
  OBVIOUS
<1>2. SubSeq(s, 1, n) \in Seq(S)
  BY <1>1
<1>3. Len(SubSeq(s, 1, n)) = n
  BY <1>1
<1>4. \A i \in 1..n : SubSeq(s, 1, n)[i] = s[i]
  BY <1>1
<1>5. QED
  BY <1>2, <1>3, <1>4

\* A line after a newline is a line; after none it spoils the last one.
LEMMA ExtendFacts ==
    ASSUME lines \in Seq(Line), lines = <<>> => ended, NEW line \in Line
    PROVE  /\ Extend(line) \in Seq(Line) /\ Extend(line) # <<>>
           /\ ended => Extend(line) = Append(lines, line)
           /\ ~ended =>
                 /\ Len(Extend(line)) = Len(lines)
                 /\ Extend(line)[Len(lines)] \in Broken
                 /\ \A i \in 1..(Len(lines) - 1) : Extend(line)[i] = lines[i]
<1>1. CASE ended
  BY <1>1 DEF Extend
<1>2. CASE ~ended
  <2> DEFINE cut == IF Undecodable \in {line, Last(lines)} THEN Undecodable ELSE Malformed
             front == Front(lines)
  <2>1. lines # <<>> /\ Len(lines) \in Nat /\ Len(lines) > 0
    BY <1>2
  <2>2. /\ front \in Seq(Line)
        /\ Len(front) = Len(lines) - 1
        /\ \A i \in 1..(Len(lines) - 1) : front[i] = lines[i]
    <3>1. front = SubSeq(lines, 1, Len(lines) - 1) /\ Len(lines) - 1 \in 0..Len(lines)
      BY <2>1 DEF Front
    <3>2. QED
      BY <3>1, PrefixFacts
  <2>3. cut \in Broken /\ cut \in Line
    BY DEF Broken, Line
  <2>4. Extend(line) = Append(front, cut)
    BY <1>2 DEF Extend
  <2> HIDE DEF front, cut
  <2>5. QED
    BY <1>2, <2>1, <2>2, <2>3, <2>4
<1>3. QED
  BY <1>1, <1>2

\* A rewrite that was cut leaves the first records, and perhaps a part of one.
LEMMA CutFacts ==
    ASSUME NEW k \in Calls, held[k] \in Seq(Record), RewriteCut(k)
    PROVE  /\ lines' \in Seq(Line) /\ ended' \in BOOLEAN
           /\ lines' = <<>> => ended'
           /\ Len(lines') <= Len(held[k])
           /\ \A i \in DOMAIN lines' :
                 lines'[i] = held[k][i] \/ (i = Len(lines') /\ lines'[i] \in Broken)
<1>1. PICK n \in 0..(Len(held[k]) - 1) :
         \/ lines' = SubSeq(held[k], 1, n) /\ ended' = TRUE
         \/ /\ \E cut \in Broken \cup {held[k][n + 1]} :
                  lines' = Append(SubSeq(held[k], 1, n), cut)
            /\ ended' = FALSE
  BY DEF RewriteCut
<1> DEFINE whole == SubSeq(held[k], 1, n)
<1>2. /\ Len(held[k]) \in Nat /\ n \in 0..Len(held[k]) /\ n + 1 \in 1..Len(held[k])
      /\ held[k] \in Seq(Line) /\ held[k][n + 1] \in Line
  BY RecordsAreRecords DEF Line
<1>3. whole \in Seq(Line) /\ Len(whole) = n /\ \A i \in 1..n : whole[i] = held[k][i]
  BY <1>2, PrefixFacts
<1> HIDE DEF whole
<1>4. CASE lines' = whole /\ ended' = TRUE
  BY <1>2, <1>3, <1>4
<1>5. CASE /\ \E cut \in Broken \cup {held[k][n + 1]} : lines' = Append(whole, cut)
           /\ ended' = FALSE
  <2>1. PICK cut \in Broken \cup {held[k][n + 1]} : lines' = Append(whole, cut)
    BY <1>5
  <2>2. cut \in Line
    BY <1>2 DEF Line
  <2>3. /\ lines' \in Seq(Line) /\ lines' # <<>> /\ Len(lines') = n + 1
        /\ \A i \in 1..n : lines'[i] = whole[i]
        /\ lines'[n + 1] = cut
    BY <1>2, <1>3, <2>1, <2>2
  <2>4. ASSUME NEW i \in DOMAIN lines'
        PROVE  lines'[i] = held[k][i] \/ (i = Len(lines') /\ lines'[i] \in Broken)
    <3>1. i \in 1..n \/ i = n + 1
      BY <1>2, <2>3
    <3>2. QED
      BY <3>1, <2>1, <2>3, <1>3
  <2>5. Len(lines') <= Len(held[k])
    <3>1. n + 1 <= Len(held[k])
      BY <1>2
    <3>2. QED
      BY <2>3, <3>1
  <2>6. ended' \in BOOLEAN
    BY <1>5
  <2>7. QED
    BY <2>3, <2>4, <2>5, <2>6, Zenon
<1>6. QED
  BY <1>1, <1>4, <1>5 DEF whole

-----------------------------------------------------------------------------
(* Types, and the lock. *)

\* Only a block is appended.
AppendsBlocks == \A k \in Calls : step[k] = "append" => job[k].kind = "record"

Typed == TypeOK /\ AppendsBlocks

\* The record of a block is one.
LEMMA NewType ==
    ASSUME NEW j \in Jobs, j.kind = "record"
    PROVE  New(j) \in Record /\ New(j) \in Line
BY DEF Jobs, New, Record, Line

\* The steps of a process with the lock.
Inside == {"load", "append", "newline", "truncate", "rewrite"}

\* The lock excludes: two processes past it are one.
LEMMA Alone ==
    ASSUME TypeOK, NEW k \in Calls, NEW h \in Calls, step[k] \in Inside, step[h] \in Inside
    PROVE  h = k /\ lock = k
BY DEF TypeOK, Holds, Inside

LEMMA TypeInit == Init => Typed
<1> SUFFICES ASSUME Init PROVE Typed
  OBVIOUS
<1>1. lines \in Seq(Record \cup Broken) /\ held \in [Calls -> Seq(Record)]
  BY DEF Init
<1>2. faults \in 0..MaxFaults
  BY CaptureAssumption DEF Init
<1>3. QED
  BY <1>1, <1>2, CaptureAssumption DEF Init, Typed, TypeOK, AppendsBlocks, Holds

\* k goes to s, and the lock is with who is past it.
Moved(k, s) ==
    /\ lock' \in Calls \cup {Nobody}
    /\ step' = [step EXCEPT ![k] = s]
    /\ \A h \in Calls : Holds(h)' <=> step'[h] \notin {"idle", "lock", "over"}

\* What Return and Goto do to the lock.
LEMMA ReturnTyped ==
    ASSUME TypeOK, NEW k \in Calls, step[k] # "idle", Return(k)
    PROVE  Moved(k, "over")
BY CaptureAssumption DEF TypeOK, Return, Holds, Moved

LEMMA GotoTyped ==
    ASSUME TypeOK, NEW k \in Calls, NEW s, Goto(k, s),
           \/ step[k] \in Inside /\ s \in Inside
           \/ step[k] = "idle" /\ s = "lock"
    PROVE  Moved(k, s)
BY DEF TypeOK, Goto, Holds, Inside, Moved

LEMMA TypeNext == Typed /\ [Next]_vars => Typed'
<1> SUFFICES ASSUME Typed, [Next]_vars PROVE Typed'
  OBVIOUS
<1> USE DEF Typed, AppendsBlocks
<1>1. TypeOK /\ lines \in Seq(Line) /\ (lines = <<>> => ended)
  BY DEF TypeOK, Line
<1>2. ASSUME NEW k \in Calls, OpenFile(k)
      PROVE  Typed'
  <2>1. step[k] = "idle" /\ Goto(k, "lock") /\ UNCHANGED <<job, lines, ended, held, faults>>
    BY <1>2 DEF OpenFile
  <2>2. Moved(k, "lock")
    BY <1>1, <2>1, GotoTyped
  <2>3. QED
    BY <1>1, <2>1, <2>2 DEF TypeOK, Moved
<1>3. ASSUME NEW k \in Calls, Lock(k)
      PROVE  Typed'
  BY <1>1, <1>3, CaptureAssumption DEF TypeOK, Lock, Holds
<1>4. ASSUME NEW k \in Calls, Load(k)
      PROVE  Typed'
  <2> DEFINE rs == Records(lines)
  <2>1. step[k] = "load" /\ UNCHANGED <<job, lines, ended, faults>> /\ rs \in Seq(Record)
    BY <1>1, <1>4, RecordsFacts DEF Load, Gathers
  <2> HIDE DEF rs
  <2>2. /\ Merged(rs, job[k]) \in Seq(Record)
        /\ Accepted(rs, job[k]) \in Seq(Record)
    BY <2>1, MergedFacts, AcceptedFacts
  <2>3. CASE /\ held' \in {[held EXCEPT ![k] = Merged(rs, job[k])],
                           [held EXCEPT ![k] = Accepted(rs, job[k])]}
             /\ Goto(k, "truncate")
    <3>1. held' \in [Calls -> Seq(Record)]
      BY <1>1, <2>2, <2>3 DEF TypeOK
    <3>2. Moved(k, "truncate")
      BY <1>1, <2>1, <2>3, GotoTyped DEF Inside
    <3>3. QED
      BY <1>1, <2>1, <2>3, <3>1, <3>2 DEF TypeOK, Moved
  <2>4. CASE job[k].kind = "record" /\ Goto(k, "append") /\ UNCHANGED held
    <3>1. Moved(k, "append")
      BY <1>1, <2>1, <2>4, GotoTyped DEF Inside
    <3>2. QED
      BY <1>1, <2>1, <2>4, <3>1 DEF TypeOK, Moved
  <2>5. CASE Return(k) /\ UNCHANGED held
    <3>1. Moved(k, "over")
      BY <1>1, <2>1, <2>5, ReturnTyped
    <3>2. QED
      BY <1>1, <2>1, <2>5, <3>1 DEF TypeOK, Moved
  <2>6. QED
    BY <1>4, <2>3, <2>4, <2>5 DEF Load, rs
<1>5. ASSUME NEW k \in Calls, AppendText(k)
      PROVE  Typed'
  <2>1. /\ step[k] = "append" /\ Goto(k, "newline") /\ ended' = FALSE
        /\ lines' = Extend(New(job[k])) /\ UNCHANGED <<job, held, faults>>
    BY <1>5 DEF AppendText
  <2>2. New(job[k]) \in Line
    BY <1>1, <2>1, NewType DEF TypeOK
  <2>3. lines' \in Seq(Record \cup Broken) /\ lines' # <<>>
    BY <1>1, <2>1, <2>2, ExtendFacts DEF Line
  <2>4. Moved(k, "newline")
    BY <1>1, <2>1, GotoTyped DEF Inside
  <2>5. QED
    BY <1>1, <2>1, <2>3, <2>4 DEF TypeOK, Moved
<1>6. ASSUME NEW k \in Calls, AppendNewline(k)
      PROVE  Typed'
  <2>1. Moved(k, "over")
    BY <1>1, <1>6, ReturnTyped DEF AppendNewline
  <2>2. QED
    BY <1>1, <1>6, <2>1 DEF TypeOK, AppendNewline, Moved
<1>7. ASSUME NEW k \in Calls, Truncate(k)
      PROVE  Typed'
  <2>1. /\ step[k] = "truncate" /\ Goto(k, "rewrite") /\ ended' = TRUE
        /\ lines' = <<>> /\ UNCHANGED <<job, held, faults>>
    BY <1>7 DEF Truncate
  <2>2. lines' \in Seq(Record \cup Broken)
    BY <2>1
  <2>3. Moved(k, "rewrite")
    BY <1>1, <2>1, GotoTyped DEF Inside
  <2>4. QED
    BY <1>1, <2>1, <2>2, <2>3 DEF TypeOK, Moved
<1>8. ASSUME NEW k \in Calls, Rewrite(k)
      PROVE  Typed'
  <2>1. held[k] \in Seq(Record \cup Broken)
    BY <1>1, RecordsAreRecords DEF TypeOK, Line
  <2>2. Moved(k, "over")
    BY <1>1, <1>8, ReturnTyped DEF Rewrite
  <2>3. QED
    BY <1>1, <1>8, <2>1, <2>2 DEF TypeOK, Rewrite, Moved
<1>9. ASSUME NEW k \in Calls, AppendCut(k)
      PROVE  Typed'
  <2>1. /\ step[k] = "append" /\ Return(k) /\ ended' = FALSE
        /\ faults' \in 0..MaxFaults /\ UNCHANGED <<job, held>>
    BY <1>1, <1>9, CaptureAssumption DEF AppendCut, Fault, TypeOK
  <2>2. PICK cut \in Broken \cup {New(job[k])} : lines' = Extend(cut)
    BY <1>9 DEF AppendCut
  <2>3. cut \in Line
    BY <1>1, <2>1, NewType DEF TypeOK, Line
  <2>4. lines' \in Seq(Record \cup Broken) /\ lines' # <<>>
    BY <1>1, <2>2, <2>3, ExtendFacts DEF Line
  <2>5. Moved(k, "over")
    BY <1>1, <2>1, ReturnTyped
  <2>6. QED
    BY <1>1, <2>1, <2>4, <2>5 DEF TypeOK, Moved
<1>10. ASSUME NEW k \in Calls, RewriteCut(k)
       PROVE  Typed'
  <2>1. /\ step[k] = "rewrite" /\ Return(k)
        /\ faults' \in 0..MaxFaults /\ UNCHANGED <<job, held>>
    BY <1>1, <1>10, CaptureAssumption DEF RewriteCut, Fault, TypeOK
  <2>2. lines' \in Seq(Record \cup Broken) /\ ended' \in BOOLEAN /\ (lines' = <<>> => ended')
    BY <1>1, <1>10, CutFacts DEF TypeOK, Line
  <2>3. Moved(k, "over")
    BY <1>1, <2>1, ReturnTyped
  <2>4. QED
    BY <1>1, <2>1, <2>2, <2>3 DEF TypeOK, Moved
<1>11. ASSUME NEW k \in Calls, Crash(k)
       PROVE  Typed'
  <2>1. Moved(k, "over") /\ faults' \in 0..MaxFaults
    BY <1>1, <1>11, ReturnTyped, CaptureAssumption DEF Crash, Fault, TypeOK
  <2>2. QED
    BY <1>1, <1>11, <2>1 DEF TypeOK, Crash, Moved
<1>12. CASE UNCHANGED vars
  BY <1>12 DEF vars, TypeOK, Holds
<1>13. QED
  BY <1>2, <1>3, <1>4, <1>5, <1>6, <1>7, <1>8, <1>9, <1>10, <1>11, <1>12
     DEF Next, ProcessStep, AllOver

\* Every variable keeps its type, and exactly the process between lock.write()
\* and its return holds the lock of the suggestion file.
THEOREM TypeCorrect == Spec => []TypeOK
<1>1. Typed => TypeOK
  BY DEF Typed
<1>2. QED
  BY TypeInit, TypeNext, <1>1, PTL DEF Spec

-----------------------------------------------------------------------------
(* One record per suggestion. *)

\* What k decided is about the file as it is: nobody else writes it meanwhile.
Decided(k) ==
    /\ step[k] = "append" => ~IsDuplicate(Records(lines), job[k])
    /\ step[k] = "truncate" =>
          \/ /\ job[k].kind = "record" /\ IsDuplicate(Records(lines), job[k])
             /\ held[k] = Merged(Records(lines), job[k])
          \/ /\ job[k].kind = "accept"
             /\ held[k] = Accepted(Records(lines), job[k])
    /\ step[k] = "rewrite" => lines = <<>> /\ Unique(held[k])

\* Without a fault every line is a record and ends with a newline, or with the
\* one that is about to be written.
Whole ==
    faults = 0 =>
        /\ \A i \in DOMAIN lines : IsRecord(lines[i])
        /\ ~ended => \E k \in Calls : step[k] = "newline"

StoreInv == Typed /\ (\A k \in Calls : Decided(k)) /\ Unique(lines) /\ Whole

\* Who is not past the lock has decided nothing.
LEMMA UndecidedOthers ==
    ASSUME TypeOK, NEW k \in Calls, step[k] \in Inside, NEW s, step' = [step EXCEPT ![k] = s]
    PROVE  \A h \in Calls : h # k => step'[h] = step[h] /\ step'[h] \notin Inside /\ Decided(h)'
<1> SUFFICES ASSUME NEW h \in Calls, h # k
             PROVE  step'[h] = step[h] /\ step'[h] \notin Inside /\ Decided(h)'
  OBVIOUS
<1>1. step'[h] = step[h] /\ step[h] \notin Inside
  BY Alone DEF TypeOK
<1>2. QED
  BY <1>1 DEF Decided, Inside

\* A step that leaves the file, the jobs and what processes hold alone leaves
\* their decisions alone, but for a process that comes to a new one.
LEMMA StillDecided ==
    ASSUME TypeOK, \A h \in Calls : Decided(h), NEW k \in Calls, NEW s,
           step' = [step EXCEPT ![k] = s], s \notin {"append", "truncate", "rewrite"},
           UNCHANGED <<lines, job, held>>
    PROVE  \A h \in Calls : Decided(h)'
<1> SUFFICES ASSUME NEW h \in Calls
             PROVE  Decided(h)'
  OBVIOUS
<1>1. CASE h = k
  BY <1>1 DEF Decided, TypeOK
<1>2. CASE h # k
  BY <1>2 DEF Decided, TypeOK
<1>3. QED
  BY <1>1, <1>2

\* A block that is no duplicate has no record in the file.
LEMMA FreshBlock ==
    ASSUME lines \in Seq(Line), NEW j, ~IsDuplicate(Records(lines), j)
    PROVE  \A i \in DOMAIN lines : IsRecord(lines[i]) => lines[i].original # j.original
BY RecordsFacts DEF Gathers, IsDuplicate

\* Extending the file by a line that is broken, or is the record of a fresh
\* block, doubles nothing.
LEMMA ExtendUnique ==
    ASSUME lines \in Seq(Line), lines = <<>> => ended, Unique(lines),
           NEW line \in Line, NEW j,
           line \in Broken \cup {New(j)}, ~IsDuplicate(Records(lines), j)
    PROVE  Unique(Extend(line))
<1>1. \A i \in DOMAIN lines : IsRecord(lines[i]) => lines[i].original # New(j).original
  BY FreshBlock DEF New
<1>2. /\ Extend(line) \in Seq(Line) /\ Len(lines) \in Nat
      /\ ended => Extend(line) = Append(lines, line)
      /\ ~ended =>
            /\ Len(Extend(line)) = Len(lines)
            /\ Extend(line)[Len(lines)] \in Broken
            /\ \A i \in 1..(Len(lines) - 1) : Extend(line)[i] = lines[i]
  BY ExtendFacts
<1>3. CASE ended
  <2>1. /\ DOMAIN Extend(line) = 1..(Len(lines) + 1)
        /\ \A i \in DOMAIN lines : Extend(line)[i] = lines[i]
        /\ Extend(line)[Len(lines) + 1] = line
    BY <1>2, <1>3
  <2>2. IsRecord(line) => line = New(j)
    BY DEF IsRecord
  <2>3. ASSUME NEW a \in DOMAIN Extend(line), NEW b \in DOMAIN Extend(line),
               IsRecord(Extend(line)[a]), IsRecord(Extend(line)[b]),
               Extend(line)[a].original = Extend(line)[b].original
        PROVE  a = b
    <3>1. DOMAIN lines = 1..Len(lines)
      OBVIOUS
    <3>2. CASE a \in DOMAIN lines /\ b \in DOMAIN lines
      BY <2>1, <2>3, <3>2 DEF Unique
    <3>3. CASE a = Len(lines) + 1 /\ b = Len(lines) + 1
      BY <3>3
    <3>4. CASE a = Len(lines) + 1 /\ b \in DOMAIN lines
      BY <1>1, <2>1, <2>2, <2>3, <3>4
    <3>5. CASE b = Len(lines) + 1 /\ a \in DOMAIN lines
      BY <1>1, <2>1, <2>2, <2>3, <3>5
    <3>6. Len(lines) \in Nat /\ a \in 1..(Len(lines) + 1) /\ b \in 1..(Len(lines) + 1)
      BY <2>1, <1>2
    <3>7. /\ a \in DOMAIN lines \/ a = Len(lines) + 1
          /\ b \in DOMAIN lines \/ b = Len(lines) + 1
      BY <3>1, <3>6
    <3>8. QED
      BY <3>7, <3>2, <3>3, <3>4, <3>5
  <2>4. QED
    BY <2>3 DEF Unique
<1>4. CASE ~ended
  <2>1. /\ DOMAIN Extend(line) = 1..Len(lines) /\ DOMAIN lines = 1..Len(lines)
        /\ \A i \in 1..(Len(lines) - 1) : Extend(line)[i] = lines[i]
        /\ ~IsRecord(Extend(line)[Len(lines)])
    BY <1>2, <1>4 DEF IsRecord
  <2>2. \A i \in DOMAIN Extend(line) : IsRecord(Extend(line)[i]) =>
           i \in DOMAIN lines /\ Extend(line)[i] = lines[i]
    <3>1. \A i \in 1..Len(lines) : i = Len(lines) \/ i \in 1..(Len(lines) - 1)
      BY <1>2
    <3>2. QED
      BY <2>1, <3>1
  <2>3. QED
    BY <2>2 DEF Unique
<1>5. QED
  BY <1>3, <1>4

LEMMA StoreInit == Init => StoreInv
<1> SUFFICES ASSUME Init PROVE StoreInv
  OBVIOUS
<1>1. lines = <<>> /\ ended /\ \A k \in Calls : step[k] = "idle"
  BY DEF Init
<1>2. QED
  BY <1>1, TypeInit DEF StoreInv, Decided, Unique, Whole

LEMMA StoreNext == StoreInv /\ [Next]_vars => StoreInv'
<1> SUFFICES ASSUME StoreInv, [Next]_vars PROVE StoreInv'
  OBVIOUS
<1> DEFINE Goal == (\A k \in Calls : Decided(k)') /\ Unique(lines)' /\ Whole'
<1>1. /\ TypeOK /\ AppendsBlocks /\ lines \in Seq(Line) /\ (lines = <<>> => ended)
      /\ (\A k \in Calls : Decided(k)) /\ Unique(lines) /\ Whole
      /\ faults \in Nat /\ DOMAIN step = Calls
      /\ \A k \in Calls : held[k] \in Seq(Record) /\ job[k] \in Jobs
  <2>1. Typed /\ (\A k \in Calls : Decided(k)) /\ Unique(lines) /\ Whole
    BY DEF StoreInv
  <2>2. TypeOK /\ AppendsBlocks
    BY <2>1 DEF Typed
  <2>3. lines \in Seq(Line) /\ (lines = <<>> => ended)
    BY <2>2 DEF TypeOK, Line
  <2>4. faults \in Nat /\ DOMAIN step = Calls
    BY <2>2, CaptureAssumption DEF TypeOK
  <2>5. \A k \in Calls : held[k] \in Seq(Record) /\ job[k] \in Jobs
    BY <2>2 DEF TypeOK
  <2>6. QED
    BY <2>1, <2>2, <2>3, <2>4, <2>5
<1>2. Typed'
  BY TypeNext DEF StoreInv
<1>3. ASSUME NEW k \in Calls, OpenFile(k)
      PROVE  Goal
  <2>1. /\ step[k] = "idle" /\ step' = [step EXCEPT ![k] = "lock"]
        /\ UNCHANGED <<lines, job, held, ended, faults>>
    BY <1>3 DEF OpenFile, Goto
  <2>2. \A h \in Calls : Decided(h)'
    BY <1>1, <2>1, StillDecided
  <2>3. QED
    BY <1>1, <2>1, <2>2 DEF Unique, Whole
<1>4. ASSUME NEW k \in Calls, Lock(k)
      PROVE  Goal
  <2>1. /\ step[k] = "lock" /\ step' = [step EXCEPT ![k] = "load"]
        /\ UNCHANGED <<lines, job, held, ended, faults>>
    BY <1>4 DEF Lock
  <2>2. \A h \in Calls : Decided(h)'
    BY <1>1, <2>1, StillDecided
  <2>3. QED
    BY <1>1, <2>1, <2>2 DEF Unique, Whole
<1>5. ASSUME NEW k \in Calls, Load(k)
      PROVE  Goal
  <2>1. step[k] = "load" /\ UNCHANGED <<job, lines, ended, faults>>
    BY <1>5 DEF Load
  <2>2. PICK s : step' = [step EXCEPT ![k] = s]
    BY <1>5 DEF Load, Goto, Return
  <2>3. \A h \in Calls : h # k => Decided(h)'
    BY <1>1, <2>1, <2>2, UndecidedOthers DEF Inside
  <2>4. Decided(k)'
    BY <1>1, <1>5, <2>1 DEF Load, Goto, Return, Decided, TypeOK
  <2>5. Unique(lines)' /\ Whole'
    BY <1>1, <2>1, <2>2 DEF Unique, Whole
  <2>6. QED
    BY <2>3, <2>4, <2>5
<1>6. ASSUME NEW k \in Calls, AppendText(k)
      PROVE  Goal
  <2>1. /\ step[k] = "append" /\ step' = [step EXCEPT ![k] = "newline"] /\ ended' = FALSE
        /\ lines' = Extend(New(job[k])) /\ UNCHANGED <<job, held, faults>>
    BY <1>6 DEF AppendText, Goto
  <2>2. New(job[k]) \in Line /\ New(job[k]) \in Record
    BY <1>1, <2>1, NewType DEF AppendsBlocks
  <2>3. Unique(lines')
    BY <1>1, <2>1, <2>2, ExtendUnique DEF Decided
  <2>4. \A h \in Calls : Decided(h)'
    BY <1>1, <2>1, UndecidedOthers DEF Inside, Decided
  <2>5. Whole'
    <3> SUFFICES ASSUME faults = 0
                 PROVE  \A i \in DOMAIN lines' : IsRecord(lines'[i])
      BY <1>1, <2>1 DEF Whole
    <3>1. ended
      BY <1>1, <2>1, Alone DEF Whole, Inside
    <3>2. lines' = Append(lines, New(job[k]))
      BY <1>1, <2>1, <2>2, <3>1, ExtendFacts
    <3>3. IsRecord(New(job[k])) /\ \A i \in DOMAIN lines : IsRecord(lines[i])
      BY <1>1, <2>2, LineKinds DEF Whole
    <3>4. QED
      BY <1>1, <2>2, <3>2, <3>3
  <2>6. QED
    BY <2>3, <2>4, <2>5 DEF Unique
<1>7. ASSUME NEW k \in Calls, AppendNewline(k)
      PROVE  Goal
  <2>1. /\ step[k] = "newline" /\ step' = [step EXCEPT ![k] = "over"] /\ ended' = TRUE
        /\ UNCHANGED <<job, lines, held, faults>>
    BY <1>7 DEF AppendNewline, Return
  <2>2. \A h \in Calls : Decided(h)'
    BY <1>1, <2>1, StillDecided
  <2>3. QED
    BY <1>1, <2>1, <2>2 DEF Unique, Whole
<1>8. ASSUME NEW k \in Calls, Truncate(k)
      PROVE  Goal
  <2>1. /\ step[k] = "truncate" /\ step' = [step EXCEPT ![k] = "rewrite"] /\ ended' = TRUE
        /\ lines' = <<>> /\ UNCHANGED <<job, held, faults>>
    BY <1>8 DEF Truncate, Goto
  <2>2. Unique(held[k])
    <3>1. Records(lines) \in Seq(Record) /\ Unique(Records(lines))
      BY <1>1, RecordsFacts DEF Gathers
    <3>2. held[k] \in {Merged(Records(lines), job[k]), Accepted(Records(lines), job[k])}
      BY <1>1, <2>1 DEF Decided
    <3>3. Unique(Merged(Records(lines), job[k]))
      BY <3>1, MergedFacts
    <3>4. Unique(Accepted(Records(lines), job[k]))
      BY <3>1, AcceptedFacts
    <3>5. QED
      BY <3>2, <3>3, <3>4
  <2>3. \A h \in Calls : Decided(h)'
    <3>1. \A h \in Calls : h # k => Decided(h)'
      BY <1>1, <2>1, UndecidedOthers DEF Inside
    <3>2. step'[k] = "rewrite" /\ lines' = <<>> /\ Unique(held[k])'
      BY <1>1, <2>1, <2>2 DEF Unique
    <3>3. Decided(k)'
      BY <3>2 DEF Decided
    <3>4. QED
      BY <3>1, <3>3
  <2>4. Unique(lines)' /\ Whole'
    BY <2>1 DEF Unique, Whole
  <2>5. QED
    BY <2>3, <2>4
<1>9. ASSUME NEW k \in Calls, Rewrite(k)
      PROVE  Goal
  <2>1. /\ step[k] = "rewrite" /\ step' = [step EXCEPT ![k] = "over"] /\ ended' = TRUE
        /\ lines' = held[k] /\ UNCHANGED <<job, held, faults>>
    BY <1>9 DEF Rewrite, Return
  <2>2. \A h \in Calls : Decided(h)'
    BY <1>1, <2>1, UndecidedOthers DEF Inside, Decided
  <2>3. Unique(lines')
    BY <1>1, <2>1 DEF Decided
  <2>4. \A i \in DOMAIN lines' : IsRecord(lines'[i])
    BY <1>1, <2>1, RecordsAreRecords
  <2>5. QED
    BY <2>1, <2>2, <2>3, <2>4 DEF Unique, Whole
<1>10. ASSUME NEW k \in Calls, AppendCut(k)
       PROVE  Goal
  <2>1. /\ step[k] = "append" /\ step' = [step EXCEPT ![k] = "over"] /\ faults' # 0
        /\ UNCHANGED <<job, held>>
    BY <1>1, <1>10 DEF AppendCut, Return, Fault
  <2>2. PICK cut \in Broken \cup {New(job[k])} : lines' = Extend(cut)
    BY <1>10 DEF AppendCut
  <2>3. cut \in Line
    BY <1>1, <2>1, NewType DEF AppendsBlocks, Line
  <2>4. Unique(lines')
    BY <1>1, <2>1, <2>2, <2>3, ExtendUnique DEF Decided
  <2>5. \A h \in Calls : Decided(h)'
    BY <1>1, <2>1, UndecidedOthers DEF Inside, Decided
  <2>6. QED
    BY <2>1, <2>4, <2>5 DEF Unique, Whole
<1>11. ASSUME NEW k \in Calls, RewriteCut(k)
       PROVE  Goal
  <2>1. /\ step[k] = "rewrite" /\ step' = [step EXCEPT ![k] = "over"] /\ faults' # 0
        /\ UNCHANGED <<job, held>>
    BY <1>1, <1>11 DEF RewriteCut, Return, Fault
  <2>2. \A h \in Calls : Decided(h)'
    BY <1>1, <2>1, UndecidedOthers DEF Inside, Decided
  <2>3. Unique(lines')
    <3>1. /\ lines' \in Seq(Line) /\ Len(lines') <= Len(held[k])
          /\ \A i \in DOMAIN lines' :
                lines'[i] = held[k][i] \/ (i = Len(lines') /\ lines'[i] \in Broken)
      BY <1>1, <1>11, CutFacts
    <3>2. /\ \A i \in DOMAIN lines' : i \in DOMAIN held[k]
          /\ \A i \in DOMAIN lines' : IsRecord(lines'[i]) => lines'[i] = held[k][i]
      BY <1>1, <3>1 DEF IsRecord
    <3>3. QED
      BY <1>1, <2>1, <3>2 DEF Unique, Decided
  <2>4. QED
    BY <2>1, <2>2, <2>3 DEF Unique, Whole
<1>12. ASSUME NEW k \in Calls, Crash(k)
       PROVE  Goal
  <2>1. /\ step' = [step EXCEPT ![k] = "over"] /\ faults' # 0
        /\ UNCHANGED <<job, lines, ended, held>>
    BY <1>1, <1>12 DEF Crash, Return, Fault
  <2>2. \A h \in Calls : Decided(h)'
    BY <1>1, <2>1, StillDecided
  <2>3. QED
    BY <1>1, <2>1, <2>2 DEF Unique, Whole
<1>13. ASSUME UNCHANGED vars
       PROVE  Goal
  <2>1. UNCHANGED <<job, lines, ended, step, held, faults>>
    BY <1>13 DEF vars
  <2>2. \A h \in Calls : Decided(h)'
    BY <1>1, <2>1 DEF Decided, Unique
  <2>3. QED
    BY <1>1, <2>1, <2>2 DEF Unique, Whole
<1>14. Goal
  BY <1>3, <1>4, <1>5, <1>6, <1>7, <1>8, <1>9, <1>10, <1>11, <1>12, <1>13
     DEF Next, ProcessStep, AllOver
<1>15. QED
  BY <1>2, <1>14 DEF StoreInv

\* Dedup on the pair holds however hook processes overlap and wherever they are
\* cut off: no blocked command ever has two records in the file.
THEOREM RecordsNeverDouble == Spec => []OneRecordPerSuggestion
<1>1. StoreInv => OneRecordPerSuggestion
  BY DEF StoreInv, Unique, OneRecordPerSuggestion
<1>2. QED
  BY StoreInit, StoreNext, <1>1, PTL DEF Spec

-----------------------------------------------------------------------------
(* The counts. *)

\* The count of a command is that of its record, and 0 without one.
LEMMA CountFacts ==
    ASSUME NEW ls \in Seq(Line), Unique(ls), NEW o
    PROVE  /\ \A i \in DOMAIN ls : IsRecord(ls[i]) /\ ls[i].original = o =>
                 CountIn(ls, o) = ls[i].count
           /\ (\A i \in DOMAIN ls : IsRecord(ls[i]) => ls[i].original # o) =>
                 CountIn(ls, o) = 0
           /\ CountIn(ls, o) \in Nat
<1> DEFINE is == {i \in DOMAIN ls : IsRecord(ls[i]) /\ ls[i].original = o}
           at == CHOOSE i \in is : TRUE
<1>1. CountIn(ls, o) = IF is = {} THEN 0 ELSE ls[at].count
  BY DEF CountIn
<1>2. is # {} => at \in is
  OBVIOUS
<1>3. \A i \in is : i = at
  BY <1>2 DEF Unique
<1>4. \A i \in is : ls[i].count \in Nat
  <2>1. \A i \in is : ls[i] \in Record
    BY LineKinds
  <2>2. QED
    BY <2>1 DEF Record
<1> HIDE DEF at
<1>5. QED
  BY <1>1, <1>2, <1>3, <1>4

\* Whose records are among those of another list counts no more.
LEMMA CountLess ==
    ASSUME NEW ls \in Seq(Line), Unique(ls), NEW ms \in Seq(Line), Unique(ms), NEW o,
           \A i \in DOMAIN ms : IsRecord(ms[i]) => \E j \in DOMAIN ls : ls[j] = ms[i]
    PROVE  CountIn(ms, o) <= CountIn(ls, o)
<1>1. CountIn(ms, o) \in Nat /\ CountIn(ls, o) \in Nat
  BY CountFacts
<1>2. CASE \A i \in DOMAIN ms : IsRecord(ms[i]) => ms[i].original # o
  <2>1. CountIn(ms, o) = 0
    BY <1>2, CountFacts
  <2>2. QED
    BY <1>1, <2>1
<1>3. CASE \E i \in DOMAIN ms : IsRecord(ms[i]) /\ ms[i].original = o
  <2>1. PICK i \in DOMAIN ms : IsRecord(ms[i]) /\ ms[i].original = o
    BY <1>3
  <2>2. PICK j \in DOMAIN ls : ls[j] = ms[i]
    BY <2>1
  <2>3. CountIn(ms, o) = ms[i].count
    BY <2>1, CountFacts
  <2>4. CountIn(ls, o) = ls[j].count
    BY <2>1, <2>2, CountFacts
  <2>5. QED
    BY <1>1, <2>2, <2>3, <2>4
<1>4. QED
  BY <1>2, <1>3

\* load_records keeps the counts.
LEMMA CountRecords ==
    ASSUME NEW ls \in Seq(Line), Unique(ls), NEW o
    PROVE  CountIn(Records(ls), o) = CountIn(ls, o)
<1> DEFINE rs == Records(ls)
<1>1. Gathers(ls, Len(ls), rs)
  BY RecordsFacts
<1> HIDE DEF rs
<1>2. rs \in Seq(Line) /\ Unique(rs)
  BY <1>1, RecordsAreRecords DEF Gathers
<1>3. CountIn(rs, o) <= CountIn(ls, o)
  <2>1. \A i \in DOMAIN rs : IsRecord(rs[i]) => \E j \in DOMAIN ls : ls[j] = rs[i]
    BY <1>1 DEF Gathers
  <2>2. QED
    BY <1>2, <2>1, CountLess
<1>4. CountIn(ls, o) <= CountIn(rs, o)
  <2>1. \A j \in DOMAIN ls : IsRecord(ls[j]) => \E i \in DOMAIN rs : rs[i] = ls[j]
    BY <1>1 DEF Gathers
  <2>2. QED
    BY <1>2, <2>1, CountLess
<1>5. CountIn(rs, o) \in Nat /\ CountIn(ls, o) \in Nat
  BY <1>2, CountFacts
<1>6. QED
  BY <1>3, <1>4, <1>5 DEF rs

\* merge_duplicate adds one to the count of the blocked command.
LEMMA CountMerged ==
    ASSUME NEW rs \in Seq(Record), Unique(rs), NEW j, IsDuplicate(rs, j), NEW o
    PROVE  CountIn(Merged(rs, j), o) =
               IF j.original = o THEN CountIn(rs, o) + 1 ELSE CountIn(rs, o)
<1> DEFINE ms == Merged(rs, j)
<1>1. ms \in Seq(Record) /\ DOMAIN ms = DOMAIN rs /\ Unique(ms)
  BY MergedFacts
<1> HIDE DEF ms
<1>2. \A i \in DOMAIN rs : IsRecord(rs[i]) /\ IsRecord(ms[i])
  BY <1>1, RecordsAreRecords
<1>3. rs \in Seq(Line) /\ ms \in Seq(Line)
  BY <1>1, RecordsAreRecords
<1>4. \A i \in DOMAIN rs :
         /\ ms[i].original = rs[i].original
         /\ ms[i].count = IF rs[i].original = j.original THEN rs[i].count + 1
                          ELSE rs[i].count
  <2>1. \A i \in DOMAIN rs : rs[i] \in Record
    OBVIOUS
  <2>2. QED
    BY <2>1 DEF ms, Merged, Record
<1>5. CASE \E i \in DOMAIN rs : rs[i].original = o
  <2>1. PICK i \in DOMAIN rs : rs[i].original = o
    BY <1>5
  <2>2. CountIn(rs, o) = rs[i].count
    BY <1>2, <1>3, <2>1, CountFacts
  <2>3. CountIn(ms, o) = ms[i].count
    <3>1. i \in DOMAIN ms /\ IsRecord(ms[i]) /\ ms[i].original = o
      BY <1>1, <1>2, <1>4, <2>1
    <3>2. QED
      BY <1>1, <1>3, <3>1, CountFacts
  <2>4. QED
    BY <1>4, <2>1, <2>2, <2>3 DEF ms
<1>6. CASE \A i \in DOMAIN rs : rs[i].original # o
  <2>1. CountIn(rs, o) = 0
    BY <1>3, <1>6, CountFacts
  <2>2. CountIn(ms, o) = 0
    BY <1>1, <1>3, <1>4, <1>6, CountFacts
  <2>3. j.original # o
    BY <1>6 DEF IsDuplicate
  <2>4. QED
    BY <2>1, <2>2, <2>3 DEF ms
<1>7. QED
  BY <1>5, <1>6

\* apply_accepted keeps the counts.
LEMMA CountAccepted ==
    ASSUME NEW rs \in Seq(Record), Unique(rs), NEW j, NEW o
    PROVE  CountIn(Accepted(rs, j), o) = CountIn(rs, o)
<1> DEFINE as == Accepted(rs, j)
<1>1. as \in Seq(Record) /\ DOMAIN as = DOMAIN rs /\ Unique(as)
  BY AcceptedFacts
<1> HIDE DEF as
<1>2. \A i \in DOMAIN rs : IsRecord(rs[i]) /\ IsRecord(as[i])
  BY <1>1, RecordsAreRecords
<1>3. rs \in Seq(Line) /\ as \in Seq(Line)
  BY <1>1, RecordsAreRecords
<1>4. \A i \in DOMAIN rs : as[i].original = rs[i].original /\ as[i].count = rs[i].count
  <2>1. \A i \in DOMAIN rs : rs[i] \in Record
    OBVIOUS
  <2>2. QED
    BY <2>1 DEF as, Accepted, Record
<1>5. CASE \E i \in DOMAIN rs : rs[i].original = o
  <2>1. PICK i \in DOMAIN rs : rs[i].original = o
    BY <1>5
  <2>2. CountIn(rs, o) = rs[i].count
    BY <1>2, <1>3, <2>1, CountFacts
  <2>3. i \in DOMAIN as /\ IsRecord(as[i]) /\ as[i].original = o
    BY <1>1, <1>2, <1>4, <2>1
  <2>4. CountIn(as, o) = as[i].count
    BY <1>1, <1>3, <2>3, CountFacts
  <2>5. QED
    BY <1>4, <2>1, <2>2, <2>4 DEF as
<1>6. CASE \A i \in DOMAIN rs : rs[i].original # o
  <2>1. CountIn(rs, o) = 0
    BY <1>3, <1>6, CountFacts
  <2>2. \A i \in DOMAIN as : as[i].original # o
    BY <1>1, <1>4, <1>6
  <2>3. CountIn(as, o) = 0
    BY <1>1, <1>3, <2>2, CountFacts
  <2>4. QED
    BY <2>1, <2>3 DEF as
<1>7. QED
  BY <1>5, <1>6

\* The record of a fresh block is the first of its command, and counts one.
LEMMA CountExtend ==
    ASSUME lines \in Seq(Line), lines = <<>> => ended, Unique(lines),
           NEW line \in Line, NEW j, New(j) \in Record,
           line \in Broken \cup {New(j)}, ~IsDuplicate(Records(lines), j), NEW o
    PROVE  /\ CountIn(Extend(line), o) <=
                  IF j.original = o THEN CountIn(lines, o) + 1 ELSE CountIn(lines, o)
           /\ ended /\ line = New(j) => CountIn(Extend(line), o) =
                  IF j.original = o THEN CountIn(lines, o) + 1 ELSE CountIn(lines, o)
<1>1. /\ Extend(line) \in Seq(Line) /\ Len(lines) \in Nat /\ DOMAIN lines = 1..Len(lines)
      /\ ended => Extend(line) = Append(lines, line)
      /\ ~ended =>
            /\ Len(Extend(line)) = Len(lines)
            /\ Extend(line)[Len(lines)] \in Broken
            /\ \A i \in 1..(Len(lines) - 1) : Extend(line)[i] = lines[i]
  BY ExtendFacts
<1>0. Len(lines) \in Nat /\ DOMAIN lines = 1..Len(lines)
  OBVIOUS
<1>2. Unique(Extend(line))
  BY ExtendUnique
<1>3. CountIn(Extend(line), o) \in Nat /\ CountIn(lines, o) \in Nat
  BY <1>1, <1>2, CountFacts
<1>4. CASE ended /\ line = New(j)
  <2>1. /\ DOMAIN Extend(line) = 1..(Len(lines) + 1)
        /\ \A i \in DOMAIN lines : Extend(line)[i] = lines[i]
        /\ Extend(line)[Len(lines) + 1] = New(j)
    BY <1>1, <1>4
  <2>2. /\ \A i \in DOMAIN lines : IsRecord(lines[i]) => lines[i].original # j.original
        /\ IsRecord(New(j)) /\ New(j).original = j.original /\ New(j).count = 1
    BY <1>4, FreshBlock, LineKinds DEF New
  <2>3. CASE j.original = o
    <3>1. CountIn(lines, o) = 0
      BY <2>2, <2>3, CountFacts
    <3> DEFINE n == Len(lines) + 1
    <3>3. n \in 1..n
      BY <1>0
    <3>4. n \in DOMAIN Extend(line) /\ Extend(line)[n] = New(j)
      BY <2>1, <3>3
    <3> HIDE DEF n
    <3>5. CountIn(Extend(line), o) = New(j).count
      BY <1>1, <1>2, <2>2, <2>3, <3>4, CountFacts
    <3>6. CountIn(Extend(line), o) = 1
      BY <2>2, <3>5
    <3>7. QED
      BY <2>3, <3>1, <3>6
  <2>4. CASE j.original # o
    <3>1. CASE \E i \in DOMAIN lines : IsRecord(lines[i]) /\ lines[i].original = o
      <4>1. PICK i \in DOMAIN lines : IsRecord(lines[i]) /\ lines[i].original = o
        BY <3>1
      <4>2. CountIn(lines, o) = lines[i].count
        BY <4>1, CountFacts
      <4>3. i \in DOMAIN Extend(line)
        <5>1. i \in 1..(Len(lines) + 1)
          BY <1>0
        <5>2. QED
          BY <2>1, <5>1
      <4>4. CountIn(Extend(line), o) = lines[i].count
        BY <1>1, <1>2, <2>1, <4>1, <4>3, CountFacts
      <4>5. QED
        BY <1>3, <2>4, <4>2, <4>4
    <3>2. CASE \A i \in DOMAIN lines : IsRecord(lines[i]) => lines[i].original # o
      <4>1. CountIn(lines, o) = 0
        BY <3>2, CountFacts
      <4>2. \A i \in DOMAIN Extend(line) : i \in DOMAIN lines \/ i = Len(lines) + 1
        <5>1. \A i \in 1..(Len(lines) + 1) : i \in DOMAIN lines \/ i = Len(lines) + 1
          BY <1>0
        <5>2. QED
          BY <2>1, <5>1
      <4>3. \A i \in DOMAIN Extend(line) :
               IsRecord(Extend(line)[i]) => Extend(line)[i].original # o
        BY <2>1, <2>2, <2>4, <3>2, <4>2
      <4>4. CountIn(Extend(line), o) = 0
        BY <1>1, <1>2, <4>3, CountFacts
      <4>5. QED
        BY <2>4, <4>1, <4>4
    <3>3. QED
      BY <3>1, <3>2
  <2>5. QED
    BY <2>3, <2>4
<1>5. CASE ~(ended /\ line = New(j))
  <2>1. ASSUME NEW i \in DOMAIN Extend(line), IsRecord(Extend(line)[i])
        PROVE  \E h \in DOMAIN lines : lines[h] = Extend(line)[i]
    <3>1. CASE ended
      <4>1. i \in DOMAIN lines \/ i = Len(lines) + 1
        BY <1>1, <3>1
      <4>2. line \in Broken
        BY <1>5, <3>1
      <4>3. QED
        BY <1>1, <2>1, <3>1, <4>1, <4>2 DEF IsRecord
    <3>2. CASE ~ended
      <4>1. i \in 1..(Len(lines) - 1) \/ i = Len(lines)
        BY <1>1, <3>2
      <4>2. QED
        BY <1>1, <2>1, <3>2, <4>1 DEF IsRecord
    <3>3. QED
      BY <3>1, <3>2
  <2>2. CountIn(Extend(line), o) <= CountIn(lines, o)
    BY <1>1, <1>2, <2>1, CountLess
  <2>3. QED
    BY <1>3, <1>5, <2>2
<1>6. QED
  BY <1>4, <1>5

-----------------------------------------------------------------------------
(* Blocks are counted. *)

\* The blocks of a command that reached the file, or were cut off.
Done(o) == {k \in Blocks(o) : step[k] \in {"newline", "over"}}

\* k itself, when it is a block of the command.
Own(k, o) == {k} \cap Blocks(o)

\* The records count at most the blocks of S, and exactly those without faults.
Booked(ls, o, S, whole) ==
    /\ CountIn(ls, o) <= Cardinality(S)
    /\ whole => CountIn(ls, o) = Cardinality(S)

\* The file counts what is done; while it is rewritten the records that are
\* about to be written do, with the block that rewrites it.
Counted ==
    \A o \in Originals :
        /\ (\A k \in Calls : step[k] # "rewrite") => Booked(lines, o, Done(o), faults = 0)
        /\ \A k \in Calls : step[k] = "rewrite" =>
               Booked(held[k], o, Done(o) \cup Own(k, o), faults = 0)

\* Sets of calls have a size, and one more call adds one to it.
LEMMA CallSets ==
    ASSUME NEW S \in SUBSET Calls
    PROVE  /\ IsFiniteSet(S) /\ Cardinality(S) \in Nat
           /\ \A T \in SUBSET S : Cardinality(T) <= Cardinality(S)
           /\ \A k \in Calls : k \notin S => Cardinality(S \cup {k}) = Cardinality(S) + 1
<1>1. IsFiniteSet(S)
  BY CaptureAssumption, FS_Subset
<1>2. Cardinality(S) \in Nat
  BY <1>1, FS_CardinalityType
<1>3. \A T \in SUBSET S : Cardinality(T) <= Cardinality(S)
  BY <1>1, FS_Subset
<1>4. \A k \in Calls : k \notin S => Cardinality(S \cup {k}) = Cardinality(S) + 1
  BY <1>1, FS_AddElement
<1>5. QED
  BY <1>1, <1>2, <1>3, <1>4

\* A step of k adds k to what is done, when k is a block that ends by it.
LEMMA DoneMoved ==
    ASSUME TypeOK, NEW k \in Calls, NEW s, step' = [step EXCEPT ![k] = s], job' = job,
           step[k] = "newline" => s = "over", step[k] # "over", NEW o
    PROVE  /\ Done(o)' = IF s \in {"newline", "over"} THEN Done(o) \cup Own(k, o) ELSE Done(o)
           /\ Blocks(o)' = Blocks(o)
           /\ \A h \in Calls : Own(h, o)' = Own(h, o)
<1>1. Blocks(o)' = Blocks(o)
  BY DEF Blocks
<1>2. \A h \in Calls : step'[h] = IF h = k THEN s ELSE step[h]
  BY DEF TypeOK
<1>3. Blocks(o) \subseteq Calls
  BY DEF Blocks
<1>4. \A h \in Blocks(o) : h \in Done(o)' <=>
         IF h = k THEN s \in {"newline", "over"} ELSE h \in Done(o)
  BY <1>1, <1>2, <1>3 DEF Done
<1>5. Done(o)' \subseteq Blocks(o) /\ Done(o) \subseteq Blocks(o)
  BY <1>1 DEF Done
<1>6. k \in Done(o) => s \in {"newline", "over"}
  BY DEF Done
<1>7. Done(o)' = IF s \in {"newline", "over"} THEN Done(o) \cup Own(k, o) ELSE Done(o)
  BY <1>4, <1>5, <1>6 DEF Own
<1>8. QED
  BY <1>1, <1>7 DEF Own

\* The sets that are counted are sets of calls.
LEMMA DoneCalls ==
    ASSUME NEW o, NEW k \in Calls
    PROVE  Done(o) \in SUBSET Calls /\ Own(k, o) \in SUBSET Calls
BY DEF Done, Own, Blocks

\* What is booked on a set is booked, without the equality, on a larger one.
LEMMA BookedMore ==
    ASSUME NEW ls, NEW o, CountIn(ls, o) \in Nat, NEW T \in SUBSET Calls,
           NEW S \in SUBSET T, NEW whole, Booked(ls, o, S, whole)
    PROVE  Booked(ls, o, T, FALSE)
<1>1. Cardinality(S) \in Nat /\ Cardinality(T) \in Nat /\ Cardinality(S) <= Cardinality(T)
  BY CallSets
<1>2. CountIn(ls, o) <= Cardinality(S)
  BY DEF Booked
<1>3. QED
  BY <1>1, <1>2 DEF Booked

\* The files and lists of a reachable state have counts.
LEMMA CountsAreNumbers ==
    ASSUME StoreInv, NEW o
    PROVE  /\ CountIn(lines, o) \in Nat
           /\ \A k \in Calls : step[k] = "rewrite" => CountIn(held[k], o) \in Nat
           /\ lines = <<>> => CountIn(lines, o) = 0
<1>1. lines \in Seq(Line) /\ Unique(lines)
  BY DEF StoreInv, Typed, TypeOK, Line
<1>2. CountIn(lines, o) \in Nat
  BY <1>1, CountFacts
<1>3. lines = <<>> => CountIn(lines, o) = 0
  BY DEF CountIn
<1>4. ASSUME NEW k \in Calls, step[k] = "rewrite"
      PROVE  CountIn(held[k], o) \in Nat
  <2>1. held[k] \in Seq(Record) /\ Unique(held[k])
    BY <1>4 DEF StoreInv, Typed, TypeOK, Decided
  <2>2. held[k] \in Seq(Line)
    BY <2>1, RecordsAreRecords
  <2>3. QED
    BY <2>1, <2>2, CountFacts
<1>5. QED
  BY <1>2, <1>3, <1>4

\* A step that ends no block and writes nothing.
LEMMA CountedStays ==
    ASSUME TypeOK, Counted, NEW k \in Calls, NEW s, step' = [step EXCEPT ![k] = s],
           step[k] \notin {"newline", "rewrite", "over"},
           s \notin {"newline", "rewrite", "over"},
           UNCHANGED <<lines, job, faults>>,
           \A h \in Calls : h # k => held'[h] = held[h]
    PROVE  Counted'
<1> SUFFICES ASSUME NEW o \in Originals
             PROVE  /\ (\A h \in Calls : step'[h] # "rewrite") =>
                           Booked(lines', o, Done(o)', faults' = 0)
                    /\ \A h \in Calls : step'[h] = "rewrite" =>
                           Booked(held'[h], o, Done(o)' \cup Own(h, o)', faults' = 0)
  BY DEF Counted
<1>1. Done(o)' = Done(o) /\ \A h \in Calls : Own(h, o)' = Own(h, o)
  BY DoneMoved
<1>2. \A h \in Calls : step'[h] = "rewrite" <=> h # k /\ step[h] = "rewrite"
  BY DEF TypeOK
<1>3. CASE \A h \in Calls : step'[h] # "rewrite"
  <2>1. \A h \in Calls : step[h] # "rewrite"
    BY <1>2, <1>3
  <2>2. Booked(lines, o, Done(o), faults = 0)
    BY <2>1 DEF Counted
  <2>3. QED
    BY <1>1, <1>3, <2>2
<1>4. ASSUME NEW h \in Calls, step'[h] = "rewrite"
      PROVE  Booked(held'[h], o, Done(o)' \cup Own(h, o)', faults' = 0)
  <2>1. h # k /\ step[h] = "rewrite"
    BY <1>2, <1>4
  <2>2. Booked(held[h], o, Done(o) \cup Own(h, o), faults = 0)
    BY <2>1 DEF Counted
  <2>3. held'[h] = held[h] /\ Done(o)' \cup Own(h, o)' = Done(o) \cup Own(h, o)
    BY <1>1, <2>1
  <2>4. QED
    BY <2>2, <2>3
<1>5. QED
  BY <1>3, <1>4

\* A process that is over without having written: it was cut off, could not
\* load, or had nothing to accept.
LEMMA CountedOver ==
    ASSUME StoreInv, Counted, NEW k \in Calls, step' = [step EXCEPT ![k] = "over"],
           step[k] \notin {"newline", "over"}, UNCHANGED <<lines, job, held>>,
           \/ faults' # 0
           \/ faults' = faults /\ step[k] = "load" /\ job[k].kind = "accept"
    PROVE  Counted'
<1> SUFFICES ASSUME NEW o \in Originals
             PROVE  /\ (\A h \in Calls : step'[h] # "rewrite") =>
                           Booked(lines', o, Done(o)', faults' = 0)
                    /\ \A h \in Calls : step'[h] = "rewrite" =>
                           Booked(held'[h], o, Done(o)' \cup Own(h, o)', faults' = 0)
  BY DEF Counted
<1>0. TypeOK /\ \A h \in Calls : step[h] = "rewrite" => lines = <<>>
  BY DEF StoreInv, Typed, Decided
<1>1. /\ Done(o)' = Done(o) \cup Own(k, o)
      /\ \A h \in Calls : Own(h, o)' = Own(h, o)
  BY <1>0, DoneMoved
<1>2. \A h \in Calls : step'[h] = "rewrite" <=> h # k /\ step[h] = "rewrite"
  BY <1>0 DEF TypeOK
<1>3. /\ CountIn(lines, o) \in Nat
      /\ \A h \in Calls : step[h] = "rewrite" => CountIn(held[h], o) \in Nat
      /\ lines = <<>> => CountIn(lines, o) = 0
  BY CountsAreNumbers
<1>4. Done(o) \in SUBSET Calls /\ \A h \in Calls : Own(h, o) \in SUBSET Calls
  BY DoneCalls
<1>5. faults' = 0 => Own(k, o) = {} /\ step[k] = "load" /\ faults = 0
  BY DEF Own, Blocks
<1>6. CASE \A h \in Calls : step'[h] # "rewrite"
  <2>1. CASE step[k] # "rewrite"
    <3>1. Booked(lines, o, Done(o), faults = 0)
      BY <1>2, <1>6, <2>1 DEF Counted
    <3>2. CASE faults' = 0
      <4>1. Done(o)' = Done(o)
        BY <1>1, <1>5, <3>2
      <4>2. QED
        BY <1>5, <1>6, <3>1, <3>2, <4>1 DEF Booked
    <3>3. CASE faults' # 0
      <4>1. Booked(lines, o, Done(o) \cup Own(k, o), FALSE)
        BY <1>3, <1>4, <3>1, BookedMore
      <4>2. QED
        BY <1>1, <1>6, <3>3, <4>1 DEF Booked
    <3>4. QED
      BY <3>2, <3>3
  <2>2. CASE step[k] = "rewrite"
    <3>1. faults' # 0 /\ CountIn(lines, o) = 0
      BY <1>0, <1>3, <1>5, <2>2
    <3>2. Cardinality(Done(o)') \in Nat
      BY <1>1, <1>4, CallSets
    <3>3. QED
      BY <1>6, <3>1, <3>2 DEF Booked
  <2>3. QED
    BY <2>1, <2>2
<1>7. ASSUME NEW h \in Calls, step'[h] = "rewrite"
      PROVE  Booked(held'[h], o, Done(o)' \cup Own(h, o)', faults' = 0)
  <2>1. h # k /\ step[h] = "rewrite"
    BY <1>2, <1>7
  <2>2. Booked(held[h], o, Done(o) \cup Own(h, o), faults = 0)
    BY <2>1 DEF Counted
  <2>3. CASE faults' = 0
    <3>1. Done(o)' = Done(o)
      BY <1>1, <1>5, <2>3
    <3>2. QED
      BY <1>1, <1>5, <2>2, <2>3, <3>1 DEF Booked
  <2>4. CASE faults' # 0
    <3>1. Done(o) \cup Own(h, o) \in SUBSET (Done(o)' \cup Own(h, o)')
      BY <1>1
    <3>2. Done(o)' \cup Own(h, o)' \in SUBSET Calls
      BY <1>1, <1>4
    <3>3. Booked(held[h], o, Done(o)' \cup Own(h, o)', FALSE)
      BY <1>3, <2>1, <2>2, <3>1, <3>2, BookedMore
    <3>4. QED
      BY <2>4, <3>3 DEF Booked
  <2>5. QED
    BY <2>3, <2>4
<1>8. QED
  BY <1>6, <1>7

LEMMA CountedInit == Init => Counted
<1> SUFFICES ASSUME Init, NEW o \in Originals
             PROVE  Booked(lines, o, Done(o), TRUE)
  BY DEF Init, Counted, Booked
<1>1. Done(o) = {} /\ CountIn(lines, o) = 0
  BY DEF Init, Done, Blocks, CountIn
<1>2. QED
  BY <1>1, FS_EmptySet DEF Booked

\* The block that is appended is counted by its record.
LEMMA CountedText ==
    ASSUME StoreInv, Counted, NEW k \in Calls, AppendText(k) \/ AppendCut(k)
    PROVE  Counted'
<1>1. PICK line \in Broken \cup {New(job[k])}, s \in {"newline", "over"} :
         /\ step[k] = "append" /\ step' = [step EXCEPT ![k] = s] /\ lines' = Extend(line)
         /\ UNCHANGED <<job, held>>
         /\ (line = New(job[k]) /\ faults' = faults) \/ faults' # 0
  <2>1. CASE AppendText(k)
    BY <2>1 DEF AppendText, Goto
  <2>2. CASE AppendCut(k)
    <3>1. faults' # 0
      BY <2>2, CaptureAssumption DEF AppendCut, Fault, StoreInv, Typed, TypeOK
    <3>2. QED
      BY <2>2, <3>1 DEF AppendCut, Return
  <2>3. QED
    BY <2>1, <2>2
<1>2. TypeOK /\ AppendsBlocks /\ Whole /\ Decided(k)
  BY DEF StoreInv, Typed
<1>3. /\ lines \in Seq(Line) /\ (lines = <<>> => ended) /\ Unique(lines)
      /\ New(job[k]) \in Record /\ New(job[k]) \in Line /\ line \in Line
      /\ ~IsDuplicate(Records(lines), job[k])
  <2>1. New(job[k]) \in Record /\ New(job[k]) \in Line
    BY <1>1, <1>2, NewType DEF TypeOK, AppendsBlocks
  <2>2. line \in Line
    BY <2>1 DEF Line
  <2>3. ~IsDuplicate(Records(lines), job[k])
    BY <1>1, <1>2 DEF Decided
  <2>4. QED
    BY <1>2, <2>1, <2>2, <2>3 DEF StoreInv, TypeOK, Line
<1>4. \A h \in Calls : step[h] # "rewrite" /\ step'[h] # "rewrite"
  BY <1>1, <1>2, Alone DEF Inside, TypeOK
<1>5. ASSUME faults' = 0
      PROVE  ended /\ line = New(job[k]) /\ faults = 0
  <2>1. faults = 0 /\ line = New(job[k])
    BY <1>1, <1>5
  <2>2. \A h \in Calls : step[h] # "newline"
    BY <1>1, <1>2, Alone DEF Inside
  <2>3. QED
    BY <1>2, <2>1, <2>2 DEF Whole
<1>6. ASSUME NEW o \in Originals
      PROVE  Booked(lines', o, Done(o)', faults' = 0)
  <2> DEFINE one == IF job[k].original = o THEN CountIn(lines, o) + 1 ELSE CountIn(lines, o)
             size == Cardinality(Done(o)')
  <2>1. Done(o)' = Done(o) \cup Own(k, o) /\ Done(o) \in SUBSET Calls
    BY <1>1, <1>2, DoneMoved, DoneCalls
  <2>2. Own(k, o) = IF job[k].original = o THEN {k} ELSE {}
    BY <1>1, <1>2 DEF Own, Blocks, AppendsBlocks
  <2>3. k \notin Done(o)
    BY <1>1 DEF Done
  <2>4. /\ Cardinality(Done(o)) \in Nat
        /\ size = IF job[k].original = o THEN Cardinality(Done(o)) + 1
                  ELSE Cardinality(Done(o))
    BY <2>1, <2>2, <2>3, CallSets
  <2>5. Booked(lines, o, Done(o), faults = 0)
    BY <1>4 DEF Counted
  <2>6. CountIn(lines, o) \in Nat
    BY CountsAreNumbers
  <2>7. CountIn(lines', o) <= one /\ (faults' = 0 => CountIn(lines', o) = one)
    BY <1>1, <1>3, <1>5, CountExtend
  <2>8. one \in Nat /\ one <= size /\ (faults' = 0 => one = size)
    BY <1>5, <2>4, <2>5, <2>6 DEF Booked
  <2>9. CountIn(lines', o) \in Nat
    <3>1. Extend(line) \in Seq(Line) /\ Unique(Extend(line))
      BY <1>3, ExtendFacts, ExtendUnique
    <3>2. QED
      BY <1>1, <3>1, CountFacts
  <2> HIDE DEF one, size
  <2>10. size \in Nat /\ CountIn(lines', o) <= size /\ (faults' = 0 => CountIn(lines', o) = size)
    <3>1. size \in Nat
      BY <2>4 DEF size
    <3>2. QED
      BY <2>7, <2>8, <2>9, <3>1
  <2>11. QED
    BY <2>10 DEF Booked, size
<1>7. QED
  BY <1>4, <1>6 DEF Counted

\* A list that is about to be written counts the file and the block merged.
LEMMA CountedTruncate ==
    ASSUME StoreInv, Counted, NEW k \in Calls, Truncate(k)
    PROVE  Counted'
<1>1. /\ step[k] = "truncate" /\ step' = [step EXCEPT ![k] = "rewrite"]
      /\ UNCHANGED <<job, held, faults>>
  BY DEF Truncate, Goto
<1>2. TypeOK /\ Decided(k) /\ lines \in Seq(Line) /\ Unique(lines)
  BY DEF StoreInv, Typed, TypeOK, Line
<1>3. /\ \A h \in Calls : step[h] # "rewrite"
      /\ \A h \in Calls : step'[h] = "rewrite" <=> h = k
  BY <1>1, <1>2, Alone DEF Inside, TypeOK
<1>4. ASSUME NEW o \in Originals
      PROVE  Booked(held[k], o, Done(o)' \cup Own(k, o)', faults = 0)
  <2> DEFINE rs == Records(lines)
             own == Done(o) \cup Own(k, o)
             block == job[k].kind = "record" /\ job[k].original = o
  <2>1. Done(o)' = Done(o) /\ Own(k, o)' = Own(k, o) /\ Done(o) \in SUBSET Calls
    <3>1. job' = job
      BY <1>1
    <3>2. /\ Done(o)' = IF "rewrite" \in {"newline", "over"} THEN Done(o) \cup Own(k, o)
                        ELSE Done(o)
          /\ \A h \in Calls : Own(h, o)' = Own(h, o)
      BY <1>1, <1>2, <3>1, DoneMoved
    <3>3. QED
      BY <3>2, DoneCalls
  <2>2. Own(k, o) = IF block THEN {k} ELSE {}
    BY DEF Own, Blocks
  <2>3. k \notin Done(o)
    BY <1>1 DEF Done
  <2>4. Cardinality(own) = IF block THEN Cardinality(Done(o)) + 1 ELSE Cardinality(Done(o))
    BY <2>1, <2>2, <2>3, CallSets
  <2>5. Booked(lines, o, Done(o), faults = 0)
    BY <1>3 DEF Counted
  <2>6. rs \in Seq(Record) /\ Unique(rs) /\ CountIn(rs, o) = CountIn(lines, o)
    BY <1>2, RecordsFacts, CountRecords DEF Gathers
  <2>7. CountIn(held[k], o) = IF block THEN CountIn(lines, o) + 1 ELSE CountIn(lines, o)
    <3> HIDE DEF rs
    <3>1. CASE /\ job[k].kind = "record" /\ IsDuplicate(rs, job[k])
               /\ held[k] = Merged(rs, job[k])
      BY <2>6, <3>1, CountMerged
    <3>2. CASE job[k].kind = "accept" /\ held[k] = Accepted(rs, job[k])
      BY <2>6, <3>2, CountAccepted
    <3>3. QED
      BY <1>1, <1>2, <3>1, <3>2 DEF Decided, rs
  <2>8. CountIn(lines, o) \in Nat /\ Cardinality(Done(o)) \in Nat
    BY <2>1, CountsAreNumbers, CallSets
  <2>9. Booked(held[k], o, own, faults = 0)
    <3> HIDE DEF own, block
    <3>1. QED
      BY <2>4, <2>5, <2>7, <2>8 DEF Booked
  <2>10. QED
    BY <2>1, <2>9
<1>5. QED
  BY <1>1, <1>3, <1>4 DEF Counted

\* What is written counts what was about to be written, or less.
LEMMA CountedRewrite ==
    ASSUME StoreInv, StoreInv', Counted, NEW k \in Calls, Rewrite(k) \/ RewriteCut(k)
    PROVE  Counted'
<1>1. /\ step[k] = "rewrite" /\ step' = [step EXCEPT ![k] = "over"] /\ job' = job
      /\ (lines' = held[k] /\ faults' = faults) \/ (RewriteCut(k) /\ faults' # 0)
  <2>1. CASE Rewrite(k)
    BY <2>1 DEF Rewrite, Return
  <2>2. CASE RewriteCut(k)
    <3>1. faults' # 0
      BY <2>2, CaptureAssumption DEF RewriteCut, Fault, StoreInv, Typed, TypeOK
    <3>2. QED
      BY <2>2, <3>1 DEF RewriteCut, Return
  <2>3. QED
    BY <2>1, <2>2
<1>2. /\ TypeOK /\ held[k] \in Seq(Record) /\ held[k] \in Seq(Line) /\ Unique(held[k])
      /\ lines' \in Seq(Line) /\ Unique(lines')
  <2>1. TypeOK /\ Decided(k) /\ TypeOK' /\ Unique(lines)'
    BY DEF StoreInv, Typed
  <2>2. held[k] \in Seq(Record) /\ Unique(held[k]) /\ lines' \in Seq(Line) /\ Unique(lines')
    BY <1>1, <2>1 DEF TypeOK, Decided, Line, Unique
  <2>3. QED
    BY <2>1, <2>2, RecordsAreRecords
<1>3. \A h \in Calls : step'[h] # "rewrite"
  BY <1>1, <1>2, Alone DEF Inside, TypeOK
<1>4. ASSUME NEW o \in Originals
      PROVE  Booked(lines', o, Done(o)', faults' = 0)
  <2>1. Done(o)' = Done(o) \cup Own(k, o) /\ Done(o)' \in SUBSET Calls
    <3>1. Done(o)' = Done(o) \cup Own(k, o)
      BY <1>1, <1>2, DoneMoved
    <3>2. QED
      BY <3>1, DoneCalls
  <2>2. Booked(held[k], o, Done(o)', faults = 0)
    BY <1>1, <2>1 DEF Counted
  <2>3. CASE lines' = held[k] /\ faults' = faults
    BY <2>2, <2>3
  <2>4. CASE RewriteCut(k) /\ faults' # 0
    <3>1. /\ Len(lines') <= Len(held[k])
          /\ \A i \in DOMAIN lines' :
                lines'[i] = held[k][i] \/ (i = Len(lines') /\ lines'[i] \in Broken)
      BY <1>2, <2>4, CutFacts
    <3>2. \A i \in DOMAIN lines' : i \in DOMAIN held[k]
      BY <1>2, <3>1
    <3>3. \A i \in DOMAIN lines' : IsRecord(lines'[i]) =>
             \E j \in DOMAIN held[k] : held[k][j] = lines'[i]
      BY <3>1, <3>2 DEF IsRecord
    <3>4. CountIn(lines', o) <= CountIn(held[k], o)
      BY <1>2, <3>3, CountLess
    <3>5. CountIn(lines', o) \in Nat /\ CountIn(held[k], o) \in Nat
      BY <1>2, CountFacts
    <3>6. Cardinality(Done(o)') \in Nat /\ CountIn(held[k], o) <= Cardinality(Done(o)')
      BY <2>1, <2>2, CallSets DEF Booked
    <3>7. CountIn(lines', o) <= Cardinality(Done(o)')
      BY <3>4, <3>5, <3>6
    <3>8. QED
      BY <2>4, <3>7 DEF Booked
  <2>5. QED
    BY <1>1, <2>3, <2>4
<1>5. QED
  BY <1>3, <1>4 DEF Counted

LEMMA CountedNext == StoreInv /\ Counted /\ [Next]_vars => Counted'
<1> SUFFICES ASSUME StoreInv, Counted, [Next]_vars PROVE Counted'
  OBVIOUS
<1>1. TypeOK /\ Whole /\ StoreInv'
  BY StoreNext DEF StoreInv, Typed
<1>2. ASSUME NEW k \in Calls, OpenFile(k) \/ Lock(k)
      PROVE  Counted'
  <2>1. PICK s \in {"lock", "load"} : step' = [step EXCEPT ![k] = s]
    BY <1>2 DEF OpenFile, Lock, Goto
  <2>2. /\ step[k] \in {"idle", "lock"} /\ UNCHANGED <<lines, job, faults, held>>
    BY <1>2 DEF OpenFile, Lock
  <2>3. QED
    BY <1>1, <2>1, <2>2, CountedStays
<1>3. ASSUME NEW k \in Calls, Load(k)
      PROVE  Counted'
  <2>1. step[k] = "load" /\ UNCHANGED <<job, lines, ended, faults>>
    BY <1>3 DEF Load
  <2>2. CASE /\ Goto(k, "truncate")
             /\ held' \in {[held EXCEPT ![k] = Merged(Records(lines), job[k])],
                           [held EXCEPT ![k] = Accepted(Records(lines), job[k])]}
    <3>1. \A h \in Calls : h # k => held'[h] = held[h]
      BY <1>1, <2>2 DEF TypeOK
    <3>2. QED
      BY <1>1, <2>1, <2>2, <3>1, CountedStays DEF Goto
  <2>3. CASE Goto(k, "append") /\ UNCHANGED held
    BY <1>1, <2>1, <2>3, CountedStays DEF Goto
  <2>4. CASE job[k].kind = "accept" /\ Return(k) /\ UNCHANGED held
    BY <2>1, <2>4, CountedOver DEF Return
  <2>5. CASE ~Loadable /\ Return(k) /\ UNCHANGED held
    <3>1. \E i \in DOMAIN lines : ~IsRecord(lines[i])
      BY <2>5 DEF Loadable, IsRecord, Broken
    <3>2. faults # 0
      BY <1>1, <3>1 DEF Whole
    <3>3. QED
      BY <2>1, <2>5, <3>2, CountedOver DEF Return
  <2>6. QED
    BY <1>3, <2>2, <2>3, <2>4, <2>5 DEF Load
<1>4. ASSUME NEW k \in Calls, AppendText(k) \/ AppendCut(k)
      PROVE  Counted'
  BY <1>4, CountedText
<1>5. ASSUME NEW k \in Calls, AppendNewline(k)
      PROVE  Counted'
  <2>1. /\ step[k] = "newline" /\ step' = [step EXCEPT ![k] = "over"]
        /\ UNCHANGED <<job, lines, held, faults>>
    BY <1>5 DEF AppendNewline, Return
  <2>2. \A h \in Calls : step[h] # "rewrite" /\ step'[h] # "rewrite"
    BY <1>1, <2>1, Alone DEF Inside, TypeOK
  <2>3. ASSUME NEW o \in Originals
        PROVE  Booked(lines', o, Done(o)', faults' = 0)
    <3>1. Done(o)' = Done(o) \cup Own(k, o)
      BY <1>1, <2>1, DoneMoved
    <3>2. Done(o)' = Done(o)
      BY <2>1, <3>1 DEF Own, Done
    <3>3. Booked(lines, o, Done(o), faults = 0)
      BY <2>2 DEF Counted
    <3>4. QED
      BY <2>1, <3>2, <3>3
  <2>4. QED
    BY <2>2, <2>3 DEF Counted
<1>6. ASSUME NEW k \in Calls, Truncate(k)
      PROVE  Counted'
  BY <1>6, CountedTruncate
<1>7. ASSUME NEW k \in Calls, Rewrite(k) \/ RewriteCut(k)
      PROVE  Counted'
  BY <1>1, <1>7, CountedRewrite
<1>8. ASSUME NEW k \in Calls, Crash(k)
      PROVE  Counted'
  <2>1. /\ step[k] # "over" /\ step' = [step EXCEPT ![k] = "over"]
        /\ UNCHANGED <<job, lines, held>>
    BY <1>8 DEF Crash, Return
  <2>2. faults' # 0
    BY <1>1, <1>8, CaptureAssumption DEF Crash, Fault, TypeOK
  <2>3. CASE step[k] # "newline"
    BY <2>1, <2>2, <2>3, CountedOver
  <2>4. CASE step[k] = "newline"
    <3>1. \A h \in Calls : step[h] # "rewrite" /\ step'[h] # "rewrite"
      BY <1>1, <2>1, <2>4, Alone DEF Inside, TypeOK
    <3>2. ASSUME NEW o \in Originals
          PROVE  Booked(lines', o, Done(o)', faults' = 0)
      <4>1. Done(o)' = Done(o) \cup Own(k, o)
        BY <1>1, <2>1, DoneMoved
      <4>2. Done(o)' = Done(o)
        BY <2>4, <4>1 DEF Own, Done
      <4>3. Booked(lines, o, Done(o), faults = 0)
        BY <3>1 DEF Counted
      <4>4. QED
        BY <2>1, <2>2, <4>2, <4>3 DEF Booked
    <3>3. QED
      BY <3>1, <3>2 DEF Counted
  <2>5. QED
    BY <2>3, <2>4
<1>9. ASSUME UNCHANGED vars
      PROVE  Counted'
  <2>1. UNCHANGED <<job, lines, step, held, faults>>
    BY <1>9 DEF vars
  <2>2. QED
    BY <2>1 DEF Counted, Done, Own, Blocks
<1>10. QED
  BY <1>2, <1>3, <1>4, <1>5, <1>6, <1>7, <1>8, <1>9 DEF Next, ProcessStep, AllOver

\* "Number of times this (original, suggestion) pair has been seen": never more
\* than the blocks there were, and, while no process was cut off, exactly those
\* whose process is over whenever nobody holds the lock.
THEOREM BlocksCounted == Spec => []CountsBlocks
<1>1. StoreInv /\ Counted => CountsBlocks
  <2> SUFFICES ASSUME StoreInv, Counted, NEW o \in Originals
               PROVE  /\ CountOf(o) <= Cardinality(Blocks(o))
                      /\ faults = 0 /\ lock = Nobody => CountOf(o) = Cardinality(BlocksOver(o))
    BY DEF CountsBlocks
  <2>1. TypeOK /\ \A k \in Calls : step[k] = "rewrite" => lines = <<>>
    BY DEF StoreInv, Typed, Decided
  <2>2. /\ Blocks(o) \in SUBSET Calls /\ Done(o) \in SUBSET Calls
        /\ Done(o) \in SUBSET Blocks(o)
    BY DEF Blocks, Done
  <2>3. /\ Cardinality(Done(o)) \in Nat /\ Cardinality(Blocks(o)) \in Nat
        /\ Cardinality(Done(o)) <= Cardinality(Blocks(o))
    BY <2>2, CallSets
  <2>4. CountIn(lines, o) \in Nat /\ (lines = <<>> => CountIn(lines, o) = 0)
    BY CountsAreNumbers
  <2>5. CASE \A k \in Calls : step[k] # "rewrite"
    <3>1. Booked(lines, o, Done(o), faults = 0)
      BY <2>5 DEF Counted
    <3>2. CountIn(lines, o) <= Cardinality(Blocks(o))
      BY <2>3, <2>4, <3>1 DEF Booked
    <3>3. lock = Nobody => Done(o) = BlocksOver(o)
      <4>1. ASSUME lock = Nobody, NEW k \in Calls
            PROVE  step[k] # "newline"
        BY <2>1, <4>1, CaptureAssumption DEF TypeOK, Holds
      <4>2. QED
        BY <4>1 DEF Done, BlocksOver, Blocks
    <3>4. QED
      BY <3>1, <3>2, <3>3 DEF CountOf, Booked
  <2>6. CASE \E k \in Calls : step[k] = "rewrite"
    <3>1. CountIn(lines, o) = 0 /\ lock # Nobody
      BY <2>1, <2>4, <2>6, CaptureAssumption DEF TypeOK, Holds
    <3>2. QED
      BY <2>3, <3>1 DEF CountOf
  <2>7. QED
    BY <2>5, <2>6
<1>2. QED
  BY StoreInit, StoreNext, CountedInit, CountedNext, <1>1, PTL DEF Spec

-----------------------------------------------------------------------------
(* The dataset: entries. *)

None == [session |-> NoSession, accepted |-> FALSE, count |-> 0]

EntryOf(r) == [session |-> r.session, accepted |-> r.accepted, count |-> r.count]

\* Every record counts a block.
Positive(ls) == \A i \in DOMAIN ls : IsRecord(ls[i]) => ls[i].count # 0

\* The entry of a command is its record, or none.
LEMMA EntryFacts ==
    ASSUME NEW rs \in Seq(Record), Unique(rs), NEW o
    PROVE  /\ \A i \in DOMAIN rs : rs[i].original = o => EntryIn(rs, o) = EntryOf(rs[i])
           /\ (\A i \in DOMAIN rs : rs[i].original # o) => EntryIn(rs, o) = None
<1> DEFINE is == {i \in DOMAIN rs : rs[i].original = o}
           at == CHOOSE i \in is : TRUE
<1>1. EntryIn(rs, o) = IF is = {} THEN None ELSE EntryOf(rs[at])
  BY DEF EntryIn, None, EntryOf
<1>2. is # {} => at \in is
  OBVIOUS
<1>3. \A i \in DOMAIN rs : IsRecord(rs[i])
  BY RecordsAreRecords
<1>4. \A i \in is : i = at
  BY <1>2, <1>3 DEF Unique
<1> HIDE DEF at
<1>5. QED
  BY <1>1, <1>2, <1>4

\* A record that counts a block is no missing entry.
LEMMA EntriesCount ==
    ASSUME NEW rs \in Seq(Record), Unique(rs), Positive(rs), NEW o
    PROVE  EntryIn(rs, o) = None <=> \A i \in DOMAIN rs : rs[i].original # o
<1>1. \A i \in DOMAIN rs : IsRecord(rs[i]) /\ EntryOf(rs[i]).count # None.count
  BY RecordsAreRecords DEF Positive, EntryOf, None
<1>2. QED
  BY <1>1, EntryFacts

\* A list with fewer records has fewer entries.
LEMMA FewerEntries ==
    ASSUME NEW rs \in Seq(Record), Unique(rs), NEW qs \in Seq(Record), Unique(qs),
           \A i \in DOMAIN qs : \E j \in DOMAIN rs : rs[j] = qs[i], NEW o
    PROVE  EntryIn(qs, o) \in {EntryIn(rs, o), None}
<1>1. CASE \E i \in DOMAIN qs : qs[i].original = o
  <2>1. PICK i \in DOMAIN qs : qs[i].original = o
    BY <1>1
  <2>2. PICK j \in DOMAIN rs : rs[j] = qs[i]
    OBVIOUS
  <2>3. EntryIn(qs, o) = EntryOf(qs[i]) /\ EntryIn(rs, o) = EntryOf(rs[j])
    BY <2>1, <2>2, EntryFacts
  <2>4. QED
    BY <2>2, <2>3
<1>2. CASE \A i \in DOMAIN qs : qs[i].original # o
  BY <1>2, EntryFacts
<1>3. QED
  BY <1>1, <1>2

\* Lists with the same records have the same entries.
LEMMA SameEntries ==
    ASSUME NEW rs \in Seq(Record), Unique(rs), NEW qs \in Seq(Record), Unique(qs),
           \A i \in DOMAIN qs : \E j \in DOMAIN rs : rs[j] = qs[i],
           \A j \in DOMAIN rs : \E i \in DOMAIN qs : rs[j] = qs[i], NEW o
    PROVE  EntryIn(qs, o) = EntryIn(rs, o)
<1>1. CASE \E i \in DOMAIN qs : qs[i].original = o
  <2>1. PICK i \in DOMAIN qs : qs[i].original = o
    BY <1>1
  <2>2. PICK j \in DOMAIN rs : rs[j] = qs[i]
    OBVIOUS
  <2>3. EntryIn(qs, o) = EntryOf(qs[i]) /\ EntryIn(rs, o) = EntryOf(rs[j])
    BY <2>1, <2>2, EntryFacts
  <2>4. QED
    BY <2>2, <2>3
<1>2. CASE \A i \in DOMAIN qs : qs[i].original # o
  <2>1. \A j \in DOMAIN rs : rs[j].original # o
    BY <1>2
  <2>2. QED
    BY <1>2, <2>1, EntryFacts
<1>3. QED
  BY <1>1, <1>2

\* A list written as it is is read as it is.
LEMMA EntriesRead ==
    ASSUME NEW rs \in Seq(Record), Unique(rs), NEW o
    PROVE  EntryIn(Records(rs), o) = EntryIn(rs, o)
<1> DEFINE qs == Records(rs)
<1>1. rs \in Seq(Line) /\ \A i \in DOMAIN rs : IsRecord(rs[i])
  BY RecordsAreRecords
<1>2. Gathers(rs, Len(rs), qs)
  BY <1>1, RecordsFacts
<1> HIDE DEF qs
<1>3. /\ qs \in Seq(Record) /\ Unique(qs)
      /\ \A i \in DOMAIN qs : \E j \in DOMAIN rs : rs[j] = qs[i]
      /\ \A j \in DOMAIN rs : \E i \in DOMAIN qs : rs[j] = qs[i]
  <2>1. qs \in Seq(Record) /\ Unique(qs)
    BY <1>2 DEF Gathers
  <2>2. DOMAIN rs = 1..Len(rs)
    OBVIOUS
  <2>3. \A i \in DOMAIN qs : \E j \in DOMAIN rs : rs[j] = qs[i]
    BY <1>2, <2>2 DEF Gathers
  <2>4. \A j \in DOMAIN rs : \E i \in DOMAIN qs : rs[j] = qs[i]
    BY <1>1, <1>2, <2>2 DEF Gathers
  <2>5. QED
    BY <2>1, <2>3, <2>4
<1>4. QED
  BY <1>3, SameEntries DEF qs

\* merge_duplicate adds a block to the entry of its command.
LEMMA EntriesMerged ==
    ASSUME NEW rs \in Seq(Record), Unique(rs), NEW j, IsDuplicate(rs, j), NEW o
    PROVE  EntryIn(Merged(rs, j), o) =
               IF j.original = o THEN [EntryIn(rs, o) EXCEPT !.count = @ + 1]
               ELSE EntryIn(rs, o)
<1> DEFINE ms == Merged(rs, j)
<1>1. ms \in Seq(Record) /\ DOMAIN ms = DOMAIN rs /\ Unique(ms)
  BY MergedFacts
<1>2. \A i \in DOMAIN rs : rs[i] \in Record
  OBVIOUS
<1>3. \A i \in DOMAIN rs :
         /\ ms[i].original = rs[i].original
         /\ EntryOf(ms[i]) = IF rs[i].original = j.original
                             THEN [EntryOf(rs[i]) EXCEPT !.count = @ + 1]
                             ELSE EntryOf(rs[i])
  BY <1>2 DEF Merged, Record, EntryOf
<1> HIDE DEF ms
<1>4. CASE \E i \in DOMAIN rs : rs[i].original = o
  <2>1. PICK i \in DOMAIN rs : rs[i].original = o
    BY <1>4
  <2>2. EntryIn(rs, o) = EntryOf(rs[i])
    BY <2>1, EntryFacts
  <2>3. i \in DOMAIN ms /\ ms[i].original = o
    BY <1>1, <1>3, <2>1
  <2>4. EntryIn(ms, o) = EntryOf(ms[i])
    BY <1>1, <2>3, EntryFacts
  <2>5. QED
    BY <1>3, <2>1, <2>2, <2>4 DEF ms
<1>5. CASE \A i \in DOMAIN rs : rs[i].original # o
  <2>1. j.original # o
    BY <1>5 DEF IsDuplicate
  <2>2. \A i \in DOMAIN ms : ms[i].original # o
    BY <1>1, <1>3, <1>5
  <2>3. EntryIn(ms, o) = None /\ EntryIn(rs, o) = None
    BY <1>1, <1>5, <2>2, EntryFacts
  <2>4. QED
    BY <2>1, <2>3 DEF ms
<1>6. QED
  BY <1>4, <1>5

\* The entry of a command before and after j accepts.
AcceptsEntry(rs, j, o) ==
    \/ EntryIn(rs, o) = None /\ EntryIn(Accepted(rs, j), o) = None
    \/ \E i \in DOMAIN rs :
          /\ rs[i].original = o /\ EntryIn(rs, o) = EntryOf(rs[i])
          /\ EntryIn(Accepted(rs, j), o) =
                 IF IsAcceptableMatch(rs[i], j)
                 THEN [EntryOf(rs[i]) EXCEPT !.accepted = TRUE] ELSE EntryOf(rs[i])

\* apply_accepted accepts the entries the command follows, and no others.
LEMMA EntriesAccepted ==
    ASSUME NEW rs \in Seq(Record), Unique(rs), NEW j, NEW o
    PROVE  AcceptsEntry(rs, j, o)
<1> DEFINE as == Accepted(rs, j)
<1>1. as \in Seq(Record) /\ DOMAIN as = DOMAIN rs /\ Unique(as)
  BY AcceptedFacts
<1>2. \A i \in DOMAIN rs : rs[i] \in Record
  OBVIOUS
<1>3. \A i \in DOMAIN rs :
         /\ as[i].original = rs[i].original
         /\ EntryOf(as[i]) = IF IsAcceptableMatch(rs[i], j)
                             THEN [EntryOf(rs[i]) EXCEPT !.accepted = TRUE]
                             ELSE EntryOf(rs[i])
  BY <1>2 DEF Accepted, Record, EntryOf
<1> HIDE DEF as
<1>4. CASE \E i \in DOMAIN rs : rs[i].original = o
  <2>1. PICK i \in DOMAIN rs : rs[i].original = o
    BY <1>4
  <2>2. EntryIn(rs, o) = EntryOf(rs[i])
    BY <2>1, EntryFacts
  <2>3. i \in DOMAIN as /\ as[i].original = o
    BY <1>1, <1>3, <2>1
  <2>4. EntryIn(as, o) = EntryOf(as[i])
    BY <1>1, <2>3, EntryFacts
  <2>5. QED
    BY <1>3, <2>1, <2>2, <2>4 DEF as, AcceptsEntry
<1>5. CASE \A i \in DOMAIN rs : rs[i].original # o
  <2>1. \A i \in DOMAIN as : as[i].original # o
    BY <1>1, <1>3, <1>5
  <2>2. EntryIn(as, o) = None /\ EntryIn(rs, o) = None
    BY <1>1, <1>5, <2>1, EntryFacts
  <2>3. QED
    BY <2>2 DEF as, AcceptsEntry
<1>6. QED
  BY <1>4, <1>5

\* The records of the file and of a list about to be written count blocks.
Positives == Positive(lines) /\ \A k \in Calls : step[k] = "rewrite" => Positive(held[k])

\* What is loaded, merged or accepted counts blocks when the file does.
LEMMA PositiveLists ==
    ASSUME lines \in Seq(Line), Positive(lines), NEW j
    PROVE  /\ Positive(Records(lines))
           /\ Positive(Merged(Records(lines), j))
           /\ Positive(Accepted(Records(lines), j))
<1> DEFINE rs == Records(lines)
<1>1. Gathers(lines, Len(lines), rs)
  BY RecordsFacts
<1> HIDE DEF rs
<1>2. rs \in Seq(Record) /\ \A i \in DOMAIN rs : rs[i] \in Record
  BY <1>1 DEF Gathers
<1>3. ASSUME NEW i \in DOMAIN rs
      PROVE  rs[i].count # 0
  <2>1. PICK n \in 1..Len(lines) : IsRecord(lines[n]) /\ lines[n] = rs[i]
    BY <1>1 DEF Gathers
  <2>2. n \in DOMAIN lines
    BY <2>1
  <2>3. QED
    BY <2>1, <2>2 DEF Positive
<1>4. \A i \in DOMAIN Merged(rs, j) : Merged(rs, j)[i].count # 0
  BY <1>2, <1>3 DEF Merged, Record
<1>5. \A i \in DOMAIN Accepted(rs, j) : Accepted(rs, j)[i].count # 0
  BY <1>2, <1>3 DEF Accepted, Record
<1>6. QED
  BY <1>3, <1>4, <1>5 DEF Positive, rs

LEMMA PositivesInit == Init => Positives
BY DEF Init, Positives, Positive

LEMMA PositivesNext == StoreInv /\ Positives /\ [Next]_vars => Positives'
<1> SUFFICES ASSUME StoreInv, Positives, [Next]_vars PROVE Positives'
  OBVIOUS
<1>1. TypeOK /\ AppendsBlocks /\ lines \in Seq(Line) /\ (lines = <<>> => ended)
  BY DEF StoreInv, Typed, TypeOK, Line
<1>2. ASSUME NEW k \in Calls, NEW s, step' = [step EXCEPT ![k] = s], s # "rewrite",
             lines' = lines, \A h \in Calls : h # k => held'[h] = held[h]
      PROVE  Positives'
  <2>1. \A h \in Calls : step'[h] = "rewrite" => h # k /\ step[h] = "rewrite"
    BY <1>1, <1>2 DEF TypeOK
  <2>2. \A h \in Calls : step'[h] = "rewrite" => Positive(held'[h])
    BY <1>2, <2>1 DEF Positives
  <2>3. QED
    BY <1>2, <2>2 DEF Positives, Positive
<1>3. ASSUME NEW k \in Calls, OpenFile(k) \/ Lock(k) \/ AppendNewline(k) \/ Crash(k)
      PROVE  Positives'
  BY <1>2, <1>3 DEF OpenFile, Lock, AppendNewline, Crash, Goto, Return
<1>4. ASSUME NEW k \in Calls, Load(k)
      PROVE  Positives'
  <2>1. \A h \in Calls : h # k => held'[h] = held[h]
    BY <1>1, <1>4 DEF Load, TypeOK
  <2>2. lines' = lines /\ \E s : s # "rewrite" /\ step' = [step EXCEPT ![k] = s]
    BY <1>4 DEF Load, Goto, Return
  <2>3. QED
    BY <1>2, <2>1, <2>2
<1>5. ASSUME NEW k \in Calls, AppendText(k) \/ AppendCut(k)
      PROVE  Positives'
  <2>1. PICK line \in Broken \cup {New(job[k])}, s \in {"newline", "over"} :
           /\ step[k] = "append" /\ step' = [step EXCEPT ![k] = s] /\ lines' = Extend(line)
           /\ held' = held
    BY <1>5 DEF AppendText, AppendCut, Goto, Return
  <2>2. line \in Line
    BY <1>1, <2>1, NewType DEF TypeOK, AppendsBlocks, Line
  <2>3. line \in Broken \/ line.count # 0
    BY <2>1 DEF New
  <2>4. ASSUME NEW i \in DOMAIN Extend(line), IsRecord(Extend(line)[i])
        PROVE  Extend(line)[i].count # 0
    <3>0. Len(lines) \in Nat /\ DOMAIN lines = 1..Len(lines)
      BY <1>1
    <3>1. CASE ended
      <4>1. Extend(line) = Append(lines, line)
        BY <1>1, <2>2, <3>1, ExtendFacts
      <4>2. (i \in DOMAIN lines /\ Extend(line)[i] = lines[i]) \/ Extend(line)[i] = line
        BY <1>1, <3>0, <4>1
      <4>3. QED
        BY <2>3, <2>4, <4>2 DEF Positives, Positive, IsRecord
    <3>2. CASE ~ended
      <4>1. /\ Extend(line) \in Seq(Line)
            /\ Len(Extend(line)) = Len(lines)
            /\ Extend(line)[Len(lines)] \in Broken
            /\ \A m \in 1..(Len(lines) - 1) : Extend(line)[m] = lines[m]
        BY <1>1, <2>2, <3>2, ExtendFacts
      <4>2. i \in 1..Len(lines)
        BY <4>1
      <4>3. i \in 1..(Len(lines) - 1) \/ i = Len(lines)
        BY <3>0, <4>2
      <4>4. Extend(line)[i] = lines[i] /\ i \in DOMAIN lines
        BY <2>4, <3>0, <4>1, <4>2, <4>3 DEF IsRecord
      <4>5. QED
        BY <2>4, <4>4 DEF Positives, Positive
    <3>3. QED
      BY <3>1, <3>2
  <2>5. \A h \in Calls : step'[h] # "rewrite"
    BY <1>1, <2>1, Alone DEF Inside, TypeOK
  <2>6. QED
    BY <2>1, <2>4, <2>5 DEF Positives, Positive
<1>6. ASSUME NEW k \in Calls, Truncate(k)
      PROVE  Positives'
  <2>1. /\ step[k] = "truncate" /\ step' = [step EXCEPT ![k] = "rewrite"] /\ lines' = <<>>
        /\ held' = held
    BY <1>6 DEF Truncate, Goto
  <2>2. \A h \in Calls : step'[h] = "rewrite" => h = k
    BY <1>1, <2>1, Alone DEF Inside, TypeOK
  <2>3. held[k] \in {Merged(Records(lines), job[k]), Accepted(Records(lines), job[k])}
    BY <2>1 DEF StoreInv, Decided
  <2>4. Positive(held[k])
    BY <1>1, <2>3, PositiveLists DEF Positives
  <2>5. QED
    BY <2>1, <2>2, <2>4 DEF Positives, Positive
<1>7. ASSUME NEW k \in Calls, Rewrite(k) \/ RewriteCut(k)
      PROVE  Positives'
  <2>1. step[k] = "rewrite" /\ step' = [step EXCEPT ![k] = "over"]
    BY <1>7 DEF Rewrite, RewriteCut, Return
  <2>2. held[k] \in Seq(Record) /\ \A i \in DOMAIN held[k] : IsRecord(held[k][i])
    BY <1>1, RecordsAreRecords DEF TypeOK
  <2>3. \A i \in DOMAIN held[k] : held[k][i].count # 0
    BY <2>1, <2>2 DEF Positives, Positive
  <2>4. \A i \in DOMAIN lines' : IsRecord(lines'[i]) => lines'[i].count # 0
    <3>1. CASE Rewrite(k)
      BY <2>3, <3>1 DEF Rewrite
    <3>2. CASE RewriteCut(k)
      <4>1. /\ lines' \in Seq(Line) /\ Len(lines') <= Len(held[k])
            /\ \A i \in DOMAIN lines' :
                  lines'[i] = held[k][i] \/ (i = Len(lines') /\ lines'[i] \in Broken)
        BY <2>2, <3>2, CutFacts
      <4>2. \A i \in DOMAIN lines' : i \in DOMAIN held[k]
        BY <2>2, <4>1
      <4>3. QED
        BY <2>3, <4>1, <4>2 DEF IsRecord
    <3>3. QED
      BY <1>7, <3>1, <3>2
  <2>5. \A h \in Calls : step'[h] # "rewrite"
    BY <1>1, <2>1, Alone DEF Inside, TypeOK
  <2>6. QED
    BY <2>4, <2>5 DEF Positives, Positive
<1>8. ASSUME UNCHANGED vars
      PROVE  Positives'
  BY <1>8 DEF vars, Positives, Positive
<1>9. QED
  BY <1>3, <1>4, <1>5, <1>6, <1>7, <1>8 DEF Next, ProcessStep, AllOver

-----------------------------------------------------------------------------
(* The processes and the file implement CaptureDataset. *)

Mapped(rs) == [o \in Originals |-> EntryIn(rs, o)]

Taking == {"newline", "rewrite", "over"}

Taken == {k \in Calls : step[k] \in Taking}

AllInv == StoreInv /\ Positives

\* The records the file stands for.
MeantOK ==
    /\ Meant \in Seq(Record) /\ Unique(Meant)
    /\ \A k \in Calls : step[k] = "rewrite" => Meant = held[k]
    /\ (\A k \in Calls : step[k] # "rewrite") => Meant = Records(lines)

LEMMA MeantNow == StoreInv => MeantOK
<1> SUFFICES ASSUME StoreInv PROVE MeantOK
  OBVIOUS
<1>1. TypeOK /\ lines \in Seq(Line) /\ Unique(lines) /\ \A k \in Calls : Decided(k)
  BY DEF StoreInv, Typed, TypeOK, Line
<1>2. CASE \A k \in Calls : step[k] # "rewrite"
  <2>1. Meant = Records(lines)
    BY <1>2 DEF Meant
  <2>2. Records(lines) \in Seq(Record) /\ Unique(Records(lines))
    BY <1>1, RecordsFacts DEF Gathers
  <2>3. QED
    BY <1>2, <2>1, <2>2 DEF MeantOK
<1>3. CASE \E k \in Calls : step[k] = "rewrite"
  <2> DEFINE at == CHOOSE k \in Calls : step[k] = "rewrite"
  <2>1. at \in Calls /\ step[at] = "rewrite"
    BY <1>3
  <2>2. Meant = held[at]
    BY <1>3 DEF Meant
  <2> HIDE DEF at
  <2>3. held[at] \in Seq(Record) /\ Unique(held[at])
    BY <1>1, <2>1 DEF TypeOK, Decided
  <2>4. \A k \in Calls : step[k] = "rewrite" => k = at
    BY <1>1, <2>1, Alone DEF Inside
  <2>5. QED
    BY <2>1, <2>2, <2>3, <2>4 DEF MeantOK
<1>4. QED
  BY <1>2, <1>3

LEMMA MeantNext == StoreInv' => MeantOK'
BY MeantNow, PTL

\* A step of k adds k to the calls taken, when it comes to such a step.
LEMMA TakenMoved ==
    ASSUME TypeOK, NEW k \in Calls, NEW s, step' = [step EXCEPT ![k] = s],
           step[k] \in Taking => s \in Taking
    PROVE  Taken' = IF s \in Taking THEN Taken \cup {k} ELSE Taken
<1>1. \A h \in Calls : step'[h] = IF h = k THEN s ELSE step[h]
  BY DEF TypeOK
<1>2. QED
  BY <1>1 DEF Taken

\* A step that leaves the file and takes no part in its rewriting.
LEMMA MeantSame ==
    ASSUME StoreInv, StoreInv', NEW k \in Calls, NEW s, step' = [step EXCEPT ![k] = s],
           step[k] # "rewrite", s # "rewrite", lines' = lines,
           \A h \in Calls : h # k => held'[h] = held[h]
    PROVE  Meant' = Meant
<1>1. \A h \in Calls : step'[h] = "rewrite" <=> h # k /\ step[h] = "rewrite"
  BY DEF StoreInv, Typed, TypeOK
<1>2. /\ \A h \in Calls : step'[h] = "rewrite" => Meant' = held'[h]
      /\ (\A h \in Calls : step'[h] # "rewrite") => Meant' = Records(lines')
  BY MeantNext DEF MeantOK
<1>3. CASE \A h \in Calls : step[h] # "rewrite"
  BY <1>1, <1>2, <1>3, MeantNow DEF MeantOK
<1>4. CASE \E h \in Calls : step[h] = "rewrite"
  <2>1. PICK h \in Calls : step[h] = "rewrite"
    BY <1>4
  <2>2. QED
    BY <1>1, <1>2, <2>1, MeantNow DEF MeantOK
<1>5. QED
  BY <1>3, <1>4

\* What the dataset does in a step.
DataStep == Dataset!Next \/ UNCHANGED Dataset!vars

LEMMA StutterStep ==
    ASSUME Meant' = Meant, Taken' = Taken, UNCHANGED <<job, faults>>
    PROVE  DataStep
BY DEF DataStep, Dataset!vars, Taken, Taking

LEMMA LoseStep ==
    ASSUME TypeOK, faults' >= faults, faults' # 0, faults' \in Nat,
           Taken \subseteq Taken', job' = job,
           \A o \in Originals : EntryIn(Meant', o) \in {EntryIn(Meant, o), None}
    PROVE  DataStep
<1>1. faults' > 0
  OBVIOUS
<1>2. Dataset!Lose
  BY <1>1 DEF Dataset!Lose, Dataset!NoEntry, None, Taken, Taking
<1>3. QED
  BY <1>2 DEF DataStep, Dataset!Next

LEMMA BlockStep ==
    ASSUME faults' >= faults, job' = job, NEW k \in Calls, k \notin Taken,
           Taken' = Taken \cup {k}, job[k].kind = "record", job[k].original \in Originals,
           \A o \in Originals : EntryIn(Meant', o) =
               IF o = job[k].original THEN Dataset!Again(EntryIn(Meant, o), job[k].session)
               ELSE EntryIn(Meant, o)
    PROVE  DataStep
<1> DEFINE at == job[k].original
           before == Mapped(Meant)
           after == Mapped(Meant')
<1>1. after = [before EXCEPT ![at] = Dataset!Again(@, job[k].session)]
  BY DEF Mapped
<1>2. Dataset!Take(k)
  BY DEF Dataset!Take, Taken, Taking
<1>3. Dataset!Block(k)
  BY <1>1, <1>2 DEF Dataset!Block, Mapped
<1>4. QED
  BY <1>3 DEF DataStep, Dataset!Next

\* The entry is pending, and what k runs is its suggestion.
Awaited(k, o, entry) ==
    /\ entry # None /\ ~entry.accepted
    /\ entry.session = job[k].session
    /\ Advice[o] = job[k].command

LEMMA AcceptStep ==
    ASSUME faults' >= faults, job' = job, NEW k \in Calls, k \notin Taken,
           Taken' = Taken \cup {k}, job[k].kind = "accept",
           \A o \in Originals : EntryIn(Meant', o) =
               IF Awaited(k, o, EntryIn(Meant, o))
               THEN [EntryIn(Meant, o) EXCEPT !.accepted = TRUE]
               ELSE EntryIn(Meant, o)
    PROVE  DataStep
<1>1. Dataset!Take(k)
  BY DEF Dataset!Take, Taken, Taking
<1>2. \A o \in Originals : Dataset!Matches(k, o) <=> Awaited(k, o, EntryIn(Meant, o))
  BY DEF Dataset!Matches, Dataset!Entries, Dataset!NoEntry, None, Awaited
<1>3. Mapped(Meant') = [o \in Originals |->
          IF Dataset!Matches(k, o) THEN [EntryIn(Meant, o) EXCEPT !.accepted = TRUE]
          ELSE EntryIn(Meant, o)]
  BY <1>2 DEF Mapped
<1>4. Dataset!Accept(k)
  BY <1>1, <1>3 DEF Dataset!Accept, Mapped
<1>5. QED
  BY <1>4 DEF DataStep, Dataset!Next

LEMMA DatasetInit == Init => Dataset!Init
<1> SUFFICES ASSUME Init PROVE Dataset!Init
  OBVIOUS
<1>1. StoreInv /\ \A k \in Calls : step[k] = "idle"
  BY StoreInit DEF Init
<1>2. Meant = Records(lines) /\ lines = <<>>
  BY <1>1, MeantNow DEF Init, MeantOK
<1>3. Gathers(<<>>, Len(<<>>), Records(<<>>))
  <2>1. <<>> \in Seq(Line)
    OBVIOUS
  <2>2. QED
    BY <2>1, RecordsFacts
<1>4. \A o : EntryIn(Meant, o) = None
  <2>1. Records(<<>>) \in Seq(Record) /\ \A i \in DOMAIN Records(<<>>) : FALSE
    BY <1>3 DEF Gathers
  <2>2. QED
    BY <1>2, <2>1 DEF EntryIn, None
<1>5. QED
  BY <1>1, <1>4, CaptureAssumption DEF Init, Dataset!Init, Dataset!NoEntry, None

\* apply_accepted accepts the entries k awaits.
LEMMA AcceptedAwaited ==
    ASSUME NEW rs \in Seq(Record), Unique(rs), Positive(rs), NEW k, NEW o
    PROVE  EntryIn(Accepted(rs, job[k]), o) =
               IF Awaited(k, o, EntryIn(rs, o))
               THEN [EntryIn(rs, o) EXCEPT !.accepted = TRUE] ELSE EntryIn(rs, o)
<1> DEFINE entry == EntryIn(rs, o)
           after == EntryIn(Accepted(rs, job[k]), o)
<1>1. CASE entry = None /\ after = None
  BY <1>1 DEF Awaited
<1>2. CASE \E i \in DOMAIN rs :
              /\ rs[i].original = o /\ entry = EntryOf(rs[i])
              /\ after = IF IsAcceptableMatch(rs[i], job[k])
                         THEN [EntryOf(rs[i]) EXCEPT !.accepted = TRUE] ELSE EntryOf(rs[i])
  <2>1. PICK i \in DOMAIN rs :
              /\ rs[i].original = o /\ entry = EntryOf(rs[i])
              /\ after = IF IsAcceptableMatch(rs[i], job[k])
                         THEN [EntryOf(rs[i]) EXCEPT !.accepted = TRUE] ELSE EntryOf(rs[i])
    BY <1>2
  <2>2. entry # None
    BY <2>1, EntriesCount
  <2>3. entry.accepted = rs[i].accepted /\ entry.session = rs[i].session
    BY <2>1 DEF EntryOf
  <2>4. IsAcceptableMatch(rs[i], job[k]) <=> Awaited(k, o, entry)
    BY <2>1, <2>2, <2>3 DEF IsAcceptableMatch, Awaited
  <2> HIDE DEF entry, after
  <2>5. after = IF Awaited(k, o, entry) THEN [entry EXCEPT !.accepted = TRUE] ELSE entry
    BY <2>1, <2>4
  <2>6. QED
    BY <2>5 DEF entry, after
<1>3. AcceptsEntry(rs, job[k], o)
  BY EntriesAccepted
<1> HIDE DEF entry, after
<1>4. after = IF Awaited(k, o, entry) THEN [entry EXCEPT !.accepted = TRUE] ELSE entry
  BY <1>1, <1>2, <1>3 DEF entry, after, AcceptsEntry
<1>5. QED
  BY <1>4 DEF entry, after

\* The block that is appended is a new entry; a part of its record, or its
\* record in a line of another, is none.
LEMMA DataText ==
    ASSUME StoreInv, Positives, StoreInv', NEW k \in Calls, AppendText(k) \/ AppendCut(k)
    PROVE  DataStep
<1>1. PICK line \in Broken \cup {New(job[k])}, s \in {"newline", "over"} :
         /\ step[k] = "append" /\ step' = [step EXCEPT ![k] = s] /\ lines' = Extend(line)
         /\ job' = job /\ faults' \in Nat /\ faults' >= faults
         /\ (line = New(job[k]) /\ faults' = faults) \/ faults' # 0
  <2>1. faults \in Nat
    BY CaptureAssumption DEF StoreInv, Typed, TypeOK
  <2>2. CASE AppendText(k)
    BY <2>1, <2>2 DEF AppendText, Goto
  <2>3. CASE AppendCut(k)
    <3>1. faults' # 0 /\ faults' \in Nat /\ faults' >= faults
      BY <2>1, <2>3 DEF AppendCut, Fault
    <3>2. QED
      BY <2>3, <3>1 DEF AppendCut, Return
  <2>4. QED
    BY <2>2, <2>3
<1>2. TypeOK /\ AppendsBlocks /\ Whole /\ Decided(k) /\ Unique(lines) /\ Unique(lines')
      /\ Positive(lines)
  BY DEF StoreInv, Typed, Positives, Unique
<1>3. /\ lines \in Seq(Line) /\ (lines = <<>> => ended)
      /\ New(job[k]) \in Record /\ New(job[k]) \in Line /\ line \in Line
      /\ ~IsDuplicate(Records(lines), job[k])
      /\ job[k].kind = "record" /\ job[k].original \in Originals
  <2>1. job[k] \in Jobs /\ job[k].kind = "record"
    BY <1>1, <1>2 DEF TypeOK, AppendsBlocks
  <2>2. New(job[k]) \in Record /\ New(job[k]) \in Line /\ job[k].original \in Originals
    BY <2>1, NewType DEF Jobs
  <2>3. line \in Line
    BY <2>2 DEF Line
  <2>4. ~IsDuplicate(Records(lines), job[k])
    BY <1>1, <1>2 DEF Decided
  <2>5. QED
    BY <1>2, <2>1, <2>2, <2>3, <2>4 DEF TypeOK, Line
<1>4. \A h \in Calls : step[h] # "rewrite" /\ step'[h] # "rewrite"
  BY <1>1, <1>2, Alone DEF Inside, TypeOK
<1> DEFINE rs == Records(lines)
           qs == Records(lines')
<1>5. Meant = rs /\ Meant' = qs
  BY <1>4, MeantNow, MeantNext DEF MeantOK
<1>6. lines' \in Seq(Line) /\ lines' # <<>> /\ (~ended => Len(lines') = Len(lines))
      /\ (ended => lines' = Append(lines, line))
  BY <1>1, <1>3, ExtendFacts
<1>7. Gathers(lines, Len(lines), rs) /\ Gathers(lines', Len(lines'), qs)
  BY <1>3, <1>6, RecordsFacts
<1> HIDE DEF rs, qs
<1>8. rs \in Seq(Record) /\ Unique(rs) /\ qs \in Seq(Record) /\ Unique(qs)
  BY <1>2, <1>7 DEF Gathers
<1>9. k \notin Taken /\ Taken' = Taken \cup {k}
  BY <1>1, <1>2, TakenMoved DEF Taken, Taking
<1>10. Len(lines) \in Nat /\ Len(lines') \in Nat /\ DOMAIN lines = 1..Len(lines)
  BY <1>3, <1>6
<1>11. CASE ended /\ line = New(job[k])
  <2>1. /\ Len(lines') = Len(lines) + 1 /\ lines'[Len(lines) + 1] = New(job[k])
        /\ \A n \in 1..Len(lines) : lines'[n] = lines[n]
    BY <1>3, <1>6, <1>10, <1>11
  <2>2. IsRecord(New(job[k]))
    BY <1>3, LineKinds
  <2>3. \A i \in DOMAIN rs : \E j \in DOMAIN qs : qs[j] = rs[i]
    <3>1. ASSUME NEW i \in DOMAIN rs
          PROVE  \E j \in DOMAIN qs : qs[j] = rs[i]
      <4>1. PICK n \in 1..Len(lines) : IsRecord(lines[n]) /\ lines[n] = rs[i]
        BY <1>7 DEF Gathers
      <4>2. n \in 1..Len(lines') /\ lines'[n] = lines[n]
        BY <1>10, <2>1
      <4>3. PICK j \in DOMAIN qs : qs[j] = lines'[n]
        BY <1>7, <4>1, <4>2 DEF Gathers
      <4>4. QED
        BY <4>1, <4>2, <4>3
    <3>2. QED
      BY <3>1
  <2>4. PICK m \in DOMAIN qs : qs[m] = New(job[k])
    <3>1. Len(lines) + 1 \in 1..Len(lines')
      BY <1>10, <2>1
    <3>2. QED
      BY <1>7, <2>1, <2>2, <3>1 DEF Gathers
  <2>5. \A j \in DOMAIN qs : (\E i \in DOMAIN rs : qs[j] = rs[i]) \/ qs[j] = New(job[k])
    <3>1. ASSUME NEW j \in DOMAIN qs
          PROVE  (\E i \in DOMAIN rs : qs[j] = rs[i]) \/ qs[j] = New(job[k])
      <4>1. PICK n \in 1..Len(lines') : IsRecord(lines'[n]) /\ lines'[n] = qs[j]
        BY <1>7 DEF Gathers
      <4>2. n \in 1..Len(lines) \/ n = Len(lines) + 1
        BY <1>10, <2>1
      <4>3. CASE n \in 1..Len(lines)
        <5>1. lines'[n] = lines[n] /\ IsRecord(lines[n])
          BY <2>1, <4>1, <4>3
        <5>2. \E i \in DOMAIN rs : rs[i] = lines[n]
          BY <1>7, <4>3, <5>1 DEF Gathers
        <5>3. QED
          BY <4>1, <5>1, <5>2
      <4>4. QED
        BY <2>1, <4>1, <4>2, <4>3
    <3>2. QED
      BY <3>1
  <2>6. \A i \in DOMAIN rs : rs[i].original # job[k].original
    BY <1>3 DEF IsDuplicate, rs
  <2>7. New(job[k]).original = job[k].original
        /\ EntryOf(New(job[k])) = [session |-> job[k].session, accepted |-> FALSE, count |-> 1]
    BY DEF New, EntryOf
  <2>8. ASSUME NEW o \in Originals
        PROVE  EntryIn(qs, o) = IF o = job[k].original
                   THEN Dataset!Again(EntryIn(rs, o), job[k].session)
                   ELSE EntryIn(rs, o)
    <3>1. CASE o = job[k].original
      <4>1. EntryIn(rs, o) = None
        BY <1>8, <2>6, <3>1, EntryFacts
      <4>2. EntryIn(qs, o) = EntryOf(New(job[k]))
        BY <1>8, <2>4, <2>7, <3>1, EntryFacts
      <4>3. None = Dataset!NoEntry
        BY DEF None, Dataset!NoEntry
      <4>4. QED
        BY <2>7, <3>1, <4>1, <4>2, <4>3 DEF Dataset!Again
    <3>2. CASE o # job[k].original /\ \E i \in DOMAIN rs : rs[i].original = o
      <4>1. PICK i \in DOMAIN rs : rs[i].original = o
        BY <3>2
      <4>2. PICK j \in DOMAIN qs : qs[j] = rs[i]
        BY <2>3
      <4>3. EntryIn(rs, o) = EntryOf(rs[i])
        BY <1>8, <4>1, EntryFacts
      <4>4. EntryIn(qs, o) = EntryOf(qs[j])
        BY <1>8, <4>1, <4>2, EntryFacts
      <4>5. QED
        BY <3>2, <4>2, <4>3, <4>4
    <3>3. CASE o # job[k].original /\ \A i \in DOMAIN rs : rs[i].original # o
      <4>1. \A j \in DOMAIN qs : qs[j].original # o
        BY <2>5, <2>7, <3>3
      <4>2. EntryIn(qs, o) = None /\ EntryIn(rs, o) = None
        BY <1>8, <3>3, <4>1, EntryFacts
      <4>3. QED
        BY <3>3, <4>2
    <3>4. QED
      BY <3>1, <3>2, <3>3
  <2>9. QED
    BY <1>1, <1>3, <1>5, <1>9, <2>8, BlockStep
<1>12. CASE ~(ended /\ line = New(job[k]))
  <2>1. faults' # 0
    <3>1. CASE ended
      BY <1>1, <1>12, <3>1
    <3>2. CASE ~ended
      <4>1. \A h \in Calls : step[h] # "newline"
        BY <1>1, <1>2, Alone DEF Inside
      <4>2. faults # 0
        BY <1>2, <3>2, <4>1 DEF Whole
      <4>3. QED
        BY <1>1, <4>2
    <3>3. QED
      BY <3>1, <3>2
  <2>2. ASSUME NEW n \in 1..Len(lines'), IsRecord(lines'[n])
        PROVE  n \in 1..Len(lines) /\ lines'[n] = lines[n]
    <3>1. CASE ended
      <4>1. Len(lines') = Len(lines) + 1 /\ lines'[Len(lines) + 1] \in Broken
            /\ \A i \in 1..Len(lines) : lines'[i] = lines[i]
        BY <1>3, <1>6, <1>10, <1>12, <3>1
      <4>2. n # Len(lines) + 1
        BY <2>2, <4>1 DEF IsRecord
      <4>3. QED
        BY <1>10, <4>1, <4>2
    <3>2. CASE ~ended
      <4>1. /\ Len(lines') = Len(lines) /\ lines'[Len(lines)] \in Broken
            /\ \A i \in 1..(Len(lines) - 1) : lines'[i] = lines[i]
        BY <1>1, <1>3, <3>2, ExtendFacts
      <4>2. n # Len(lines)
        BY <2>2, <4>1 DEF IsRecord
      <4>3. n \in 1..Len(lines)
        BY <4>1
      <4>4. n \in 1..(Len(lines) - 1)
        <5>1. \A m \in Nat : \A i \in 1..m : i # m => i \in 1..(m - 1)
          OBVIOUS
        <5>2. QED
          BY <1>10, <4>2, <4>3, <5>1
      <4>5. QED
        BY <4>1, <4>3, <4>4
    <3>3. QED
      BY <3>1, <3>2
  <2>3. \A j \in DOMAIN qs : \E i \in DOMAIN rs : rs[i] = qs[j]
    <3>1. ASSUME NEW j \in DOMAIN qs
          PROVE  \E i \in DOMAIN rs : rs[i] = qs[j]
      <4>1. PICK n \in 1..Len(lines') : IsRecord(lines'[n]) /\ lines'[n] = qs[j]
        BY <1>7 DEF Gathers
      <4>2. n \in 1..Len(lines) /\ lines'[n] = lines[n]
        BY <2>2, <4>1
      <4>3. QED
        BY <1>7, <4>1, <4>2 DEF Gathers
    <3>2. QED
      BY <3>1
  <2>4. \A o \in Originals : EntryIn(qs, o) \in {EntryIn(rs, o), None}
    BY <1>8, <2>3, FewerEntries
  <2>5. QED
    BY <1>1, <1>2, <1>5, <1>9, <2>1, <2>4, LoseStep
<1>13. QED
  BY <1>11, <1>12

\* Opening the file to write is what takes effect: the records to be written
\* are meant from then on.
LEMMA DataTruncate ==
    ASSUME StoreInv, Positives, StoreInv', NEW k \in Calls, Truncate(k)
    PROVE  DataStep
<1>1. /\ step[k] = "truncate" /\ step' = [step EXCEPT ![k] = "rewrite"]
      /\ UNCHANGED <<job, held, faults>>
  BY DEF Truncate, Goto
<1>2. /\ TypeOK /\ Decided(k) /\ lines \in Seq(Line) /\ Unique(lines) /\ Positive(lines)
      /\ faults \in Nat /\ job[k] \in Jobs
  BY CaptureAssumption DEF StoreInv, Typed, TypeOK, Line, Positives
<1>3. step'[k] = "rewrite" /\ \A h \in Calls : step[h] # "rewrite"
  BY <1>1, <1>2, Alone DEF Inside, TypeOK
<1> DEFINE rs == Records(lines)
<1>4. Meant = rs /\ Meant' = held[k]
  <2>1. Meant = rs
    BY <1>3, MeantNow DEF MeantOK
  <2>2. Meant' = held'[k]
    BY <1>3, MeantNext DEF MeantOK
  <2>3. QED
    BY <1>1, <2>1, <2>2
<1>5. rs \in Seq(Record) /\ Unique(rs) /\ Positive(rs)
  BY <1>2, RecordsFacts, PositiveLists DEF Gathers
<1>6. k \notin Taken /\ Taken' = Taken \cup {k}
  BY <1>1, <1>2, TakenMoved DEF Taken, Taking
<1>7. \/ /\ job[k].kind = "record" /\ IsDuplicate(rs, job[k])
         /\ held[k] = Merged(rs, job[k])
      \/ /\ job[k].kind = "accept"
         /\ held[k] = Accepted(rs, job[k])
  BY <1>1, <1>2 DEF Decided
<1> HIDE DEF rs
<1>8. CASE /\ job[k].kind = "record" /\ IsDuplicate(rs, job[k])
           /\ held[k] = Merged(rs, job[k])
  <2>1. job[k].original \in Originals
    BY <1>2, <1>8 DEF Jobs
  <2>2. ASSUME NEW o \in Originals
        PROVE  EntryIn(held[k], o) = IF o = job[k].original
                   THEN Dataset!Again(EntryIn(rs, o), job[k].session)
                   ELSE EntryIn(rs, o)
    <3>1. EntryIn(held[k], o) = IF job[k].original = o
              THEN [EntryIn(rs, o) EXCEPT !.count = @ + 1] ELSE EntryIn(rs, o)
      BY <1>5, <1>8, EntriesMerged
    <3>2. job[k].original = o => EntryIn(rs, o) # None
      BY <1>5, <1>8, EntriesCount DEF IsDuplicate
    <3>3. None = Dataset!NoEntry
      BY DEF None, Dataset!NoEntry
    <3>4. QED
      BY <3>1, <3>2, <3>3 DEF Dataset!Again
  <2>3. QED
    BY <1>1, <1>2, <1>4, <1>6, <1>8, <2>1, <2>2, BlockStep
<1>9. CASE job[k].kind = "accept" /\ held[k] = Accepted(rs, job[k])
  <2>1. \A o \in Originals : EntryIn(held[k], o) =
            IF Awaited(k, o, EntryIn(rs, o))
            THEN [EntryIn(rs, o) EXCEPT !.accepted = TRUE] ELSE EntryIn(rs, o)
    BY <1>5, <1>9, AcceptedAwaited
  <2>2. QED
    BY <1>1, <1>2, <1>4, <1>6, <1>9, <2>1, AcceptStep
<1>10. QED
  BY <1>7, <1>8, <1>9

\* The list that was meant is in the file, or a part of it after a fault.
LEMMA DataRewrite ==
    ASSUME StoreInv, StoreInv', NEW k \in Calls, Rewrite(k) \/ RewriteCut(k)
    PROVE  DataStep
<1>1. /\ step[k] = "rewrite" /\ step' = [step EXCEPT ![k] = "over"] /\ job' = job
  BY DEF Rewrite, RewriteCut, Return
<1>2. /\ TypeOK /\ faults \in Nat /\ held[k] \in Seq(Record) /\ held[k] \in Seq(Line)
      /\ Unique(held[k]) /\ lines' \in Seq(Line) /\ Unique(lines')
  <2>1. TypeOK /\ Decided(k) /\ TypeOK' /\ Unique(lines)'
    BY DEF StoreInv, Typed
  <2>2. held[k] \in Seq(Record) /\ Unique(held[k]) /\ lines' \in Seq(Line) /\ Unique(lines')
    BY <1>1, <2>1 DEF TypeOK, Decided, Line, Unique
  <2>3. faults \in Nat
    BY <2>1, CaptureAssumption DEF TypeOK
  <2>4. QED
    BY <2>1, <2>2, <2>3, RecordsAreRecords
<1>3. \A h \in Calls : step'[h] # "rewrite"
  BY <1>1, <1>2, Alone DEF Inside, TypeOK
<1> DEFINE rs == Records(lines')
<1>4. Meant = held[k] /\ Meant' = rs
  BY <1>1, <1>3, MeantNow, MeantNext DEF MeantOK
<1>5. Gathers(lines', Len(lines'), rs)
  BY <1>2, RecordsFacts
<1>6. rs \in Seq(Record) /\ Unique(rs)
  BY <1>2, <1>5 DEF Gathers
<1>7. Taken' = Taken
  BY <1>1, <1>2, TakenMoved DEF Taken, Taking
<1>8. CASE Rewrite(k)
  <2>1. lines' = held[k] /\ faults' = faults
    BY <1>8 DEF Rewrite
  <2>2. \A o \in Originals : EntryIn(rs, o) = EntryIn(held[k], o)
    BY <1>2, <2>1, EntriesRead
  <2> HIDE DEF rs
  <2>3. UNCHANGED Dataset!vars
    BY <1>1, <1>4, <1>7, <2>1, <2>2 DEF Dataset!vars, Taken, Taking
  <2>4. QED
    BY <2>3 DEF DataStep
<1>9. CASE RewriteCut(k)
  <2>1. faults' # 0 /\ faults' \in Nat /\ faults' >= faults
    BY <1>2, <1>9 DEF RewriteCut, Fault
  <2>2. /\ Len(lines') <= Len(held[k])
        /\ \A i \in DOMAIN lines' :
              lines'[i] = held[k][i] \/ (i = Len(lines') /\ lines'[i] \in Broken)
    BY <1>2, <1>9, CutFacts
  <2> HIDE DEF rs
  <2>3. ASSUME NEW i \in DOMAIN rs
        PROVE  \E j \in DOMAIN held[k] : held[k][j] = rs[i]
    <3>1. PICK n \in 1..Len(lines') : IsRecord(lines'[n]) /\ lines'[n] = rs[i]
      BY <1>5 DEF Gathers
    <3>2. lines'[n] = held[k][n]
      BY <1>2, <2>2, <3>1 DEF IsRecord
    <3>3. n \in DOMAIN held[k]
      <4>1. Len(lines') \in Nat /\ Len(held[k]) \in Nat /\ DOMAIN held[k] = 1..Len(held[k])
        BY <1>2
      <4>2. QED
        BY <2>2, <4>1
    <3>4. QED
      BY <3>1, <3>2, <3>3
  <2>4. \A o \in Originals : EntryIn(rs, o) \in {EntryIn(held[k], o), None}
    BY <1>2, <1>6, <2>3, FewerEntries
  <2>5. QED
    BY <1>1, <1>2, <1>4, <1>7, <2>1, <2>4, LoseStep
<1>10. QED
  BY <1>8, <1>9

LEMMA DataNext == StoreInv /\ Positives /\ [Next]_vars => DataStep
<1> SUFFICES ASSUME StoreInv, Positives, [Next]_vars PROVE DataStep
  OBVIOUS
<1>1. TypeOK /\ Whole /\ StoreInv' /\ faults \in Nat /\ lines \in Seq(Line) /\ Unique(lines)
      /\ Positive(lines)
  <2>1. TypeOK /\ Whole /\ Unique(lines) /\ Positive(lines)
    BY DEF StoreInv, Typed, Positives
  <2>2. faults \in Nat /\ lines \in Seq(Line)
    BY <2>1, CaptureAssumption DEF TypeOK, Line
  <2>3. QED
    BY <2>1, <2>2, StoreNext
<1>2. ASSUME NEW k \in Calls, OpenFile(k) \/ Lock(k)
      PROVE  DataStep
  <2>1. PICK s \in {"lock", "load"} : step' = [step EXCEPT ![k] = s]
    BY <1>2 DEF OpenFile, Lock, Goto
  <2>2. /\ step[k] \in {"idle", "lock"} /\ UNCHANGED <<lines, job, faults, held>>
    BY <1>2 DEF OpenFile, Lock
  <2>3. Meant' = Meant
    BY <1>1, <2>1, <2>2, MeantSame
  <2>4. Taken' = Taken
    BY <1>1, <2>1, <2>2, TakenMoved DEF Taking
  <2>5. QED
    BY <2>2, <2>3, <2>4, StutterStep
<1>3. ASSUME NEW k \in Calls, Load(k)
      PROVE  DataStep
  <2>1. step[k] = "load" /\ UNCHANGED <<job, lines, ended, faults>>
    BY <1>3 DEF Load
  <2>2. \A h \in Calls : h # k => held'[h] = held[h]
    BY <1>1, <1>3 DEF Load, TypeOK
  <2>3. PICK s \in {"truncate", "append", "over"} : step' = [step EXCEPT ![k] = s]
    BY <1>3 DEF Load, Goto, Return
  <2>4. Meant' = Meant
    BY <1>1, <2>1, <2>2, <2>3, MeantSame
  <2>5. CASE s \in {"truncate", "append"}
    <3>1. Taken' = Taken
      BY <1>1, <2>1, <2>3, <2>5, TakenMoved DEF Taking
    <3>2. QED
      BY <2>1, <2>4, <3>1, StutterStep
  <2>6. CASE s = "over"
    <3>1. k \notin Taken /\ Taken' = Taken \cup {k}
      BY <1>1, <2>1, <2>3, <2>6, TakenMoved DEF Taken, Taking
    <3>2. step'[k] = "over"
      BY <1>1, <2>3, <2>6 DEF TypeOK
    <3>3. \/ ~Loadable
          \/ job[k].kind = "accept" /\ Accepted(Records(lines), job[k]) = Records(lines)
      BY <1>1, <1>3, <3>2 DEF Load, Goto, TypeOK
    <3>4. CASE ~Loadable
      <4>1. \E i \in DOMAIN lines : ~IsRecord(lines[i])
        BY <3>4 DEF Loadable, IsRecord, Broken
      <4>2. faults # 0
        BY <1>1, <4>1 DEF Whole
      <4>3. QED
        BY <1>1, <2>1, <2>4, <3>1, <4>2, LoseStep
    <3>5. CASE job[k].kind = "accept" /\ Accepted(Records(lines), job[k]) = Records(lines)
      <4> DEFINE rs == Records(lines)
      <4>1. rs \in Seq(Record) /\ Unique(rs) /\ Positive(rs)
        BY <1>1, RecordsFacts, PositiveLists DEF Gathers
      <4>2. Meant = rs
        <5>1. \A h \in Calls : step[h] # "rewrite"
          BY <1>1, <2>1, Alone DEF Inside
        <5>2. QED
          BY <5>1, MeantNow DEF MeantOK
      <4> HIDE DEF rs
      <4>3. \A o \in Originals : EntryIn(Meant', o) =
                IF Awaited(k, o, EntryIn(Meant, o))
                THEN [EntryIn(Meant, o) EXCEPT !.accepted = TRUE] ELSE EntryIn(Meant, o)
        <5>1. Accepted(rs, job[k]) = rs
          BY <3>5 DEF rs
        <5>2. \A o \in Originals : EntryIn(Accepted(rs, job[k]), o) =
                IF Awaited(k, o, EntryIn(rs, o))
                THEN [EntryIn(rs, o) EXCEPT !.accepted = TRUE] ELSE EntryIn(rs, o)
          BY <4>1, AcceptedAwaited
        <5>3. Meant' = rs
          BY <2>4, <4>2
        <5>4. QED
          BY <4>2, <5>1, <5>2, <5>3
      <4>4. QED
        BY <1>1, <2>1, <3>1, <3>5, <4>3, AcceptStep
    <3>6. QED
      BY <3>3, <3>4, <3>5
  <2>7. QED
    BY <2>5, <2>6
<1>4. ASSUME NEW k \in Calls, AppendText(k) \/ AppendCut(k)
      PROVE  DataStep
  BY <1>1, <1>4, DataText
<1>5. ASSUME NEW k \in Calls, AppendNewline(k)
      PROVE  DataStep
  <2>1. /\ step[k] = "newline" /\ step' = [step EXCEPT ![k] = "over"]
        /\ UNCHANGED <<job, lines, held, faults>>
    BY <1>5 DEF AppendNewline, Return
  <2>2. Meant' = Meant
    BY <1>1, <2>1, MeantSame
  <2>3. Taken' = Taken
    BY <1>1, <2>1, TakenMoved DEF Taken, Taking
  <2>4. QED
    BY <2>1, <2>2, <2>3, StutterStep
<1>6. ASSUME NEW k \in Calls, Truncate(k)
      PROVE  DataStep
  BY <1>1, <1>6, DataTruncate
<1>7. ASSUME NEW k \in Calls, Rewrite(k) \/ RewriteCut(k)
      PROVE  DataStep
  BY <1>1, <1>7, DataRewrite
<1>8. ASSUME NEW k \in Calls, Crash(k)
      PROVE  DataStep
  <2>1. step' = [step EXCEPT ![k] = "over"] /\ UNCHANGED <<job, lines, ended, held>>
    BY <1>8 DEF Crash, Return
  <2>2. faults' # 0 /\ faults' >= faults /\ faults' \in Nat
    BY <1>1, <1>8 DEF Crash, Fault
  <2>3. Taken \subseteq Taken'
    BY <1>1, <2>1, TakenMoved DEF Taking
  <2>4. \A o \in Originals : EntryIn(Meant', o) \in {EntryIn(Meant, o), None}
    <3>1. CASE step[k] # "rewrite"
      <4>1. Meant' = Meant
        BY <1>1, <2>1, <3>1, MeantSame
      <4>2. QED
        BY <4>1
    <3>2. CASE step[k] = "rewrite"
      <4>1. \A h \in Calls : step'[h] # "rewrite"
        BY <1>1, <2>1, <3>2, Alone DEF Inside, TypeOK
      <4>2. Meant' = Records(lines) /\ lines = <<>>
        <5>1. Meant' = Records(lines)
          BY <2>1, <4>1, <1>1, MeantNext DEF MeantOK
        <5>2. lines = <<>>
          BY <3>2 DEF StoreInv, Decided
        <5>3. QED
          BY <5>1, <5>2
      <4>3. Gathers(lines, Len(lines), Meant')
        BY <1>1, <4>2, RecordsFacts
      <4>4. Meant' \in Seq(Record) /\ \A i \in DOMAIN Meant' : FALSE
        BY <4>2, <4>3 DEF Gathers
      <4>5. QED
        BY <4>4 DEF EntryIn, None
    <3>3. QED
      BY <3>1, <3>2
  <2>5. QED
    BY <1>1, <2>1, <2>2, <2>3, <2>4, LoseStep
<1>9. ASSUME UNCHANGED vars
      PROVE  DataStep
  <2>1. UNCHANGED <<job, lines, step, held, faults>>
    BY <1>9 DEF vars
  <2>2. Meant' = Meant /\ Taken' = Taken
    BY <2>1 DEF Meant, Taken
  <2>3. QED
    BY <2>1, <2>2, StutterStep
<1>10. QED
  BY <1>2, <1>3, <1>4, <1>5, <1>6, <1>7, <1>8, <1>9 DEF Next, ProcessStep, AllOver

\* The processes and the file amount to one atomic dataset: every call takes
\* effect at once and at most once, and only a fault costs entries.
THEOREM ImplementsAtomicDataset == Spec => ImplementsDataset
<1>1. Init => StoreInv /\ Positives /\ Dataset!Init
  BY StoreInit, PositivesInit, DatasetInit
<1>2. StoreInv /\ Positives /\ [Next]_vars => StoreInv' /\ Positives' /\ DataStep
  BY StoreNext, PositivesNext, DataNext
<1>3. DataStep => [Dataset!Next]_(Dataset!vars)
  BY DEF DataStep
<1>4. QED
  BY <1>1, <1>2, <1>3, PTL DEF Spec, ImplementsDataset, Dataset!Spec

=============================================================================
