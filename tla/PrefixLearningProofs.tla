------------------------ MODULE PrefixLearningProofs ------------------------
(***************************************************************************)
(* Theorems of PrefixLearning: they hold for every set of calls, commands  *)
(* and keys, for hook processes that overlap, lose each other's updates,   *)
(* fail to write or die.                                                   *)
(***************************************************************************)
EXTENDS PrefixLearning, Integers, WellFoundedInduction, FiniteSetTheorems, TLAPS

-----------------------------------------------------------------------------
(* Lists of probes *)

\* Prefixing a command that has not all of its prefixes leaves a command.
LEMMA PrefixedType ==
    ASSUME NEW c \in Command, c.prefixes < MaxPrefixes
    PROVE  Prefixed(c) \in Command
BY PrefixAssumption DEF Command, Prefixed

\* The first of some indices is one of them.
LEMMA FirstIsOne ==
    ASSUME NEW is \in SUBSET Nat, is # {}
    PROVE  First(is) \in is
<1>1. PICK i \in is : \A j \in is : ~(<<j, i>> \in OpToRel(<, Nat))
  BY WFMin, NatLessThanWellFounded
<1>2. ASSUME NEW j \in is PROVE i <= j
  <2>1. i \in Nat /\ j \in Nat
    OBVIOUS
  <2>2. j < i => <<j, i>> \in OpToRel(<, Nat)
    BY <2>1 DEF OpToRel
  <2>3. ~(j < i)
    BY <1>1, <2>2, Zenon
  <2> QED
    BY <2>1, <2>3
<1> QED
  BY <1>2 DEF First

\* What is left without the i-th element: the elements before and after it.
LEMMA RemoveAtFacts ==
    ASSUME NEW S, NEW s \in Seq(S), NEW i \in DOMAIN s
    PROVE  /\ RemoveAt(s, i) \in Seq(S)
           /\ \A j \in DOMAIN RemoveAt(s, i) :
                 LET from == IF j < i THEN j ELSE j + 1
                 IN  from \in DOMAIN s /\ RemoveAt(s, i)[j] = s[from]
<1> DEFINE front == SubSeq(s, 1, i - 1)
           back == SubSeq(s, i + 1, Len(s))
<1>1. i \in 1..Len(s) /\ Len(s) \in Nat
  OBVIOUS
<1>2. front \in Seq(S) /\ Len(front) = i - 1 /\ \A j \in 1..(i - 1) : front[j] = s[j]
  BY <1>1
<1>3. /\ back \in Seq(S) /\ Len(back) = Len(s) - i
      /\ \A j \in 1..(Len(s) - i) : back[j] = s[i + j]
  BY <1>1
<1> HIDE DEF front, back
<1>4. /\ front \o back \in Seq(S)
      /\ Len(front \o back) = Len(s) - 1
      /\ \A j \in 1..(Len(s) - 1) :
            (front \o back)[j] = IF j < i THEN front[j] ELSE back[j - (i - 1)]
  BY <1>1, <1>2, <1>3
<1>5. RemoveAt(s, i) = front \o back
  BY DEF RemoveAt, front, back
<1>6. SUFFICES ASSUME NEW j \in 1..(Len(s) - 1)
               PROVE  LET from == IF j < i THEN j ELSE j + 1
                      IN  from \in DOMAIN s /\ (front \o back)[j] = s[from]
  BY <1>4, <1>5
<1>7. CASE j < i
  BY <1>1, <1>2, <1>4, <1>7
<1>8. CASE ~(j < i)
  <2>1. (front \o back)[j] = back[j - i + 1]
    BY <1>1, <1>4, <1>8
  <2>2. j - i + 1 \in 1..(Len(s) - i) /\ i + (j - i + 1) = j + 1
    BY <1>1, <1>8
  <2>3. back[j - i + 1] = s[j + 1]
    BY <1>3, <2>2
  <2> QED
    BY <1>1, <1>8, <2>1, <2>3
<1> QED
  BY <1>7, <1>8

\* No command has two probes in the list.
Unique(list) ==
    \A i, j \in DOMAIN list : list[i].original = list[j].original => i = j

\* A list of probes without doubles, of commands in cs only.
Clean(list, cs) ==
    /\ list \in Seq(Probe)
    /\ Unique(list)
    /\ \A i \in DOMAIN list : list[i].original \in cs

\* No probes are a clean list.
LEMMA EmptyClean == \A cs : Clean(<<>>, cs)
BY DEF Clean, Unique

\* What is clean stays so when more commands are allowed.
LEMMA CleanMonotone ==
    ASSUME NEW list, NEW cs, NEW ds, Clean(list, cs), cs \subseteq ds
    PROVE  Clean(list, ds)
BY DEF Clean

Marked(list, i) == [list EXCEPT ![i].state = "probing"]

\* Marking a probe keeps a list clean.
LEMMA MarkedClean ==
    ASSUME NEW list, NEW cs, Clean(list, cs), NEW i \in DOMAIN list
    PROVE  Clean(Marked(list, i), cs)
<1>1. list \in Seq(Probe) /\ list[i] \in Probe
  BY DEF Clean
<1>2. /\ [list[i] EXCEPT !.state = "probing"] \in Probe
      /\ [list[i] EXCEPT !.state = "probing"].original = list[i].original
  BY <1>1 DEF Probe
<1>3. Marked(list, i) = [list EXCEPT ![i] = [list[i] EXCEPT !.state = "probing"]]
  BY DEF Marked
<1>4. Marked(list, i) \in Seq(Probe) /\ DOMAIN Marked(list, i) = DOMAIN list
  BY <1>1, <1>2, <1>3
<1>5. \A j \in DOMAIN list : Marked(list, i)[j].original = list[j].original
  BY <1>1, <1>2, <1>3
<1> QED
  BY <1>4, <1>5 DEF Clean, Unique

\* So does removing one.
LEMMA RemovedClean ==
    ASSUME NEW list, NEW cs, Clean(list, cs), NEW i \in DOMAIN list
    PROVE  Clean(RemoveAt(list, i), cs)
<1> DEFINE less == RemoveAt(list, i)
           from(j) == IF j < i THEN j ELSE j + 1
<1>1. list \in Seq(Probe)
  BY DEF Clean
<1>2. less \in Seq(Probe)
  BY <1>1, RemoveAtFacts
<1>3. \A j \in DOMAIN less : from(j) \in DOMAIN list /\ less[j] = list[from(j)]
  BY <1>1, RemoveAtFacts
<1>4. i \in Int /\ \A j \in DOMAIN less : j \in Int
  BY <1>1, <1>2
<1> HIDE DEF less
<1>5. ASSUME NEW j \in DOMAIN less, NEW m \in DOMAIN less, less[j].original = less[m].original
      PROVE  j = m
  <2>1. from(j) = from(m)
    BY <1>3, <1>5 DEF Clean, Unique
  <2> QED
    BY <1>4, <2>1
<1>6. \A j \in DOMAIN less : less[j].original \in cs
  BY <1>3 DEF Clean
<1> QED
  BY <1>2, <1>5, <1>6 DEF Clean, Unique, less

\* And so does adding one for a command that has none.
LEMMA AddedClean ==
    ASSUME NEW list, NEW cs, Clean(list, cs), NEW c \in cs, c \in Command,
           \A i \in DOMAIN list : list[i].original # c
    PROVE  Clean(Append(list, [original |-> c, state |-> "pending"]), cs)
<1> DEFINE new == [original |-> c, state |-> "pending"]
           more == Append(list, new)
<1>1. list \in Seq(Probe) /\ new \in Probe /\ new.original = c
  BY DEF Clean, Probe
<1> HIDE DEF new
<1>2. /\ more \in Seq(Probe)
      /\ DOMAIN more = DOMAIN list \cup {Len(list) + 1}
      /\ more[Len(list) + 1] = new
      /\ \A i \in DOMAIN list : more[i] = list[i]
  BY <1>1
<1>3. \A i \in DOMAIN more : more[i].original \in cs
  BY <1>1, <1>2 DEF Clean
<1>4. Unique(more)
  BY <1>1, <1>2 DEF Clean, Unique
<1> QED
  BY <1>2, <1>3, <1>4 DEF Clean, new

-----------------------------------------------------------------------------
(* Type correctness *)

Phases == {"idle", "pre", "tool", "post", "over"}
PreSteps == {"match", "mark", "inject"}
PostSteps == {"resolve", "initiate", "readstats", "confirm", "write", "savestats"}
Steps == {"none"} \cup PreSteps \cup PostSteps

\* What TypeOK says of the variables one by one, but for the mappings; what is
\* asked for leaves room for one more prefix.
Typed ==
    /\ exclusive \in BOOLEAN
    /\ probes \in Seq(Probe)
    /\ stats \in Stats
    /\ asked \in [Calls -> {c \in Command : c.prefixes < MaxPrefixes}]
    /\ ran \in [Calls -> Command]
    /\ exit \in [Calls -> Exits]
    /\ phase \in [Calls -> Phases]
    /\ step \in [Calls -> {"none"} \cup PreSteps \cup PostSteps]
    /\ held \in [Calls -> Seq(Probe)]
    /\ counted \in [Calls -> Stats]
    /\ probe \in [Calls -> Probe \cup {None}]
    /\ skipped \subseteq Calls
    /\ Cardinality(skipped) <= MaxSkipped

\* A call is at a step of its phase, and its exit is known from the tool's end on.
Placed ==
    \A k \in Calls :
        /\ phase[k] = "pre" <=> step[k] \in PreSteps
        /\ phase[k] = "post" <=> step[k] \in PostSteps
        /\ exit[k] = "pending" <=> phase[k] \in {"idle", "pre", "tool"}

\* A step of k that leaves k in place leaves every call so.
LEMMA PlacedOfOne ==
    ASSUME Placed, NEW k \in Calls,
           \A j \in Calls \ {k} :
               phase'[j] = phase[j] /\ step'[j] = step[j] /\ exit'[j] = exit[j],
           phase'[k] = "pre" <=> step'[k] \in PreSteps,
           phase'[k] = "post" <=> step'[k] \in PostSteps,
           exit'[k] = "pending" <=> phase'[k] \in {"idle", "pre", "tool"}
    PROVE  Placed'
BY DEF Placed

\* The initial states are well typed.
LEMMA TypeInit == Init => Typed /\ Placed
<1> SUFFICES ASSUME Init PROVE Typed /\ Placed
  OBVIOUS
<1>1. NoStats \in Stats /\ <<>> \in Seq(Probe)
  BY DEF NoStats, Stats
<1>2. Cardinality({}) <= MaxSkipped
  BY FS_EmptySet, PrefixAssumption
<1> QED
  BY <1>1, <1>2 DEF Init, Typed, Placed, Phases, PreSteps, PostSteps, Exits

\* The end of a hook process keeps the types, and is a matter of its call alone.
LEMMA EndHookFacts ==
    ASSUME Typed, NEW k \in Calls, NEW p \in Phases, EndHook(k, p)
    PROVE  /\ phase' \in [Calls -> Phases] /\ step' \in [Calls -> Steps]
           /\ held' \in [Calls -> Seq(Probe)] /\ counted' \in [Calls -> Stats]
           /\ probe' \in [Calls -> Probe \cup {None}]
           /\ phase'[k] = p /\ step'[k] = "none"
           /\ held'[k] = <<>> /\ probe'[k] = None
           /\ \A j \in Calls \ {k} :
                 /\ phase'[j] = phase[j] /\ step'[j] = step[j]
                 /\ held'[j] = held[j] /\ probe'[j] = probe[j]
<1>1. NoStats \in Stats /\ <<>> \in Seq(Probe)
  BY DEF NoStats, Stats
<1>2. phase' \in [Calls -> Phases] /\ phase' = [phase EXCEPT ![k] = p]
  BY DEF EndHook, Typed
<1>3. step' \in [Calls -> Steps] /\ step' = [step EXCEPT ![k] = "none"]
  BY DEF EndHook, Typed, Steps
<1>4. held' \in [Calls -> Seq(Probe)] /\ held' = [held EXCEPT ![k] = <<>>]
  BY <1>1 DEF EndHook, Typed
<1>5. counted' \in [Calls -> Stats]
  BY <1>1 DEF EndHook, Typed
<1>6. probe' \in [Calls -> Probe \cup {None}] /\ probe' = [probe EXCEPT ![k] = None]
  BY DEF EndHook, Typed
<1> QED
  BY <1>2, <1>3, <1>4, <1>5, <1>6 DEF Typed

\* Going on to a step is as well.
LEMMA GotoFacts ==
    ASSUME Typed, NEW k \in Calls, NEW s \in Steps, Goto(k, s)
    PROVE  /\ phase' = phase
           /\ step' \in [Calls -> Steps]
           /\ step'[k] = s
           /\ \A j \in Calls \ {k} : step'[j] = step[j]
BY DEF Goto, Typed, Steps

\* The indices of the probes that c resolves are indices of probes.
LEMMA RetriesFacts ==
    ASSUME Typed, NEW s, NEW c, Retries(s, c) # {}
    PROVE  /\ First(Retries(s, c)) \in DOMAIN probes
           /\ probes[First(Retries(s, c))] \in Probe
           /\ IsRetryOf(probes[First(Retries(s, c))], s, c)
<1>1. Retries(s, c) \in SUBSET Nat
  BY DEF Retries, Typed
<1>2. First(Retries(s, c)) \in Retries(s, c)
  BY <1>1, FirstIsOne
<1> QED
  BY <1>2 DEF Retries, Typed

\* Every step keeps the types and the calls in place.
LEMMA TypeNext == Typed /\ Placed /\ [Next]_vars => Typed' /\ Placed'
<1> SUFFICES ASSUME Typed, Placed, [Next]_vars PROVE Typed' /\ Placed'
  OBVIOUS
<1> USE DEF files, call, local
<1>s. /\ {"none", "match", "mark", "inject", "resolve", "initiate", "readstats", "confirm",
          "write", "savestats"} = Steps
      /\ \A s \in PreSteps : s \notin PostSteps
      /\ "none" \notin PreSteps \cup PostSteps
  BY DEF Steps, PreSteps, PostSteps
<1>1. ASSUME NEW k \in Calls, StartPre(k) PROVE Typed' /\ Placed'
  <2>1. phase' \in [Calls -> Phases] /\ phase'[k] = "pre"
    BY <1>1 DEF StartPre, Typed, Phases
  <2>2. step' \in [Calls -> Steps] /\ step'[k] = "match"
    BY <1>1, <1>s DEF StartPre, Typed, Steps
  <2>3. Typed'
    BY <1>1, <2>1, <2>2 DEF StartPre, Typed, Steps
  <2>4. Placed'
    BY <1>1, <2>1, <2>2, PlacedOfOne DEF StartPre, Typed, Placed, PreSteps, PostSteps
  <2> QED
    BY <2>3, <2>4
<1>2. ASSUME NEW k \in Calls, MatchProbe(k) PROVE Typed' /\ Placed'
  <2> DEFINE is == Retries("pending", asked[k])
  <2>0. step[k] = "match" /\ phase[k] = "pre"
    BY <1>2 DEF MatchProbe, Placed, PreSteps
  <2>1. CASE is # {} /\ held' = [held EXCEPT ![k] = [probes EXCEPT ![First(is)].state = "probing"]]
             /\ Goto(k, "mark")
    <3>1. First(is) \in DOMAIN probes /\ probes[First(is)] \in Probe
      BY <2>1, RetriesFacts
    <3>2. [probes[First(is)] EXCEPT !.state = "probing"] \in Probe
      BY <3>1 DEF Probe
    <3> HIDE DEF is
    <3>3. [probes EXCEPT ![First(is)].state = "probing"] \in Seq(Probe)
      BY <3>1, <3>2 DEF Typed
    <3>4. held' \in [Calls -> Seq(Probe)]
      BY <2>1, <3>3 DEF Typed
    <3>5. Typed'
      BY <1>2, <1>s, <2>1, <3>4, GotoFacts DEF MatchProbe, Typed, Steps
    <3>6. Placed'
      BY <1>2, <1>s, <2>0, <2>1, GotoFacts, PlacedOfOne DEF MatchProbe, Placed, PreSteps
    <3> QED
      BY <3>5, <3>6
  <2>2. CASE Goto(k, "inject") /\ UNCHANGED held
    <3>1. Typed'
      BY <1>2, <1>s, <2>2, GotoFacts DEF MatchProbe, Typed, Steps
    <3>2. Placed'
      BY <1>2, <1>s, <2>0, <2>2, GotoFacts, PlacedOfOne DEF MatchProbe, Placed, PreSteps
    <3> QED
      BY <3>1, <3>2
  <2> QED
    BY <1>2, <2>1, <2>2 DEF MatchProbe
<1>e. ASSUME NEW k \in Calls, NEW p \in {"tool", "over"}, EndHook(k, p), exit' = exit,
             exit[k] = "pending" <=> p = "tool"
      PROVE  Placed'
  BY <1>e, <1>s, EndHookFacts, PlacedOfOne DEF Phases
<1>3. ASSUME NEW k \in Calls, MarkProbing(k) PROVE Typed' /\ Placed'
  <2>0. phase[k] = "pre" /\ exit[k] = "pending"
    BY <1>3 DEF MarkProbing, Placed, PreSteps
  <2>1. probes' \in Seq(Probe)
    BY <1>3 DEF MarkProbing, Typed
  <2>2. Typed'
    BY <1>3, <2>1, EndHookFacts DEF MarkProbing, Typed, Steps, Phases
  <2>3. Placed'
    BY <1>3, <1>e, <2>0 DEF MarkProbing
  <2> QED
    BY <2>2, <2>3
<1>4. ASSUME NEW k \in Calls, Inject(k) PROVE Typed' /\ Placed'
  <2>0. phase[k] = "pre" /\ exit[k] = "pending"
    BY <1>4 DEF Inject, Placed, PreSteps
  <2>1. asked[k] \in Command /\ Prefixed(asked[k]) \in Command
    BY PrefixedType DEF Typed
  <2>2. ran' \in [Calls -> Command]
    BY <1>4, <2>1 DEF Inject, Typed
  <2>3. Typed'
    BY <1>4, <2>2, EndHookFacts DEF Inject, Typed, Steps, Phases
  <2>4. Placed'
    BY <1>4, <1>e, <2>0 DEF Inject
  <2> QED
    BY <2>3, <2>4
<1>5. ASSUME NEW k \in Calls, ToolEnds(k) PROVE Typed' /\ Placed'
  <2>1. PICK e \in Exits \ {"pending"} : exit' = [exit EXCEPT ![k] = e]
    BY <1>5 DEF ToolEnds
  <2>2. /\ exit' \in [Calls -> Exits]
        /\ exit'[k] # "pending"
        /\ \A j \in Calls \ {k} : exit'[j] = exit[j]
    BY <2>1 DEF Typed
  <2>3. CASE /\ phase' = [phase EXCEPT ![k] = "post"]
             /\ step' = [step EXCEPT ![k] = "resolve"]
             /\ UNCHANGED <<local, skipped>>
    <3>1. /\ phase' \in [Calls -> Phases] /\ phase'[k] = "post"
          /\ \A j \in Calls \ {k} : phase'[j] = phase[j]
      BY <2>3 DEF Typed, Phases
    <3>2. /\ step' \in [Calls -> Steps] /\ step'[k] = "resolve"
          /\ \A j \in Calls \ {k} : step'[j] = step[j]
      BY <1>s, <2>3 DEF Typed, Steps
    <3>3. Typed'
      BY <1>5, <2>2, <2>3, <3>1, <3>2 DEF ToolEnds, Typed, Steps
    <3>4. Placed'
      BY <2>2, <3>1, <3>2, PlacedOfOne DEF PreSteps, PostSteps
    <3> QED
      BY <3>3, <3>4
  <2>4. CASE EndHook(k, "over") /\ Skip(k)
    <3>1. Typed'
      BY <1>5, <2>2, <2>4, EndHookFacts DEF ToolEnds, Skip, Typed, Steps, Phases
    <3>2. /\ phase'[k] = "over" /\ step'[k] = "none"
          /\ \A j \in Calls \ {k} : phase'[j] = phase[j] /\ step'[j] = step[j]
      BY <2>4, EndHookFacts DEF Phases
    <3>3. Placed'
      BY <2>2, <3>2, PlacedOfOne DEF PreSteps, PostSteps
    <3> QED
      BY <3>1, <3>3
  <2> QED
    BY <1>5, <2>3, <2>4 DEF ToolEnds
<1>p. ASSUME NEW k \in Calls, step[k] \in PostSteps
      PROVE  phase[k] = "post" /\ exit[k] # "pending"
  BY <1>p DEF Placed
<1>g. ASSUME NEW k \in Calls, step[k] \in PostSteps, NEW s \in PostSteps, Goto(k, s), exit' = exit
      PROVE  Placed' /\ phase' = phase /\ step' \in [Calls -> Steps]
  <2>1. s \in Steps /\ s \notin PreSteps
    BY <1>s DEF Steps
  <2>2. phase[k] = "post" /\ exit[k] # "pending"
    BY <1>g, <1>p
  <2>3. /\ phase' = phase /\ step' \in [Calls -> Steps] /\ step'[k] = s
        /\ \A j \in Calls \ {k} : step'[j] = step[j]
    BY <1>g, <2>1, GotoFacts
  <2> QED
    BY <1>g, <2>1, <2>2, <2>3, PlacedOfOne
<1>o. ASSUME NEW k \in Calls, step[k] \in PostSteps, EndHook(k, "over"), exit' = exit
      PROVE  /\ Placed' /\ phase' \in [Calls -> Phases] /\ step' \in [Calls -> Steps]
             /\ held' \in [Calls -> Seq(Probe)] /\ counted' \in [Calls -> Stats]
             /\ probe' \in [Calls -> Probe \cup {None}]
  BY <1>o, <1>e, <1>p, EndHookFacts DEF Phases
<1>6. ASSUME NEW k \in Calls, Resolve(k) PROVE Typed' /\ Placed'
  <2> DEFINE is == Retries("probing", ran[k])
  <2>0. step[k] \in PostSteps /\ exit' = exit
    BY <1>6 DEF Resolve, PostSteps
  <2>1. CASE /\ is # {}
             /\ probe' = [probe EXCEPT ![k] = probes[First(is)]]
             /\ held' = [held EXCEPT ![k] = RemoveAt(probes, First(is))]
             /\ Goto(k, "readstats")
             /\ UNCHANGED counted
    <3>1. First(is) \in DOMAIN probes /\ probes[First(is)] \in Probe
      BY <2>1, RetriesFacts
    <3> HIDE DEF is
    <3>2. RemoveAt(probes, First(is)) \in Seq(Probe)
      BY <3>1, RemoveAtFacts DEF Typed
    <3>3. probe' \in [Calls -> Probe \cup {None}]
      BY <2>1, <3>1 DEF Typed
    <3>4. held' \in [Calls -> Seq(Probe)]
      BY <2>1, <3>2 DEF Typed
    <3>5. Placed' /\ phase' = phase /\ step' \in [Calls -> Steps]
      BY <1>g, <2>0, <2>1 DEF PostSteps
    <3> QED
      BY <1>6, <2>1, <3>3, <3>4, <3>5 DEF Resolve, Typed, Steps
  <2>2. CASE Goto(k, "initiate") /\ UNCHANGED local
    <3>1. Placed' /\ phase' = phase /\ step' \in [Calls -> Steps]
      BY <1>g, <2>0, <2>2 DEF PostSteps
    <3> QED
      BY <1>6, <2>2, <3>1 DEF Resolve, Typed, Steps
  <2>3. CASE EndHook(k, "over")
    BY <1>6, <1>o, <2>0, <2>3 DEF Resolve, Typed, Steps
  <2> QED
    BY <1>6, <2>1, <2>2, <2>3 DEF Resolve
<1>7. ASSUME NEW k \in Calls, Initiate(k) PROVE Typed' /\ Placed'
  <2>0. step[k] \in PostSteps /\ exit' = exit
    BY <1>7 DEF Initiate, PostSteps
  <2>1. CASE /\ held' = [held EXCEPT ![k] =
                    Append(probes, [original |-> ran[k], state |-> "pending"])]
             /\ Goto(k, "write")
             /\ UNCHANGED <<counted, probe>>
    <3>1. [original |-> ran[k], state |-> "pending"] \in Probe
      BY DEF Typed, Probe
    <3>2. held' \in [Calls -> Seq(Probe)]
      BY <2>1, <3>1 DEF Typed
    <3>3. Placed' /\ phase' = phase /\ step' \in [Calls -> Steps]
      BY <1>g, <2>0, <2>1 DEF PostSteps
    <3> QED
      BY <1>7, <2>1, <3>2, <3>3 DEF Initiate, Typed, Steps
  <2>2. CASE EndHook(k, "over")
    BY <1>7, <1>o, <2>0, <2>2 DEF Initiate, Typed, Steps
  <2> QED
    BY <1>7, <2>1, <2>2 DEF Initiate
<1>8. ASSUME NEW k \in Calls, ReadStats(k) PROVE Typed' /\ Placed'
  <2>0. step[k] \in PostSteps /\ exit' = exit
    BY <1>8 DEF ReadStats, PostSteps
  <2>1. counted' \in [Calls -> Stats]
    BY <1>8 DEF ReadStats, Typed
  <2>2. Placed' /\ phase' = phase /\ step' \in [Calls -> Steps]
    BY <1>8, <1>g, <2>0 DEF ReadStats, PostSteps
  <2> QED
    BY <1>8, <2>1, <2>2 DEF ReadStats, Typed, Steps
<1>9. ASSUME NEW k \in Calls, Confirm(k) PROVE Typed' /\ Placed'
  <2>1. Placed' /\ phase' = phase /\ step' \in [Calls -> Steps]
    BY <1>9, <1>g DEF Confirm, PostSteps
  <2> QED
    BY <1>9, <2>1 DEF Confirm, Typed, Steps
<1>10. ASSUME NEW k \in Calls, WriteProbes(k) PROVE Typed' /\ Placed'
  <2>1. probes' \in Seq(Probe)
    BY <1>10 DEF WriteProbes, Typed
  <2>2. Placed' /\ phase' = phase /\ step' \in [Calls -> Steps]
    BY <1>10, <1>g DEF WriteProbes, PostSteps
  <2> QED
    BY <1>10, <2>1, <2>2 DEF WriteProbes, Typed, Steps
<1>11. ASSUME NEW k \in Calls, SaveStats(k) PROVE Typed' /\ Placed'
  <2>0. step[k] \in PostSteps /\ exit' = exit /\ EndHook(k, "over")
    BY <1>11 DEF SaveStats, PostSteps
  <2>1. stats' \in Stats
    <3>1. counted[k] \in Stats
      BY DEF Typed
    <3>2. /\ [counted[k] EXCEPT !.initiated = @ + 1] \in Stats
          /\ [counted[k] EXCEPT !.exhausted = @ + 1] \in Stats
          /\ [counted[k] EXCEPT !.confirmed = @ + 1] \in Stats
      BY <3>1 DEF Stats
    <3> QED
      BY <1>11, <3>2 DEF SaveStats
  <2> QED
    BY <1>11, <1>o, <2>0, <2>1 DEF SaveStats, Typed, Steps
<1>12. ASSUME NEW k \in Calls, WriteFails(k) PROVE Typed' /\ Placed'
  <2>0. exit' = exit /\ skipped' \subseteq Calls /\ Cardinality(skipped') <= MaxSkipped
    BY <1>12 DEF WriteFails, Skip, Typed
  <2>1. CASE step[k] = "mark" /\ EndHook(k, "tool")
    <3>1. phase[k] = "pre" /\ exit[k] = "pending"
      BY <2>1 DEF Placed, PreSteps
    <3>2. Placed'
      BY <1>e, <2>0, <2>1, <3>1
    <3> QED
      BY <1>12, <2>0, <2>1, <3>2, EndHookFacts DEF WriteFails, Typed, Steps, Phases
  <2>2. CASE step[k] = "savestats" /\ EndHook(k, "over")
    <3>1. step[k] \in PostSteps
      BY <2>2 DEF PostSteps
    <3> QED
      BY <1>12, <1>o, <2>0, <2>2, <3>1 DEF WriteFails, Typed, Steps
  <2>3. CASE /\ step[k] \in {"confirm", "write"}
             /\ \E s \in PostSteps : Goto(k, s)
             /\ UNCHANGED local
    <3>1. Placed' /\ phase' = phase /\ step' \in [Calls -> Steps]
      BY <1>g, <2>0, <2>3 DEF PostSteps
    <3> QED
      BY <1>12, <2>0, <2>3, <3>1 DEF WriteFails, Typed, Steps
  <2> QED
    BY <1>12, <2>1, <2>2, <2>3 DEF WriteFails, PostSteps
<1>13. ASSUME NEW k \in Calls, Crash(k) PROVE Typed' /\ Placed'
  <2>0. exit' = exit /\ skipped' \subseteq Calls /\ Cardinality(skipped') <= MaxSkipped
    BY <1>13 DEF Crash, Skip, Typed
  <2>1. PICK p \in {"tool", "over"} : EndHook(k, p) /\ (p = "tool" <=> phase[k] = "pre")
    BY <1>13 DEF Crash
  <2>2. exit[k] = "pending" <=> p = "tool"
    BY <1>13, <2>1 DEF Crash, HookRunning, Placed
  <2>3. Placed'
    BY <1>e, <2>0, <2>1, <2>2
  <2> QED
    BY <1>13, <2>0, <2>1, <2>3, EndHookFacts DEF Crash, Typed, Steps, Phases
<1>14. ASSUME NEW key \in Learnable, RemoveMapping(key) PROVE Typed' /\ Placed'
  BY <1>14 DEF RemoveMapping, call, local, Typed, Placed
<1>15. CASE UNCHANGED vars
  BY <1>15 DEF vars, Typed, Placed
<1> QED
  BY <1>1, <1>2, <1>3, <1>4, <1>5, <1>6, <1>7, <1>8, <1>9, <1>10, <1>11, <1>12, <1>13, <1>14,
     <1>15
  DEF Next, AllOver

-----------------------------------------------------------------------------
(* What is learnt *)

\* Commands that may get a prefix and were seen to fail.
Blamed ==
    {c \in Command : IsPlausible(c) /\ \E b \in Calls : ran[b] = c /\ exit[b] = "failure"}

\* MappingJustified, of one key.
Justified(key) ==
    \E b, r \in Calls :
        /\ KeyOf(ran[b]) = key /\ exit[b] = "failure"
        /\ ran[r] = Prefixed(ran[b]) /\ exit[r] \in {"zero", "unknown"}

\* What the process of k is about to do rests on failures that were seen.
Resting(k) ==
    /\ Clean(held[k], Blamed)
    /\ step[k] = "initiate" => ran[k] \in Blamed
    /\ probe[k] # None => /\ probe[k].original \in Blamed
                          /\ ran[k] = Prefixed(probe[k].original)
                          /\ step[k] \in PostSteps
    /\ step[k] = "confirm" => probe[k] # None /\ exit[k] # "failure"

\* Every list of probes anywhere, in the file or about to be written, is clean,
\* and every mapping justified.
LearnInv ==
    /\ Clean(probes, Blamed)
    /\ \A k \in Calls : Resting(k)
    /\ \A key \in mappings : key \in Learnable /\ Justified(key)

\* What ran and how it ended are settled with the end: nobody's step changes them.
LEMMA Settled ==
    ASSUME Typed, Placed, [Next]_vars, NEW j \in Calls, exit[j] # "pending"
    PROVE  exit'[j] = exit[j] /\ ran'[j] = ran[j]
<1> USE DEF files, call, local
<1>0. phase[j] \notin {"idle", "pre", "tool"}
  BY DEF Placed
<1>1. ASSUME NEW k \in Calls, Inject(k) PROVE exit'[j] = exit[j] /\ ran'[j] = ran[j]
  <2>1. phase[k] = "pre"
    BY <1>1 DEF Inject, Placed, PreSteps
  <2> QED
    BY <1>0, <1>1, <2>1 DEF Inject, Typed
<1>2. ASSUME NEW k \in Calls, ToolEnds(k) PROVE exit'[j] = exit[j] /\ ran'[j] = ran[j]
  BY <1>0, <1>2 DEF ToolEnds, Typed
<1>3. ASSUME NEW k \in Calls,
             \/ StartPre(k) \/ MatchProbe(k) \/ MarkProbing(k) \/ Resolve(k) \/ Initiate(k)
             \/ ReadStats(k) \/ Confirm(k) \/ WriteProbes(k) \/ SaveStats(k)
             \/ WriteFails(k) \/ Crash(k)
      PROVE  exit' = exit /\ ran' = ran
  BY <1>3 DEF StartPre, MatchProbe, MarkProbing, Resolve, Initiate, ReadStats, Confirm,
              WriteProbes, SaveStats, WriteFails, Crash
<1>4. ASSUME NEW key \in Learnable, RemoveMapping(key) PROVE exit' = exit /\ ran' = ran
  BY <1>4 DEF RemoveMapping
<1>5. CASE UNCHANGED vars
  BY <1>5 DEF vars
<1> QED
  BY <1>1, <1>2, <1>3, <1>4, <1>5 DEF Next, AllOver

\* So a command that is to blame stays so, and what was justified stays so.
LEMMA EvidenceStays ==
    ASSUME Typed, Placed, [Next]_vars
    PROVE  /\ Blamed \subseteq Blamed'
           /\ \A key : Justified(key) => Justified(key)'
<1>1. ASSUME NEW c \in Blamed PROVE c \in Blamed'
  <2>1. PICK b \in Calls : ran[b] = c /\ exit[b] = "failure"
    BY DEF Blamed
  <2>2. ran'[b] = c /\ exit'[b] = "failure"
    BY <2>1, Settled
  <2> QED
    BY <2>2 DEF Blamed, IsPlausible, KeyOf
<1>2. ASSUME NEW key, Justified(key) PROVE Justified(key)'
  <2>1. PICK b, r \in Calls :
           /\ KeyOf(ran[b]) = key /\ exit[b] = "failure"
           /\ ran[r] = Prefixed(ran[b]) /\ exit[r] \in {"zero", "unknown"}
    BY <1>2 DEF Justified
  <2>2. ran'[b] = ran[b] /\ exit'[b] = exit[b] /\ ran'[r] = ran[r] /\ exit'[r] = exit[r]
    BY <2>1, Settled
  <2> QED
    BY <2>1, <2>2 DEF Justified
<1> QED
  BY <1>1, <1>2

\* A process that a step leaves alone keeps resting on what it rests on.
LEMMA RestingStays ==
    ASSUME Typed, Placed, [Next]_vars, NEW j \in Calls, Resting(j),
           held'[j] = held[j], step'[j] = step[j], probe'[j] = probe[j]
    PROVE  Resting(j)'
<1>1. Blamed \subseteq Blamed'
  BY EvidenceStays
<1>2. Clean(held'[j], Blamed')
  BY <1>1, CleanMonotone DEF Resting
<1>3. step[j] \in PostSteps => ran'[j] = ran[j] /\ exit'[j] = exit[j]
  BY Settled DEF Placed
<1> QED
  BY <1>1, <1>2, <1>3 DEF Resting, PostSteps

\* A step of k keeps the invariant when it does so in the file, in the memory of
\* k and in the mappings.
LEMMA LearnOfOne ==
    ASSUME Typed, Placed, [Next]_vars, LearnInv, NEW k \in Calls,
           \A j \in Calls \ {k} :
               held'[j] = held[j] /\ step'[j] = step[j] /\ probe'[j] = probe[j],
           Clean(probes', Blamed'),
           Resting(k)',
           \A key \in mappings' \ mappings : key \in Learnable /\ Justified(key)'
    PROVE  LearnInv'
<1>1. \A j \in Calls : Resting(j)'
  BY RestingStays DEF LearnInv
<1>2. \A key \in mappings' : key \in Learnable /\ Justified(key)'
  BY EvidenceStays DEF LearnInv
<1> QED
  BY <1>1, <1>2 DEF LearnInv

\* A process that ended rests on nothing.
LEMMA EndedRests ==
    ASSUME NEW k \in Calls, held'[k] = <<>>, probe'[k] = None, step'[k] = "none"
    PROVE  Resting(k)'
BY EmptyClean DEF Resting

\* The first state has nothing to justify.
LEMMA LearnInit == Init => LearnInv
BY EmptyClean DEF Init, LearnInv, Resting

\* Every step keeps the invariant: what it writes comes from a list that was
\* clean when it was read, and evidence does not go away.
LEMMA LearnNext == Typed /\ Placed /\ LearnInv /\ [Next]_vars => LearnInv'
<1> SUFFICES ASSUME Typed, Placed, LearnInv, [Next]_vars PROVE LearnInv'
  OBVIOUS
<1> USE DEF files, call, local
<1>a. Blamed \subseteq Blamed'
  BY EvidenceStays
<1>b. Clean(probes, Blamed') /\ \A k \in Calls : Clean(held[k], Blamed')
  BY <1>a, CleanMonotone DEF LearnInv, Resting
<1>e. ASSUME NEW k \in Calls, NEW p \in Phases, EndHook(k, p),
             Clean(probes', Blamed'), mappings' = mappings
      PROVE  LearnInv'
  BY <1>e, EndHookFacts, EndedRests, LearnOfOne
<1>g. ASSUME NEW k \in Calls, NEW s \in Steps, Goto(k, s),
             \A j \in Calls \ {k} : held'[j] = held[j] /\ probe'[j] = probe[j],
             Clean(probes', Blamed'), Resting(k)', mappings' = mappings
      PROVE  LearnInv'
  BY <1>g, GotoFacts, LearnOfOne
<1>r. \A k \in Calls : Resting(k)
  BY DEF LearnInv
<1>1. ASSUME NEW k \in Calls, StartPre(k) PROVE LearnInv'
  <2>1. step'[k] = "match" /\ \A j \in Calls \ {k} : step'[j] = step[j]
    BY <1>1 DEF StartPre, Typed
  <2>2. phase[k] = "idle"
    BY <1>1 DEF StartPre
  <2>3. probe[k] = None
    BY <1>r, <2>2 DEF Resting, Placed
  <2>4. held' = held /\ probe' = probe /\ probes' = probes /\ mappings' = mappings
    BY <1>1 DEF StartPre
  <2>5. Resting(k)'
    BY <1>b, <2>1, <2>3, <2>4 DEF Resting
  <2> QED
    BY <1>b, <2>1, <2>4, <2>5, LearnOfOne
<1>m. ASSUME NEW k \in Calls, step[k] \in PreSteps PROVE probe[k] = None
  BY <1>m, <1>r DEF Resting, PreSteps, PostSteps
<1>2. ASSUME NEW k \in Calls, MatchProbe(k) PROVE LearnInv'
  <2> DEFINE is == Retries("pending", asked[k])
  <2>0. /\ probes' = probes /\ mappings' = mappings /\ probe' = probe
        /\ step[k] \in PreSteps
    BY <1>2 DEF MatchProbe, PreSteps
  <2>1. probe'[k] = None
    BY <1>m, <2>0
  <2>2. CASE is # {} /\ held' = [held EXCEPT ![k] = [probes EXCEPT ![First(is)].state = "probing"]]
             /\ Goto(k, "mark")
    <3>1. First(is) \in DOMAIN probes
      BY <2>2, RetriesFacts
    <3> HIDE DEF is
    <3>2. Clean(Marked(probes, First(is)), Blamed')
      BY <1>b, <3>1, MarkedClean
    <3>3. held'[k] = Marked(probes, First(is)) /\ \A j \in Calls \ {k} : held'[j] = held[j]
      BY <2>2 DEF Marked, Typed
    <3>4. "mark" \in Steps /\ step'[k] = "mark"
      BY <2>2, GotoFacts DEF Steps, PreSteps
    <3>5. Resting(k)'
      BY <2>1, <3>2, <3>3, <3>4 DEF Resting
    <3> QED
      BY <1>b, <1>g, <2>0, <2>2, <3>3, <3>4, <3>5
  <2>3. CASE Goto(k, "inject") /\ UNCHANGED held
    <3>1. "inject" \in Steps /\ step'[k] = "inject"
      BY <2>3, GotoFacts DEF Steps, PreSteps
    <3>2. Resting(k)'
      BY <1>b, <2>1, <2>3, <3>1 DEF Resting
    <3> QED
      BY <1>b, <1>g, <2>0, <2>3, <3>1, <3>2
  <2> QED
    BY <1>2, <2>2, <2>3 DEF MatchProbe
<1>3. ASSUME NEW k \in Calls, MarkProbing(k) PROVE LearnInv'
  BY <1>3, <1>b, <1>e DEF MarkProbing, Phases
<1>4. ASSUME NEW k \in Calls, Inject(k) PROVE LearnInv'
  BY <1>4, <1>b, <1>e DEF Inject, Phases
<1>5. ASSUME NEW k \in Calls, ToolEnds(k) PROVE LearnInv'
  <2>0. probes' = probes /\ mappings' = mappings
    BY <1>5 DEF ToolEnds
  <2>1. CASE /\ step' = [step EXCEPT ![k] = "resolve"]
             /\ UNCHANGED <<local, skipped>>
    <3>1. step'[k] = "resolve" /\ \A j \in Calls \ {k} : step'[j] = step[j]
      BY <2>1 DEF Typed
    <3>2. phase[k] = "tool"
      BY <1>5 DEF ToolEnds
    <3>3. probe[k] = None
      BY <1>r, <3>2 DEF Resting, Placed
    <3>4. Resting(k)'
      BY <1>b, <2>1, <3>1, <3>3 DEF Resting
    <3> QED
      BY <1>b, <2>0, <2>1, <3>1, <3>4, LearnOfOne
  <2>2. CASE EndHook(k, "over")
    BY <1>b, <1>e, <2>0, <2>2 DEF Phases
  <2> QED
    BY <1>5, <2>1, <2>2 DEF ToolEnds
<1>p. ASSUME NEW k \in Calls, step[k] \in PostSteps
      PROVE  ran'[k] = ran[k] /\ exit'[k] = exit[k] /\ exit[k] # "pending"
  BY <1>p, Settled DEF Placed
<1>6. ASSUME NEW k \in Calls, Resolve(k) PROVE LearnInv'
  <2> DEFINE is == Retries("probing", ran[k])
  <2>0. /\ probes' = probes /\ mappings' = mappings /\ step[k] = "resolve"
        /\ ran' = ran /\ exit' = exit
    BY <1>6 DEF Resolve
  <2>1. CASE /\ is # {}
             /\ probe' = [probe EXCEPT ![k] = probes[First(is)]]
             /\ held' = [held EXCEPT ![k] = RemoveAt(probes, First(is))]
             /\ Goto(k, "readstats")
    <3>1. First(is) \in DOMAIN probes /\ IsRetryOf(probes[First(is)], "probing", ran[k])
      BY <2>1, RetriesFacts
    <3> HIDE DEF is
    <3>2. Clean(RemoveAt(probes, First(is)), Blamed')
      BY <1>b, <3>1, RemovedClean
    <3>3. /\ held'[k] = RemoveAt(probes, First(is))
          /\ probe'[k] = probes[First(is)]
          /\ \A j \in Calls \ {k} : held'[j] = held[j] /\ probe'[j] = probe[j]
      BY <2>1 DEF Typed
    <3>4. probes[First(is)].original \in Blamed'
      BY <1>b, <3>1 DEF Clean
    <3>5. "readstats" \in Steps /\ step'[k] = "readstats"
      BY <2>1, GotoFacts DEF Steps, PostSteps
    <3>6. ran'[k] = Prefixed(probe'[k].original)
      BY <2>0, <3>1, <3>3 DEF IsRetryOf
    <3>7. Resting(k)'
      BY <3>2, <3>3, <3>4, <3>5, <3>6 DEF Resting, PostSteps
    <3> QED
      BY <1>b, <1>g, <2>0, <2>1, <3>3, <3>5, <3>7
  <2>2. CASE Failed(k) /\ IsPlausible(ran[k]) /\ Goto(k, "initiate") /\ UNCHANGED local
    <3>1. "initiate" \in Steps /\ step'[k] = "initiate"
      BY <2>2, GotoFacts DEF Steps, PostSteps
    <3>2. ran[k] \in Blamed
      BY <2>2 DEF Blamed, Failed, Typed
    <3>3. ran'[k] \in Blamed'
      BY <1>a, <2>0, <3>2
    <3>4. Resting(k)'
      BY <1>a, <1>b, <1>r, <2>0, <2>2, <3>1, <3>3 DEF Resting, PostSteps
    <3> QED
      BY <1>b, <1>g, <2>0, <2>2, <3>1, <3>4
  <2>3. CASE EndHook(k, "over")
    BY <1>b, <1>e, <2>0, <2>3 DEF Phases
  <2> QED
    BY <1>6, <2>1, <2>2, <2>3 DEF Resolve
<1>7. ASSUME NEW k \in Calls, Initiate(k) PROVE LearnInv'
  <2>0. /\ probes' = probes /\ mappings' = mappings /\ step[k] = "initiate"
        /\ ran' = ran /\ exit' = exit
    BY <1>7 DEF Initiate
  <2>1. CASE /\ \A i \in DOMAIN probes : probes[i].original # ran[k]
             /\ held' = [held EXCEPT ![k] =
                    Append(probes, [original |-> ran[k], state |-> "pending"])]
             /\ Goto(k, "write")
             /\ UNCHANGED <<counted, probe>>
    <3>1. ran[k] \in Blamed' /\ ran[k] \in Command
      BY <1>a, <1>r, <2>0 DEF Resting, Typed
    <3>2. Clean(Append(probes, [original |-> ran[k], state |-> "pending"]), Blamed')
      BY <1>b, <2>1, <3>1, AddedClean
    <3>3. /\ held'[k] = Append(probes, [original |-> ran[k], state |-> "pending"])
          /\ \A j \in Calls \ {k} : held'[j] = held[j]
      BY <2>1 DEF Typed
    <3>4. "write" \in Steps /\ step'[k] = "write"
      BY <2>1, GotoFacts DEF Steps, PostSteps
    <3>5. Resting(k)'
      BY <1>a, <1>r, <2>0, <2>1, <3>2, <3>3, <3>4 DEF Resting, PostSteps
    <3> QED
      BY <1>b, <1>g, <2>0, <2>1, <3>3, <3>4, <3>5
  <2>2. CASE EndHook(k, "over")
    BY <1>b, <1>e, <2>0, <2>2 DEF Phases
  <2> QED
    BY <1>7, <2>1, <2>2 DEF Initiate
<1>n. ASSUME NEW k \in Calls, step[k] \in PostSteps, NEW s \in PostSteps, Goto(k, s),
             s # "initiate", s = "confirm" => probe[k] # None /\ exit[k] # "failure",
             held' = held, probe' = probe
      PROVE  Resting(k)' /\ s \in Steps
  <2>1. s \in Steps /\ step'[k] = s
    BY <1>n, GotoFacts DEF Steps
  <2>2. ran'[k] = ran[k] /\ exit'[k] = exit[k]
    BY <1>n, <1>p
  <2> QED
    BY <1>a, <1>b, <1>n, <1>r, <2>1, <2>2 DEF Resting
<1>8. ASSUME NEW k \in Calls, ReadStats(k) PROVE LearnInv'
  <2>0. /\ probes' = probes /\ mappings' = mappings /\ held' = held /\ probe' = probe
        /\ step[k] \in PostSteps
    BY <1>8 DEF ReadStats, PostSteps
  <2>1. PICK s \in {"savestats", "write", "confirm"} :
           Goto(k, s) /\ (s = "confirm" => probe[k] # None /\ exit[k] # "failure")
    BY <1>8 DEF ReadStats, Resolving, Failed
  <2>2. Resting(k)' /\ s \in Steps
    BY <1>n, <2>0, <2>1 DEF PostSteps
  <2> QED
    BY <1>b, <1>g, <2>0, <2>1, <2>2
<1>9. ASSUME NEW k \in Calls, Confirm(k) PROVE LearnInv'
  <2>0. /\ probes' = probes /\ held' = held /\ probe' = probe
        /\ step[k] = "confirm" /\ step[k] \in PostSteps /\ Goto(k, "write")
        /\ mappings' = mappings \cup {KeyOf(probe[k].original)}
        /\ ran' = ran /\ exit' = exit
    BY <1>9 DEF Confirm, PostSteps
  <2>1. Resting(k)' /\ "write" \in Steps
    BY <1>n, <2>0 DEF PostSteps
  <2>2. /\ probe[k].original \in Blamed /\ ran[k] = Prefixed(probe[k].original)
        /\ exit[k] \in {"zero", "unknown"}
    BY <1>p, <1>r, <2>0 DEF Resting, Typed, Exits
  <2>3. PICK b \in Calls : ran[b] = probe[k].original /\ exit[b] = "failure"
    BY <2>2 DEF Blamed
  <2>4. KeyOf(probe[k].original) \in Learnable
    BY <2>2 DEF Blamed, IsPlausible
  <2>5. Justified(KeyOf(probe[k].original))'
    BY <2>0, <2>2, <2>3 DEF Justified
  <2>6. \A j \in Calls \ {k} : step'[j] = step[j]
    BY <2>0, <2>1, GotoFacts
  <2> QED
    BY <1>b, <2>0, <2>1, <2>4, <2>5, <2>6, LearnOfOne
<1>10. ASSUME NEW k \in Calls, WriteProbes(k) PROVE LearnInv'
  <2>0. /\ probes' = held[k] /\ mappings' = mappings /\ held' = held /\ probe' = probe
        /\ step[k] \in PostSteps
    BY <1>10 DEF WriteProbes, PostSteps
  <2>1. PICK s \in {"savestats", "readstats"} : Goto(k, s)
    BY <1>10 DEF WriteProbes
  <2>2. Resting(k)' /\ s \in Steps
    BY <1>n, <2>0, <2>1 DEF PostSteps
  <2> QED
    BY <1>b, <1>g, <2>0, <2>1, <2>2
<1>11. ASSUME NEW k \in Calls, SaveStats(k) PROVE LearnInv'
  BY <1>11, <1>b, <1>e DEF SaveStats, Phases
<1>12. ASSUME NEW k \in Calls, WriteFails(k) PROVE LearnInv'
  <2>0. probes' = probes /\ mappings' = mappings
    BY <1>12 DEF WriteFails
  <2>1. CASE \E p \in Phases : EndHook(k, p)
    BY <1>b, <1>e, <2>0, <2>1
  <2>2. CASE /\ step[k] \in PostSteps
             /\ \E s \in {"write", "savestats", "readstats"} : Goto(k, s)
             /\ UNCHANGED local
    <3>1. PICK s \in {"write", "savestats", "readstats"} : Goto(k, s)
      BY <2>2
    <3>2. Resting(k)' /\ s \in Steps
      BY <1>n, <2>2, <3>1 DEF PostSteps
    <3> QED
      BY <1>b, <1>g, <2>0, <2>2, <3>1, <3>2
  <2> QED
    BY <1>12, <2>1, <2>2 DEF WriteFails, Phases, PostSteps
<1>13. ASSUME NEW k \in Calls, Crash(k) PROVE LearnInv'
  BY <1>13, <1>b, <1>e DEF Crash, Phases
<1>14. ASSUME \/ \E key \in Learnable : RemoveMapping(key)
              \/ UNCHANGED vars
      PROVE  LearnInv'
  <2>1. /\ probes' = probes /\ held' = held /\ step' = step /\ probe' = probe
        /\ mappings' \subseteq mappings
    BY <1>14 DEF vars, RemoveMapping
  <2>2. \A j \in Calls : Resting(j)'
    BY <1>r, <2>1, RestingStays
  <2> QED
    BY <1>b, <2>1, <2>2, EvidenceStays DEF LearnInv
<1> QED
  BY <1>1, <1>2, <1>3, <1>4, <1>5, <1>6, <1>7, <1>8, <1>9, <1>10, <1>11, <1>12, <1>13, <1>14
  DEF Next, AllOver

-----------------------------------------------------------------------------
(* The theorems *)

LearningInv == Typed /\ Placed /\ LearnInv

LEMMA LearningAlways == Spec => []LearningInv
<1>1. Init => LearningInv
  BY TypeInit, LearnInit DEF LearningInv
<1>2. LearningInv /\ [Next]_vars => LearningInv'
  BY TypeNext, LearnNext DEF LearningInv
<1> QED
  BY <1>1, <1>2, PTL DEF Spec

\* Every variable keeps its type, every call has a hook process exactly at the
\* steps of its phase, and only keys that may get a prefix have one.
THEOREM TypeCorrect == Spec => []TypeOK
<1>1. LearningInv => TypeOK
  <2> SUFFICES ASSUME LearningInv PROVE TypeOK
    OBVIOUS
  <2>1. ASSUME NEW k \in Calls
        PROVE  step[k] \in CASE phase[k] = "pre"  -> {"match", "mark", "inject"}
                             [] phase[k] = "post" -> {"resolve", "initiate", "readstats",
                                                      "confirm", "write", "savestats"}
                             [] OTHER             -> {"none"}
    <3>1. CASE phase[k] = "pre"
      BY <3>1 DEF LearningInv, Placed, PreSteps
    <3>2. CASE phase[k] = "post"
      BY <3>2 DEF LearningInv, Placed, PostSteps
    <3>3. CASE phase[k] \notin {"pre", "post"}
      BY <3>3 DEF LearningInv, Typed, Placed
    <3> QED
      BY <3>1, <3>2, <3>3
  <2>2. mappings \subseteq Learnable
    BY DEF LearningInv, LearnInv
  <2>3. asked \in [Calls -> Command]
    BY DEF LearningInv, Typed
  <2> QED
    BY <2>1, <2>2, <2>3 DEF LearningInv, Typed, TypeOK, Phases
<1> QED
  BY <1>1, LearningAlways, PTL

\* However hooks overlap, lose updates, fail to write and die, the probe file has
\* no command twice.
THEOREM ProbesNeverDouble == Spec => []OneProbePerCommand
<1>1. LearningInv => OneProbePerCommand
  BY DEF LearningInv, LearnInv, Clean, Unique, OneProbePerCommand
<1> QED
  BY <1>1, LearningAlways, PTL

\* And a key has a confirmed prefix only when a command of that key was seen to
\* fail and its retry behind the prefix was not.
THEOREM MappingsJustified == Spec => []MappingJustified
<1>1. LearningInv => MappingJustified
  BY DEF LearningInv, LearnInv, Justified, MappingJustified
<1> QED
  BY <1>1, LearningAlways, PTL

-----------------------------------------------------------------------------
(* Without overlap: what a process is about to write *)

\* Before its command runs a call has changed nothing of it, nor let its end go
\* by; and it resolves a probe only from the moment it found it.
Ordered(k) ==
    /\ phase[k] \in {"idle", "pre"} => ran[k] = asked[k] /\ k \notin skipped
    /\ step[k] \in {"resolve", "initiate"} => ~Resolving(k)

Resolves(k) == Resolving(k) /\ step[k] \in {"readstats", "confirm", "write"}

\* The list a process will write is the one in the file, with its own change.
Draft(k) ==
    /\ step[k] = "mark" =>
          \E i \in Retries("pending", asked[k]) : held[k] = Marked(probes, i)
    /\ Resolves(k) =>
          \E i \in Retries("probing", ran[k]) : held[k] = RemoveAt(probes, i)
    /\ ~Resolving(k) /\ step[k] = "write" =>
          held[k] = Append(probes, [original |-> ran[k], state |-> "pending"])

SerialInv ==
    /\ \A k \in Calls : Ordered(k)
    /\ exclusive => /\ \A j, k \in Calls : HookRunning(j) /\ HookRunning(k) => j = k
                    /\ \A k \in Calls : Draft(k)

\* The initiated probes are d more than those resolved and those in the file.
Balanced(d) == stats.initiated = stats.confirmed + stats.exhausted + Len(probes) + d

\* A process that has written the probes but not yet the statistics is one off.
Off(k) ==
    IF step[k] = "savestats" /\ Resolving(k) THEN 1
    ELSE IF step[k] \in {"readstats", "savestats"} /\ ~Resolving(k) THEN -1
    ELSE 0

\* A process that has read the statistics, and will write them.
Knows(k) ==
    \/ step[k] \in {"confirm", "savestats"}
    \/ step[k] = "write" /\ Resolving(k)

Accounted(k) == Balanced(Off(k)) /\ (Knows(k) => counted[k] = stats)

AccountInv ==
    Undisturbed => /\ (\A k \in Calls : ~HookRunning(k)) => Balanced(0)
                   /\ \A k \in Calls : HookRunning(k) => Accounted(k)

\* The end of k's command will resolve the probe that it retries.
Carries(k) == phase[k] = "tool" \/ step[k] = "resolve" \/ Resolves(k)

HasRetry(p) ==
    \E k \in Calls : ran[k] = Prefixed(p.original) /\ (Carries(k) \/ k \in skipped)

RetryInv ==
    exclusive => \A i \in DOMAIN probes : probes[i].state = "probing" => HasRetry(probes[i])

LEMMA SerialInit == Init => SerialInv /\ AccountInv /\ RetryInv
<1> SUFFICES ASSUME Init PROVE SerialInv /\ AccountInv /\ RetryInv
  OBVIOUS
<1>1. \A k \in Calls : ~HookRunning(k) /\ step[k] = "none" /\ probe[k] = None
  BY DEF Init, HookRunning
<1>2. SerialInv
  BY <1>1 DEF Init, SerialInv, Ordered, Draft, Resolves, HookRunning
<1>3. Balanced(0)
  BY DEF Init, Balanced, NoStats
<1> QED
  BY <1>1, <1>2, <1>3 DEF Init, AccountInv, RetryInv

\* A step of k's hook process, or the one that starts it.
Moves(k) ==
    \/ StartPre(k) \/ MatchProbe(k) \/ MarkProbing(k) \/ Inject(k)
    \/ ToolEnds(k) \/ Resolve(k) \/ Initiate(k) \/ ReadStats(k) \/ Confirm(k)
    \/ WriteProbes(k) \/ SaveStats(k) \/ WriteFails(k) \/ Crash(k)

\* Every other call stays where it is.
LEMMA OthersStay ==
    ASSUME Typed, NEW k \in Calls, Moves(k)
    PROVE  /\ exclusive' = exclusive /\ skipped \subseteq skipped' /\ asked' = asked
           /\ \A j \in Calls \ {k} :
                 /\ phase'[j] = phase[j] /\ step'[j] = step[j]
                 /\ held'[j] = held[j] /\ probe'[j] = probe[j]
                 /\ counted'[j] = counted[j] /\ ran'[j] = ran[j]
                 /\ (j \in skipped') = (j \in skipped)
<1> USE DEF files, call, local, EndHook, Goto, Skip, Typed
<1>1. CASE StartPre(k) \/ MatchProbe(k) \/ MarkProbing(k) \/ Inject(k)
  BY <1>1 DEF StartPre, MatchProbe, MarkProbing, Inject
<1>2. CASE ToolEnds(k)
  BY <1>2 DEF ToolEnds
<1>3. CASE Resolve(k) \/ Initiate(k) \/ ReadStats(k)
  BY <1>3 DEF Resolve, Initiate, ReadStats
<1>4. CASE Confirm(k) \/ WriteProbes(k) \/ SaveStats(k)
  BY <1>4 DEF Confirm, WriteProbes, SaveStats
<1>5. CASE WriteFails(k) \/ Crash(k)
  BY <1>5 DEF WriteFails, Crash
<1> QED
  BY <1>1, <1>2, <1>3, <1>4, <1>5 DEF Moves

\* The calls stay in order.
LEMMA OrderedNext ==
    ASSUME Typed, Placed, LearnInv, NEW k \in Calls, Ordered(k), Moves(k)
    PROVE  Ordered(k)'
<1> USE DEF files, call, local, Goto, Typed, Resolving
<1>0. phase[k] # "post" => probe[k] = None
  BY DEF LearnInv, Resting, Placed
<1>1. CASE StartPre(k) \/ MatchProbe(k)
  BY <1>1 DEF StartPre, MatchProbe, Ordered, Placed, PreSteps
<1>e. ASSUME NEW p \in {"tool", "over"}, EndHook(k, p) PROVE Ordered(k)'
  BY <1>e, EndHookFacts DEF Ordered, Phases
<1>2. CASE MarkProbing(k) \/ Inject(k) \/ SaveStats(k) \/ Crash(k)
  BY <1>2, <1>e DEF MarkProbing, Inject, SaveStats, Crash
<1>3. CASE ToolEnds(k)
  BY <1>3, <1>0, <1>e DEF ToolEnds, Ordered
<1>4. CASE Resolve(k)
  BY <1>4, <1>e DEF Resolve, Ordered, Placed, PostSteps
<1>5. CASE Initiate(k)
  BY <1>5, <1>e DEF Initiate, Ordered, Placed, PostSteps
<1>6. CASE ReadStats(k) \/ Confirm(k) \/ WriteProbes(k)
  BY <1>6 DEF ReadStats, Confirm, WriteProbes, Ordered, Placed, PostSteps
<1>7. CASE WriteFails(k)
  BY <1>7, <1>e DEF WriteFails, Ordered, Placed, PostSteps
<1> QED
  BY <1>1, <1>2, <1>3, <1>4, <1>5, <1>6, <1>7 DEF Moves

\* While hooks do not overlap, the process that moves is the only one.
LEMMA OnlyOneMoves ==
    ASSUME Typed, Placed, SerialInv, exclusive, NEW k \in Calls, Moves(k)
    PROVE  \A j \in Calls \ {k} : step[j] = "none" /\ step'[j] = "none"
<1>1. \A j \in Calls : HookRunning(j) <=> step[j] # "none"
  BY DEF Typed, Placed, HookRunning, PreSteps, PostSteps
<1>2. HookRunning(k) \/ \A j \in Calls : ~HookRunning(j)
  <2>1. CASE StartPre(k) \/ ToolEnds(k)
    BY <2>1 DEF StartPre, ToolEnds, MayStartHook
  <2>2. CASE ~(StartPre(k) \/ ToolEnds(k))
    <3>1. step[k] # "none"
      BY <1>1, <2>2 DEF Moves, MatchProbe, MarkProbing, Inject, Resolve, Initiate, ReadStats,
                        Confirm, WriteProbes, SaveStats, WriteFails, Crash
    <3> QED
      BY <1>1, <3>1
  <2> QED
    BY <2>1, <2>2
<1>3. \A j \in Calls \ {k} : step[j] = "none"
  BY <1>1, <1>2 DEF SerialInv
<1> QED
  BY <1>3, OthersStay

\* What a step of k has to show.
LEMMA SerialOfOne ==
    ASSUME Typed, Placed, Typed', Placed', LearnInv, SerialInv, exclusive,
           NEW k \in Calls, Moves(k), Draft(k)'
    PROVE  SerialInv'
<1>1. \A j \in Calls \ {k} : step'[j] = "none"
  BY OnlyOneMoves
<1>2. \A j \in Calls : HookRunning(j)' <=> step'[j] # "none"
  BY DEF Typed, Placed, HookRunning, PreSteps, PostSteps
<1>3. \A j \in Calls : Draft(j)'
  BY <1>1 DEF Draft, Resolves
<1>4. \A j \in Calls \ {k} : Ordered(j)'
  BY OthersStay DEF SerialInv, Ordered, Resolving
<1>5. Ordered(k)'
  BY OrderedNext DEF SerialInv
<1> QED
  BY <1>1, <1>2, <1>3, <1>4, <1>5 DEF SerialInv

LEMMA AccountOfOne ==
    ASSUME Typed, Placed, Typed', Placed', SerialInv, exclusive,
           NEW k \in Calls, Moves(k),
           skipped' = {} => IF step'[k] = "none" THEN Balanced(0)' ELSE Accounted(k)'
    PROVE  AccountInv'
<1>1. \A j \in Calls \ {k} : step'[j] = "none"
  BY OnlyOneMoves
<1>2. \A j \in Calls : HookRunning(j)' <=> step'[j] # "none"
  BY DEF Typed, Placed, HookRunning, PreSteps, PostSteps
<1> QED
  BY <1>1, <1>2 DEF AccountInv, Undisturbed

\* A probe keeps its retry unless that was k, which no longer carries it.
LEMMA RetryStays ==
    ASSUME Typed, NEW k \in Calls, Moves(k), NEW p, HasRetry(p),
           \/ ran[k] # Prefixed(p.original)
           \/ ~Carries(k) /\ k \notin skipped
           \/ ran'[k] = ran[k] /\ (Carries(k)' \/ k \in skipped')
    PROVE  HasRetry(p)'
<1>1. PICK h \in Calls : ran[h] = Prefixed(p.original) /\ (Carries(h) \/ h \in skipped)
  BY DEF HasRetry
<1>2. CASE h = k
  BY <1>1, <1>2 DEF HasRetry
<1>3. CASE h # k
  BY <1>1, <1>3, OthersStay DEF HasRetry, Carries, Resolves, Resolving
<1> QED
  BY <1>2, <1>3

\* A step that leaves the probe file alone.
LEMMA RetryOfOne ==
    ASSUME Typed, exclusive, RetryInv, NEW k \in Calls, Moves(k), probes' = probes,
           \/ Retries("probing", ran[k]) = {}
           \/ ~Carries(k) /\ k \notin skipped
           \/ ran'[k] = ran[k] /\ (Carries(k)' \/ k \in skipped')
    PROVE  RetryInv'
<1> SUFFICES ASSUME NEW i \in DOMAIN probes, probes[i].state = "probing"
             PROVE  HasRetry(probes[i])'
  BY DEF RetryInv, HasRetry
<1>1. HasRetry(probes[i])
  BY DEF RetryInv
<1>2. Retries("probing", ran[k]) = {} => ran[k] # Prefixed(probes[i].original)
  BY DEF Retries, IsRetryOf
<1> HIDE DEF HasRetry
<1>3. ASSUME NEW p, p = probes[i] PROVE HasRetry(p)'
  BY <1>1, <1>2, <1>3, RetryStays
<1> QED
  BY <1>3 DEF HasRetry

\* All that a step may rely on.
Context == /\ Typed /\ Placed /\ LearnInv /\ SerialInv /\ AccountInv /\ RetryInv /\ exclusive
           /\ Typed' /\ Placed'

Kept == SerialInv /\ AccountInv /\ RetryInv

\* A process that ends leaves no draft, and no debt.
LEMMA EndsKept ==
    ASSUME Context, NEW k \in Calls, Moves(k), NEW p \in {"tool", "over"}, EndHook(k, p),
           skipped' = {} => Balanced(0)', RetryInv'
    PROVE  Kept'
<1>1. step'[k] = "none" /\ ~Resolving(k)'
  BY EndHookFacts DEF Context, Phases, Resolving
<1>2. Draft(k)'
  BY <1>1 DEF Draft, Resolves
<1>3. SerialInv'
  BY <1>2, SerialOfOne DEF Context
<1>4. AccountInv'
  BY <1>1, AccountOfOne DEF Context
<1> QED
  BY <1>3, <1>4 DEF Kept

\* While no call's end went by, the process that runs is accounted for.
LEMMA RunsAccounted ==
    ASSUME Context, NEW k \in Calls, Moves(k), skipped = {}
    PROVE  IF step[k] = "none" THEN Balanced(0) ELSE Accounted(k)
<1>1. HookRunning(k) <=> step[k] # "none"
  BY DEF Context, Typed, Placed, HookRunning, PreSteps, PostSteps
<1>2. CASE step[k] # "none"
  BY <1>1, <1>2 DEF Context, AccountInv, Undisturbed
<1>3. CASE step[k] = "none"
  <2>1. StartPre(k) \/ ToolEnds(k)
    BY <1>3 DEF Moves, MatchProbe, MarkProbing, Inject, Resolve, Initiate, ReadStats,
                Confirm, WriteProbes, SaveStats, WriteFails, Crash, HookRunning, Context, Placed,
                PreSteps, PostSteps
  <2>2. \A j \in Calls : ~HookRunning(j)
    BY <2>1 DEF StartPre, ToolEnds, MayStartHook, Context
  <2> QED
    BY <1>3, <2>2 DEF Context, AccountInv, Undisturbed
<1> QED
  BY <1>2, <1>3

\* What every step starts from.
LEMMA MoverFacts ==
    ASSUME Context, NEW k \in Calls, Moves(k)
    PROVE  /\ Ordered(k) /\ Draft(k) /\ Resting(k)
           /\ probes \in Seq(Probe) /\ Len(probes) \in Nat /\ stats \in Stats
           /\ skipped' = {} => skipped = {}
           /\ step \in [Calls -> Steps] /\ phase \in [Calls -> Phases]
           /\ probe \in [Calls -> Probe \cup {None}] /\ held \in [Calls -> Seq(Probe)]
           /\ counted \in [Calls -> Stats]
<1>1. Ordered(k) /\ Draft(k) /\ Resting(k)
  BY DEF Context, SerialInv, LearnInv
<1>2. skipped \subseteq skipped'
  BY OthersStay DEF Context
<1>3. probes \in Seq(Probe) /\ Len(probes) \in Nat
  BY DEF Context, Typed
<1> QED
  BY <1>1, <1>2, <1>3 DEF Context, Typed, Steps

LEMMA BeforeToolKept ==
    ASSUME Context, NEW k \in Calls, StartPre(k) \/ MatchProbe(k) \/ Inject(k)
    PROVE  Kept'
<1> USE DEF files, call, local
<1>0. Moves(k)
  BY DEF Moves
<1>1. probes' = probes /\ stats' = stats
  BY DEF StartPre, MatchProbe, Inject
<1>2. phase[k] \in {"idle", "pre"} /\ ~Carries(k) /\ k \notin skipped
  BY <1>0, MoverFacts DEF StartPre, MatchProbe, Inject, Context, Placed, PreSteps, PostSteps,
                          Carries, Resolves, Ordered
<1>3. RetryInv'
  BY <1>0, <1>1, <1>2, RetryOfOne DEF Context
<1>4. skipped' = {} => Balanced(0)
  BY <1>0, MoverFacts, RunsAccounted
  DEF StartPre, MatchProbe, Inject, Accounted, Off, Context, Placed, PreSteps, PostSteps
<1>5. skipped' = {} => Balanced(0)'
  BY <1>1, <1>4 DEF Balanced
<1>6. CASE Inject(k)
  BY <1>0, <1>3, <1>5, <1>6, EndsKept DEF Inject
<1>7. CASE StartPre(k) \/ MatchProbe(k)
  <2>1. /\ step'[k] = "match" \/ step'[k] = "inject"
           \/ (step'[k] = "mark" /\ \E i \in Retries("pending", asked[k]) :
                                       held'[k] = Marked(probes, i))
        /\ asked' = asked
    <3>1. CASE StartPre(k)
      BY <1>0, <3>1, MoverFacts DEF StartPre
    <3>2. CASE MatchProbe(k)
      <4> DEFINE is == Retries("pending", asked[k])
      <4>1. is # {} => First(is) \in is
        <5>1. is \in SUBSET Nat
          BY DEF Retries, Context, Typed
        <5> QED
          BY <5>1, FirstIsOne
      <4> HIDE DEF is
      <4>2. \/ is # {} /\ held'[k] = Marked(probes, First(is)) /\ step'[k] = "mark"
            \/ step'[k] = "inject"
        BY <1>0, <3>2, MoverFacts DEF MatchProbe, Goto, Marked, is
      <4>3. asked' = asked
        BY <3>2 DEF MatchProbe
      <4> QED
        BY <4>1, <4>2, <4>3 DEF is
    <3> QED
      BY <1>7, <3>1, <3>2
  <2>2. Draft(k)'
    BY <1>1, <2>1 DEF Draft, Resolves, Retries
  <2>3. SerialInv'
    BY <1>0, <2>2, SerialOfOne DEF Context
  <2>4. skipped' = {} => Accounted(k)'
    BY <1>5, <2>1 DEF Accounted, Off, Knows
  <2>5. AccountInv'
    BY <1>0, <2>1, <2>4, AccountOfOne DEF Context
  <2> QED
    BY <1>3, <2>3, <2>5 DEF Kept
<1> QED
  BY <1>6, <1>7

\* A step that goes on to s, with the probe file as it is.
LEMMA GoesOnKept ==
    ASSUME Context, NEW k \in Calls, Moves(k), NEW s \in PostSteps, step'[k] = s,
           Draft(k)', skipped' = {} => Accounted(k)', RetryInv'
    PROVE  Kept'
<1>1. s # "none"
  BY DEF PostSteps
<1>2. SerialInv'
  BY SerialOfOne DEF Context
<1>3. AccountInv'
  BY <1>1, AccountOfOne DEF Context
<1> QED
  BY <1>2, <1>3 DEF Kept

LEMMA MarkKept ==
    ASSUME Context, NEW k \in Calls, MarkProbing(k) \/ (step[k] = "mark" /\ WriteFails(k))
    PROVE  Kept'
<1> USE DEF files, call, local
<1>0. Moves(k) /\ step[k] = "mark" /\ phase[k] = "pre" /\ ran[k] = asked[k] /\ k \notin skipped
  BY MoverFacts DEF Moves, MarkProbing, Context, Placed, PreSteps, Ordered
<1>1. PICK i \in Retries("pending", asked[k]) : held[k] = Marked(probes, i)
  BY <1>0, MoverFacts DEF Draft
<1>2. /\ ran' = ran /\ stats' = stats /\ EndHook(k, "tool")
      /\ probes' = held[k] \/ (probes' = probes /\ k \in skipped')
  BY <1>0 DEF MarkProbing, WriteFails, Skip
<1>3. probes \in Seq(Probe) /\ i \in DOMAIN probes /\ Prefixed(probes[i].original) = asked[k]
  BY <1>0, <1>1, MoverFacts DEF Retries, IsRetryOf
<1>4. /\ DOMAIN Marked(probes, i) = DOMAIN probes /\ Len(Marked(probes, i)) = Len(probes)
      /\ Marked(probes, i)[i].original = probes[i].original
      /\ \A j \in DOMAIN probes \ {i} : Marked(probes, i)[j] = probes[j]
  <2> DEFINE new == [probes[i] EXCEPT !.state = "probing"]
  <2>1. probes[i] \in Probe /\ new \in Probe /\ new.original = probes[i].original
    <3>1. probes[i] \in Probe
      BY <1>3
    <3> QED
      BY <3>1 DEF Probe
  <2>2. Marked(probes, i) = [probes EXCEPT ![i] = new]
    BY DEF Marked
  <2> HIDE DEF new
  <2>3. Marked(probes, i) \in Seq(Probe) /\ DOMAIN Marked(probes, i) = DOMAIN probes
    BY <1>3, <2>1, <2>2
  <2>4. Len(Marked(probes, i)) = Len(probes)
    BY <1>3, <2>3
  <2> QED
    BY <1>3, <2>1, <2>2, <2>3, <2>4
<1>5. skipped' = {} => Balanced(0)'
  <2>1. skipped' = {} => Balanced(0)
    BY <1>0, MoverFacts, RunsAccounted DEF Accounted, Off
  <2> QED
    BY <1>1, <1>2, <1>4, <2>1 DEF Balanced
<1>6. /\ ~Carries(k) /\ phase'[k] = "tool"
  BY <1>0, <1>2, EndHookFacts DEF Carries, Resolves, Context, Phases
<1>7. RetryInv'
  <2>1. CASE probes' = probes
    BY <1>0, <1>6, <2>1, RetryOfOne DEF Context
  <2>2. CASE probes' = Marked(probes, i)
    <3> SUFFICES ASSUME NEW j \in DOMAIN probes, NEW p, p = Marked(probes, i)[j],
                        p.state = "probing"
                 PROVE  HasRetry(p)'
      BY <1>4, <2>2 DEF RetryInv, HasRetry
    <3>1. CASE j = i
      BY <1>0, <1>2, <1>3, <1>4, <1>6, <3>1 DEF HasRetry, Carries
    <3>2. CASE j # i
      <4>1. p = probes[j]
        BY <1>4, <3>2
      <4>2. HasRetry(p)
        BY <4>1 DEF RetryInv, Context
      <4> QED
        BY <1>0, <1>6, <4>2, RetryStays DEF Context
    <3> QED
      BY <3>1, <3>2
  <2> QED
    BY <1>1, <1>2, <2>1, <2>2
<1> QED
  BY <1>0, <1>2, <1>5, <1>7, EndsKept

LEMMA ToolEndsKept ==
    ASSUME Context, NEW k \in Calls, ToolEnds(k)
    PROVE  Kept'
<1> USE DEF files, call, local
<1>0. Moves(k) /\ phase[k] = "tool" /\ step[k] = "none"
  BY DEF Moves, ToolEnds, Context, Typed, Placed, PreSteps, PostSteps
<1>1. probes' = probes /\ stats' = stats /\ ran' = ran
  BY DEF ToolEnds
<1>2. skipped' = {} => Balanced(0)'
  <2>1. skipped' = {} => Balanced(0)
    BY <1>0, MoverFacts, RunsAccounted
  <2> QED
    BY <1>1, <2>1 DEF Balanced
<1>3. CASE /\ phase' = [phase EXCEPT ![k] = "post"]
           /\ step' = [step EXCEPT ![k] = "resolve"]
           /\ UNCHANGED <<local, skipped>>
  <2>1. step'[k] = "resolve"
    BY <1>0, <1>3, MoverFacts
  <2>2. RetryInv'
    BY <1>0, <1>1, <2>1, RetryOfOne DEF Carries, Context
  <2>3. Draft(k)' /\ (skipped' = {} => Accounted(k)')
    BY <1>2, <2>1 DEF Draft, Resolves, Accounted, Off, Knows
  <2> QED
    BY <1>0, <2>1, <2>2, <2>3, GoesOnKept DEF PostSteps
<1>4. CASE EndHook(k, "over") /\ Skip(k)
  <2>1. RetryInv'
    BY <1>0, <1>1, <1>4, RetryOfOne DEF Skip, Context
  <2> QED
    BY <1>0, <1>2, <1>4, <2>1, EndsKept
<1> QED
  BY <1>3, <1>4 DEF ToolEnds

LEMMA ResolveKept ==
    ASSUME Context, NEW k \in Calls, Resolve(k)
    PROVE  Kept'
<1> USE DEF files, call, local
<1> DEFINE is == Retries("probing", ran[k])
<1>0. Moves(k) /\ step[k] = "resolve" /\ ~Resolving(k)
  BY MoverFacts DEF Moves, Resolve, Ordered
<1>1. probes' = probes /\ stats' = stats /\ ran' = ran /\ skipped' = skipped
  BY DEF Resolve
<1>2. skipped' = {} => Balanced(0)'
  <2>1. skipped' = {} => Balanced(0)
    BY <1>0, MoverFacts, RunsAccounted DEF Accounted, Off
  <2> QED
    BY <1>1, <2>1 DEF Balanced
<1>3. CASE /\ is # {}
           /\ probe' = [probe EXCEPT ![k] = probes[First(is)]]
           /\ held' = [held EXCEPT ![k] = RemoveAt(probes, First(is))]
           /\ Goto(k, "readstats")
  <2>1. First(is) \in is /\ probes[First(is)] \in Probe
    <3>1. is \in SUBSET Nat
      BY DEF Retries, Context, Typed
    <3>2. First(is) \in is
      BY <1>3, <3>1, FirstIsOne
    <3> QED
      BY <3>2 DEF Retries, Context, Typed
  <2> HIDE DEF is
  <2>2. /\ step'[k] = "readstats" /\ probe'[k] # None
        /\ held'[k] = RemoveAt(probes, First(is))
    BY <1>0, <1>3, <2>1, MoverFacts, NoneAssumption DEF Goto
  <2>3. Draft(k)'
    BY <1>1, <2>1, <2>2 DEF Draft, Resolving, Retries, is
  <2>4. skipped' = {} => Accounted(k)'
    BY <1>2, <2>2 DEF Accounted, Off, Knows, Resolving
  <2>5. Carries(k)'
    BY <2>2 DEF Carries, Resolves, Resolving
  <2>6. RetryInv'
    BY <1>0, <1>1, <2>5, RetryOfOne DEF Context
  <2> QED
    BY <1>0, <2>2, <2>3, <2>4, <2>6, GoesOnKept DEF PostSteps
<1>4. CASE is = {} /\ Goto(k, "initiate") /\ UNCHANGED local
  <2>1. RetryInv'
    BY <1>0, <1>1, <1>4, RetryOfOne DEF Context
  <2>2. step'[k] = "initiate"
    BY <1>0, <1>4, MoverFacts DEF Goto
  <2>3. Draft(k)' /\ (skipped' = {} => Accounted(k)')
    BY <1>2, <2>2 DEF Draft, Resolves, Accounted, Off, Knows
  <2> QED
    BY <1>0, <2>1, <2>2, <2>3, GoesOnKept DEF PostSteps
<1>5. CASE is = {} /\ EndHook(k, "over")
  <2>1. RetryInv'
    BY <1>0, <1>1, <1>5, RetryOfOne DEF Context
  <2> QED
    BY <1>0, <1>2, <1>5, <2>1, EndsKept
<1> QED
  BY <1>3, <1>4, <1>5 DEF Resolve

LEMMA InitiateKept ==
    ASSUME Context, NEW k \in Calls, Initiate(k)
    PROVE  Kept'
<1> USE DEF files, call, local
<1> DEFINE more == Append(probes, [original |-> ran[k], state |-> "pending"])
<1>0. Moves(k) /\ step[k] = "initiate" /\ ~Resolving(k)
  BY MoverFacts DEF Moves, Initiate, Ordered
<1>1. probes' = probes /\ stats' = stats /\ ran' = ran /\ skipped' = skipped
  BY DEF Initiate
<1>2. skipped' = {} => Balanced(0)'
  <2>1. skipped' = {} => Balanced(0)
    BY <1>0, MoverFacts, RunsAccounted DEF Accounted, Off
  <2> QED
    BY <1>1, <2>1 DEF Balanced
<1>3. RetryInv'
  <2>1. ~Carries(k)
    BY <1>0 DEF Carries, Resolves, Context, Placed, PostSteps
  <2>2. k \in skipped => k \in skipped'
    BY <1>1
  <2> QED
    BY <1>0, <1>1, <2>1, <2>2, RetryOfOne DEF Context
<1>4. CASE held' = [held EXCEPT ![k] = more] /\ Goto(k, "write") /\ UNCHANGED <<counted, probe>>
  <2>1. step'[k] = "write" /\ held'[k] = more /\ probe'[k] = None
    BY <1>0, <1>4, MoverFacts DEF Goto, Resolving
  <2>2. Draft(k)'
    BY <1>1, <2>1 DEF Draft, Resolves, Resolving
  <2>3. skipped' = {} => Accounted(k)'
    BY <1>2, <2>1 DEF Accounted, Off, Knows, Resolving
  <2> QED
    BY <1>0, <1>3, <2>1, <2>2, <2>3, GoesOnKept DEF PostSteps
<1>5. CASE EndHook(k, "over")
  BY <1>0, <1>2, <1>3, <1>5, EndsKept
<1> QED
  BY <1>4, <1>5 DEF Initiate

LEMMA ReadStatsKept ==
    ASSUME Context, NEW k \in Calls, ReadStats(k)
    PROVE  Kept'
<1> USE DEF files, call, local
<1>0. Moves(k) /\ step[k] = "readstats"
  BY DEF Moves, ReadStats
<1>1. /\ probes' = probes /\ stats' = stats /\ ran' = ran /\ skipped' = skipped
      /\ held' = held /\ probe' = probe
      /\ counted'[k] = stats
      /\ step'[k] = IF ~Resolving(k) THEN "savestats"
                    ELSE IF Failed(k) THEN "write" ELSE "confirm"
  BY <1>0, MoverFacts DEF ReadStats, Goto
<1>2. Resolving(k)' = Resolving(k)
  BY <1>1 DEF Resolving
<1>3. Resolves(k)' = Resolves(k)
  BY <1>0, <1>1, <1>2 DEF Resolves
<1>4. Draft(k)'
  BY <1>0, <1>1, <1>2, <1>3, MoverFacts DEF Draft, Retries
<1>5. skipped' = {} => Accounted(k)'
  <2>1. skipped' = {} => Balanced(Off(k))
    BY <1>0, MoverFacts, RunsAccounted DEF Accounted
  <2>2. Off(k)' = Off(k)
    BY <1>0, <1>1, <1>2 DEF Off
  <2>3. \A d : Balanced(d)' = Balanced(d)
    BY <1>1 DEF Balanced
  <2> QED
    BY <1>1, <2>1, <2>2, <2>3 DEF Accounted
<1>6. Carries(k) => Carries(k)'
  BY <1>0, <1>3 DEF Carries, Context, Placed, PostSteps
<1>7. RetryInv'
  BY <1>0, <1>1, <1>6, RetryOfOne DEF Context
<1> QED
  BY <1>0, <1>1, <1>4, <1>5, <1>7, GoesOnKept DEF PostSteps

LEMMA ConfirmKept ==
    ASSUME Context, NEW k \in Calls, Confirm(k) \/ (step[k] = "confirm" /\ WriteFails(k))
    PROVE  Kept'
<1> USE DEF files, call, local
<1>0. Moves(k) /\ step[k] = "confirm" /\ Resolving(k)
  BY MoverFacts DEF Moves, Confirm, Resting, Resolving
<1>1. /\ probes' = probes /\ stats' = stats /\ ran' = ran /\ held' = held /\ probe' = probe
      /\ counted' = counted /\ step'[k] = "write"
  BY <1>0, MoverFacts DEF Confirm, WriteFails, Goto
<1>2. Resolves(k) /\ Resolves(k)' /\ Resolving(k)'
  BY <1>0, <1>1 DEF Resolves, Resolving
<1>3. Draft(k)'
  BY <1>1, <1>2, MoverFacts, <1>0 DEF Draft, Retries
<1>4. skipped' = {} => Accounted(k)'
  <2>1. skipped' = {} => Balanced(0) /\ counted[k] = stats
    BY <1>0, MoverFacts, RunsAccounted DEF Accounted, Off, Knows
  <2> QED
    BY <1>1, <1>2, <2>1 DEF Accounted, Balanced, Off
<1>5. RetryInv'
  BY <1>0, <1>1, <1>2, OthersStay, RetryOfOne DEF Carries, Context
<1> QED
  BY <1>0, <1>1, <1>3, <1>4, <1>5, GoesOnKept DEF PostSteps

\* The statistics take in what the file has taken in.
LEMMA SaveStatsKept ==
    ASSUME Context, NEW k \in Calls, SaveStats(k)
    PROVE  Kept'
<1> USE DEF files, call, local
<1>0. Moves(k) /\ step[k] = "savestats"
  BY DEF Moves, SaveStats
<1>1. probes' = probes /\ ran' = ran /\ skipped' = skipped /\ EndHook(k, "over")
  BY DEF SaveStats
<1>2. skipped' = {} => Balanced(0)'
  <2>1. skipped' = {} => Balanced(IF Resolving(k) THEN 1 ELSE -1) /\ counted[k] = stats
    BY <1>0, MoverFacts, RunsAccounted DEF Accounted, Off, Knows
  <2>2. /\ stats.initiated \in Nat /\ stats.confirmed \in Nat /\ stats.exhausted \in Nat
        /\ Len(probes) \in Nat
    BY <1>0, MoverFacts DEF Stats
  <2>3. CASE counted[k] = stats
    <3>1. stats' = IF ~Resolving(k) THEN [stats EXCEPT !.initiated = @ + 1]
                   ELSE IF Failed(k) THEN [stats EXCEPT !.exhausted = @ + 1]
                   ELSE [stats EXCEPT !.confirmed = @ + 1]
      BY <2>3 DEF SaveStats
    <3>2. \/ ~Resolving(k) /\ stats'.initiated = stats.initiated + 1
             /\ stats'.confirmed = stats.confirmed /\ stats'.exhausted = stats.exhausted
          \/ Resolving(k) /\ stats'.initiated = stats.initiated
             /\ stats'.confirmed + stats'.exhausted = stats.confirmed + stats.exhausted + 1
      <4>1. stats \in [initiated : Nat, confirmed : Nat, exhausted : Nat]
        BY <1>0, MoverFacts DEF Stats
      <4> QED
        BY <2>2, <3>1, <4>1
    <3> QED
      BY <1>1, <2>1, <2>2, <3>2 DEF Balanced
  <2> QED
    BY <2>1, <2>3
<1>3. ~Carries(k)
  BY <1>0 DEF Carries, Resolves, Context, Placed, PostSteps
<1>4. RetryInv'
  BY <1>0, <1>1, <1>3, RetryOfOne DEF Context
<1> QED
  BY <1>0, <1>1, <1>2, <1>4, EndsKept

\* A process that dies, and a write of statistics that fails, let the end of
\* their call go by.
LEMMA SkipKept ==
    ASSUME Context, NEW k \in Calls,
           Crash(k) \/ (step[k] \in {"write", "savestats"} /\ WriteFails(k))
    PROVE  Kept'
<1> USE DEF files, call, local
<1>0. Moves(k)
  BY DEF Moves
<1>1. probes' = probes /\ ran' = ran /\ k \in skipped'
  BY DEF Crash, WriteFails, Skip
<1>2. RetryInv'
  BY <1>0, <1>1, RetryOfOne DEF Context
<1>3. CASE \E p \in {"tool", "over"} : EndHook(k, p)
  BY <1>0, <1>1, <1>2, <1>3, EndsKept
<1>4. CASE step[k] = "write" /\ Goto(k, IF Resolving(k) THEN "savestats" ELSE "readstats")
           /\ UNCHANGED local
  <2>1. step'[k] = IF Resolving(k) THEN "savestats" ELSE "readstats"
    BY <1>0, <1>4, MoverFacts DEF Goto
  <2>2. Draft(k)'
    BY <1>4, <2>1 DEF Draft, Resolves, Resolving
  <2> QED
    BY <1>0, <1>1, <1>2, <2>1, <2>2, GoesOnKept DEF PostSteps
<1> QED
  BY <1>3, <1>4 DEF Crash, WriteFails

\* No command is two others behind the prefix.
LEMMA PrefixedInjective ==
    ASSUME NEW c \in Command, NEW d \in Command, Prefixed(c) = Prefixed(d)
    PROVE  c = d
<1>1. /\ c \in [bare : Bare, prefixes : Nat] /\ d \in [bare : Bare, prefixes : Nat]
  BY DEF Command
<1>2. /\ Prefixed(c).bare = c.bare /\ Prefixed(c).prefixes = c.prefixes + 1
      /\ Prefixed(d).bare = d.bare /\ Prefixed(d).prefixes = d.prefixes + 1
  BY <1>1 DEF Prefixed
<1>3. c.bare = d.bare /\ c.prefixes = d.prefixes
  BY <1>1, <1>2
<1> QED
  BY <1>1, <1>3

\* The one process that runs writes the file without the probe it resolves: no
\* other probe has its retry.
LEMMA WriteResolvedKept ==
    ASSUME Context, NEW k \in Calls, WriteProbes(k), Resolving(k)
    PROVE  Kept'
<1> USE DEF files, call, local
<1>0. Moves(k) /\ step[k] = "write" /\ Resolves(k)
  BY DEF Moves, WriteProbes, Resolves
<1>1. PICK i \in Retries("probing", ran[k]) : held[k] = RemoveAt(probes, i)
  BY <1>0, MoverFacts DEF Draft
<1> DEFINE less == RemoveAt(probes, i)
           from(j) == IF j < i THEN j ELSE j + 1
<1>2. /\ probes' = less /\ stats' = stats /\ ran' = ran /\ skipped' = skipped
      /\ counted' = counted /\ probe' = probe /\ step'[k] = "savestats"
  BY <1>0, <1>1, MoverFacts DEF WriteProbes, Goto
<1>3. probes \in Seq(Probe) /\ i \in DOMAIN probes /\ Prefixed(probes[i].original) = ran[k]
  BY <1>0, <1>1, MoverFacts DEF Retries, IsRetryOf
<1>4. /\ \A j \in DOMAIN less : from(j) \in DOMAIN probes /\ less[j] = probes[from(j)]
      /\ less \in Seq(Probe)
  BY <1>3, RemoveAtFacts
<1>5. Len(less) = Len(probes) - 1
  BY <1>3 DEF RemoveAt
<1> HIDE DEF less
<1>6. Resolving(k)'
  BY <1>2 DEF Resolving
<1>7. Draft(k)'
  BY <1>2 DEF Draft, Resolves
<1>8. skipped' = {} => Accounted(k)'
  <2>1. skipped' = {} => Balanced(0) /\ counted[k] = stats
    BY <1>0, MoverFacts, RunsAccounted DEF Accounted, Off, Knows, Resolves
  <2>2. stats.initiated \in Nat /\ stats.confirmed \in Nat /\ stats.exhausted \in Nat
        /\ Len(probes) \in Nat
    BY <1>0, MoverFacts DEF Stats
  <2>3. skipped' = {} => Balanced(1)'
    BY <1>2, <1>5, <2>1, <2>2 DEF Balanced
  <2> QED
    BY <1>2, <1>6, <2>1, <2>3 DEF Accounted, Off
<1>9. RetryInv'
  <2> SUFFICES ASSUME NEW j \in DOMAIN less, NEW p, p = less[j], p.state = "probing"
               PROVE  HasRetry(p)'
    BY <1>2 DEF RetryInv, HasRetry
  <2>1. from(j) \in DOMAIN probes /\ p = probes[from(j)]
    BY <1>4
  <2>2. from(j) # i
    BY <1>3, <1>4
  <2>3. HasRetry(p)
    BY <2>1 DEF RetryInv, Context
  <2>4. p.original # probes[i].original
    BY <1>3, <2>1, <2>2 DEF Context, LearnInv, Clean, Unique
  <2>5. p.original \in Command /\ probes[i].original \in Command
    <3>1. p \in Probe /\ probes[i] \in Probe
      BY <1>3, <2>1
    <3> QED
      BY <3>1 DEF Probe
  <2>6. ran[k] # Prefixed(p.original)
    BY <1>3, <2>4, <2>5, PrefixedInjective
  <2> QED
    BY <1>0, <2>3, <2>6, RetryStays DEF Context
<1> QED
  BY <1>0, <1>2, <1>7, <1>8, <1>9, GoesOnKept DEF PostSteps

\* Or it writes the file with a new probe, which is Pending.
LEMMA WriteAddedKept ==
    ASSUME Context, NEW k \in Calls, WriteProbes(k), ~Resolving(k)
    PROVE  Kept'
<1> USE DEF files, call, local
<1> DEFINE new == [original |-> ran[k], state |-> "pending"]
           more == Append(probes, new)
<1>0. Moves(k) /\ step[k] = "write"
  BY DEF Moves, WriteProbes
<1>1. held[k] = more
  BY <1>0, MoverFacts DEF Draft
<1>2. /\ probes' = more /\ stats' = stats /\ ran' = ran /\ skipped' = skipped
      /\ probe' = probe /\ step'[k] = "readstats"
  BY <1>0, <1>1, MoverFacts DEF WriteProbes, Goto
<1>3. probes \in Seq(Probe) /\ new.state = "pending"
  BY <1>0, MoverFacts
<1> HIDE DEF new
<1>4. /\ Len(more) = Len(probes) + 1
      /\ \A j \in DOMAIN more : more[j] = new \/ (j \in DOMAIN probes /\ more[j] = probes[j])
  BY <1>3
<1> HIDE DEF more
<1>5. ~Resolving(k)' /\ ~Resolves(k)'
  BY <1>2 DEF Resolving, Resolves
<1>6. Draft(k)'
  BY <1>2, <1>5 DEF Draft
<1>7. skipped' = {} => Accounted(k)'
  <2>1. skipped' = {} => Balanced(0)
    BY <1>0, MoverFacts, RunsAccounted DEF Accounted, Off
  <2>2. stats.initiated \in Nat /\ stats.confirmed \in Nat /\ stats.exhausted \in Nat
        /\ Len(probes) \in Nat
    BY <1>0, MoverFacts DEF Stats
  <2>3. skipped' = {} => Balanced(-1)'
    BY <1>2, <1>4, <2>1, <2>2 DEF Balanced
  <2> QED
    BY <1>2, <1>5, <2>3 DEF Accounted, Off, Knows
<1>8. ~Carries(k)
  BY <1>0 DEF Carries, Resolves, Context, Placed, PostSteps
<1>9. RetryInv'
  <2> SUFFICES ASSUME NEW j \in DOMAIN more, NEW p, p = more[j], p.state = "probing"
               PROVE  HasRetry(p)'
    BY <1>2 DEF RetryInv, HasRetry
  <2>1. j \in DOMAIN probes /\ p = probes[j]
    BY <1>3, <1>4
  <2>2. HasRetry(p)
    BY <2>1 DEF RetryInv, Context
  <2>3. (~Carries(k) /\ k \notin skipped) \/ (ran'[k] = ran[k] /\ k \in skipped')
    BY <1>2, <1>8
  <2> QED
    BY <1>0, <2>2, <2>3, RetryStays DEF Context
<1> QED
  BY <1>0, <1>2, <1>6, <1>7, <1>9, GoesOnKept DEF PostSteps

\* Every step keeps the three invariants.
LEMMA KeptNext ==
    ASSUME Typed, Placed, LearnInv, Kept, [Next]_vars
    PROVE  Kept'
<1>0. Typed' /\ Placed'
  BY TypeNext
<1>1. ASSUME NEW k \in Calls, Moves(k), exclusive PROVE Kept'
  <2>1. Context
    BY <1>0, <1>1 DEF Context, Kept
  <2> HIDE DEF Context
  <2>2. WriteFails(k) => step[k] \in {"mark", "confirm", "write", "savestats"}
    BY DEF WriteFails
  <2> QED
    BY <1>1, <2>1, <2>2, BeforeToolKept, MarkKept, ToolEndsKept, ResolveKept, InitiateKept,
       ReadStatsKept, ConfirmKept, SaveStatsKept, SkipKept, WriteResolvedKept, WriteAddedKept
    DEF Moves
<1>2. ASSUME NEW k \in Calls, Moves(k), ~exclusive PROVE Kept'
  <2>1. ~exclusive'
    BY <1>2, OthersStay
  <2>2. \A j \in Calls \ {k} : Ordered(j)'
    BY <1>2, OthersStay DEF Kept, SerialInv, Ordered, Resolving
  <2>3. Ordered(k)'
    BY <1>2, OrderedNext DEF Kept, SerialInv
  <2> QED
    BY <2>1, <2>2, <2>3 DEF Kept, SerialInv, AccountInv, RetryInv, Undisturbed
<1>3. CASE UNCHANGED vars \/ \E key \in Learnable : RemoveMapping(key)
  <2>1. UNCHANGED <<exclusive, probes, stats, asked, ran, phase, step, held, counted, probe, skipped>>
    BY <1>3 DEF vars, files, call, local, RemoveMapping
  <2>2. SerialInv'
    BY <2>1 DEF Kept, SerialInv, Ordered, Draft, Resolves, Resolving, Retries, HookRunning
  <2>3. AccountInv'
    BY <2>1 DEF Kept, AccountInv, Undisturbed, Accounted, Balanced, Off, Knows, Resolving,
                HookRunning
  <2>4. RetryInv'
    BY <2>1 DEF Kept, RetryInv, HasRetry, Carries, Resolves, Resolving
  <2> QED
    BY <2>2, <2>3, <2>4 DEF Kept
<1> QED
  BY <1>1, <1>2, <1>3 DEF Next, AllOver, Moves, Typed

LEMMA KeptAlways == Spec => []Kept
<1>1. Init => Kept
  BY SerialInit DEF Kept
<1>2. LearningInv /\ Kept /\ [Next]_vars => Kept'
  BY KeptNext DEF LearningInv
<1> QED
  BY <1>1, <1>2, LearningAlways, PTL DEF Spec

\* While hook processes do not overlap and nothing goes by, the statistics
\* account for every probe: what was initiated is still there or was resolved,
\* exactly once.
THEOREM ProbesAlwaysAccounted == Spec => []ProbesAccounted
<1>1. LearningInv /\ Kept => ProbesAccounted
  <2>1. LearningInv => /\ stats.confirmed \in Nat /\ stats.exhausted \in Nat
                       /\ Len(probes) \in Nat
    BY DEF LearningInv, Typed, Stats
  <2>2. LearningInv /\ Balanced(0)
           => stats.initiated = stats.confirmed + stats.exhausted + Len(probes)
    BY <2>1 DEF Balanced
  <2> QED
    BY <2>2 DEF Kept, AccountInv, ProbesAccounted
<1> QED
  BY <1>1, LearningAlways, KeptAlways, PTL

\* And a Probing probe belongs to a retry that will resolve it, or whose end went
\* by.
THEOREM ProbingHasItsRetry == Spec => []ProbingHasRetry
<1>1. LearningInv /\ Kept => ProbingHasRetry
  <2> SUFFICES ASSUME LearningInv, Kept, exclusive, NEW i \in DOMAIN probes,
                      probes[i].state = "probing"
               PROVE  \E k \in Calls : /\ ran[k] = Prefixed(probes[i].original)
                                       /\ phase[k] # "over" \/ k \in skipped
    BY DEF ProbingHasRetry
  <2>1. PICK k \in Calls : /\ ran[k] = Prefixed(probes[i].original)
                           /\ Carries(k) \/ k \in skipped
    BY DEF Kept, RetryInv, HasRetry
  <2>2. Carries(k) => phase[k] # "over"
    BY DEF Carries, Resolves, LearningInv, Placed, PostSteps
  <2> QED
    BY <2>1, <2>2
<1> QED
  BY <1>1, LearningAlways, KeptAlways, PTL

=============================================================================
