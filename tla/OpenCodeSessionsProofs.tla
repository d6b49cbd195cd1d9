------------------------ MODULE OpenCodeSessionsProofs ------------------------
(***************************************************************************)
(* Theorems of OpenCodeSessions: they hold for every finite set of         *)
(* sessions, every arrangement of parents and every number of events, with *)
(* handlers that wait for their hooks while others run.                    *)
(***************************************************************************)
EXTENDS OpenCodeSessions, FiniteSetTheorems, TLAPS

Starts(s) == At(s, {"session-start", "subagent-start"})
RootStarts(s) == At(s, {"session-start"})
Stops(s) == At(s, {"stop", "subagent-stop"})
Ends(s) == At(s, {"session-end"})
Busies(s) == At(s, {"busy"})

\* ended is what was delivered, and of each root one end at most.
EndsNoted(s) ==
    /\ Ends(s) # {} <=> s \in ended
    /\ \A i, j \in Ends(s) : i = j

\* What an event of a new session may rely on: an unborn one has no history.
StartsNoted(s) ==
    /\ life[s] = "unborn" => s \notin parents \cup ended /\ log[s] = <<>>
    /\ s \in parents => Starts(s) # {}
    /\ \A i, j \in Starts(s) : i = j
    /\ \A i \in Stops(s) : \E j \in Starts(s) : j < i

\* A root that was started is tracked until its end is delivered.
Tracked(s) == RootStarts(s) # {} => IsRoot(s) /\ s \in parents \cup ended

\* Who is not stopped was busy since the last stop.
Cycles(s) ==
    /\ s \in parents \ stopped => \A i \in Stops(s) : \E b \in Busies(s) : i < b
    /\ \A i, j \in Stops(s) : i < j => \E b \in Busies(s) : i < b /\ b < j

\* After the disposal no tracked root is left without its end.
Closed(s) == disposed /\ s \in parents /\ IsRoot(s) => s \in ended

Sound(s) == EndsNoted(s) /\ StartsNoted(s) /\ Tracked(s) /\ Cycles(s) /\ Closed(s)

SessionInv == TypeOK /\ \A s \in Sessions : Sound(s)

-----------------------------------------------------------------------------
(* Logs *)

\* A hook at the end of a log changes nothing of what was there before.
LEMMA AppendFacts ==
    ASSUME TypeOK, NEW s \in Sessions, NEW hook \in Hooks \cup {"busy"},
           log'[s] = Append(log[s], hook)
    PROVE  \A hooks :
              /\ At(s, hooks) \subseteq 1..Len(log[s])
              /\ hook \in hooks => At(s, hooks)' = At(s, hooks) \cup {Len(log[s]) + 1}
              /\ hook \notin hooks => At(s, hooks)' = At(s, hooks)
BY DEF TypeOK, At

LEMMA EmptyLogFacts ==
    ASSUME NEW s \in Sessions, log[s] = <<>>
    PROVE  \A hooks : At(s, hooks) = {}
BY DEF At

\* The session an event is not about stays as it is.
LEMMA Untouched ==
    ASSUME NEW s \in Sessions, Sound(s), parentID' = parentID,
           log'[s] = log[s], life'[s] = life[s],
           s \in parents' <=> s \in parents,
           s \in stopped' <=> s \in stopped,
           s \in ended' <=> s \in ended,
           disposed' = disposed
    PROVE  Sound(s)'
<1>1. \A hooks : At(s, hooks)' = At(s, hooks)
    BY DEF At
<1>2. IsRoot(s)' <=> IsRoot(s)
    BY DEF IsRoot
<1>3. EndsNoted(s)' /\ Closed(s)'
    BY <1>1, <1>2 DEF Sound, EndsNoted, Ends, Closed
<1>4. StartsNoted(s)' /\ Tracked(s)'
    BY <1>1, <1>2 DEF Sound, StartsNoted, Starts, Stops, Tracked, RootStarts
<1>5. Cycles(s)'
    BY <1>1 DEF Sound, Cycles, Stops, Busies
<1> QED
    BY <1>3, <1>4, <1>5 DEF Sound

\* Forgetting a session whose end, if it has one, was delivered.
LEMMA Forgotten ==
    ASSUME NEW s \in Sessions, Sound(s), parentID' = parentID,
           log'[s] = log[s], life'[s] \in {life[s], "deleted"},
           s \notin parents', IsRoot(s) => s \in ended,
           s \in ended' <=> s \in ended
    PROVE  Sound(s)'
<1>1. \A hooks : At(s, hooks)' = At(s, hooks)
    BY DEF At
<1>2. IsRoot(s)' <=> IsRoot(s)
    BY DEF IsRoot
<1>3. EndsNoted(s)' /\ Closed(s)'
    BY <1>1, <1>2 DEF Sound, EndsNoted, Ends, Closed
<1>4. StartsNoted(s)' /\ Tracked(s)'
    BY <1>1, <1>2 DEF Sound, StartsNoted, Starts, Stops, Tracked, RootStarts
<1>5. Cycles(s)'
    BY <1>1 DEF Sound, Cycles, Stops, Busies
<1> QED
    BY <1>3, <1>4, <1>5 DEF Sound

\* The first end of a root: no other part of the log has one.
LEMMA Ended ==
    ASSUME TypeOK, NEW s \in Sessions, Sound(s), parentID' = parentID,
           log'[s] = Append(log[s], "session-end"), life'[s] \in {life[s], "deleted"},
           life[s] # "unborn",
           s \in parents' <=> s \in parents,
           s \in stopped' <=> s \in stopped,
           s \notin ended, s \in ended'
    PROVE  Sound(s)'
<1>1. \A hooks : "session-end" \notin hooks => At(s, hooks)' = At(s, hooks)
  <2>1. "session-end" \in Hooks \cup {"busy"}
    BY DEF Hooks
  <2> QED
    BY <2>1, AppendFacts
<1>2. Ends(s) = {} /\ Ends(s)' = {Len(log[s]) + 1}
  <2>1. Ends(s) = {}
    BY DEF Sound, EndsNoted
  <2>2. "session-end" \in Hooks \cup {"busy"} /\ "session-end" \in {"session-end"}
    BY DEF Hooks
  <2>3. At(s, {"session-end"})' = At(s, {"session-end"}) \cup {Len(log[s]) + 1}
    BY <2>2, AppendFacts
  <2> QED
    BY <2>1, <2>3 DEF Ends
<1>3. IsRoot(s)' <=> IsRoot(s)
    BY DEF IsRoot
<1>4. EndsNoted(s)' /\ Closed(s)'
    BY <1>2, <1>3 DEF EndsNoted, Closed
<1>5. Starts(s)' = Starts(s) /\ Stops(s)' = Stops(s) /\ Busies(s)' = Busies(s)
      /\ RootStarts(s)' = RootStarts(s)
    BY <1>1 DEF Starts, Stops, Busies, RootStarts
<1>6. StartsNoted(s)' /\ Tracked(s)'
    BY <1>3, <1>5 DEF Sound, StartsNoted, Tracked
<1>7. Cycles(s)'
    BY <1>5 DEF Sound, Cycles
<1> QED
    BY <1>4, <1>6, <1>7 DEF Sound

-----------------------------------------------------------------------------
(* Types *)

LEMMA InitTypes == Init => TypeOK
<1> SUFFICES ASSUME Init PROVE TypeOK
    OBVIOUS
<1>1. log \in [Sessions -> Seq(Hooks \cup {"busy"})]
  <2>1. <<>> \in Seq(Hooks \cup {"busy"})
    OBVIOUS
  <2> QED
    BY <2>1 DEF Init
<1>2. events \in 0..MaxEvents
    BY SessionAssumption DEF Init
<1> QED
    BY <1>1, <1>2 DEF Init, TypeOK

\* A log with one more hook is a log.
LEMMA AppendedLog ==
    ASSUME TypeOK, NEW s \in Sessions, NEW hook \in Hooks \cup {"busy"},
           log' = [log EXCEPT ![s] = Append(@, hook)]
    PROVE  log' \in [Sessions -> Seq(Hooks \cup {"busy"})]
<1>1. log[s] \in Seq(Hooks \cup {"busy"})
    BY DEF TypeOK
<1>2. Append(log[s], hook) \in Seq(Hooks \cup {"busy"})
    BY <1>1
<1> QED
    BY <1>2 DEF TypeOK

LEMMA NextTypes == TypeOK /\ [Next]_vars => TypeOK'
<1> SUFFICES ASSUME TypeOK, [Next]_vars
             PROVE  TypeOK'
    OBVIOUS
<1> USE SessionAssumption
<1>1. ASSUME NEW s \in Sessions, Created(s) PROVE TypeOK'
  <2>1. log' \in [Sessions -> Seq(Hooks \cup {"busy"})]
    BY <1>1, AppendedLog DEF Created, CallBridge, Hooks, TypeOK
  <2>2. /\ parentID' = parentID /\ ended' = ended /\ deleting' = deleting
        /\ disposed' = disposed
    BY <1>1 DEF Created, Event
  <2>3. ended' \subseteq {x \in Sessions : IsRoot(x)'}
    BY <2>2 DEF TypeOK, IsRoot
  <2>4. /\ life' \in [Sessions -> {"unborn", "live", "deleted"}]
        /\ parents' \subseteq Sessions /\ stopped' \subseteq parents'
    BY <1>1 DEF Created, TypeOK
  <2>5. events' \in 0..MaxEvents
    BY <1>1 DEF Created, Event, TypeOK
  <2> QED
    BY <2>1, <2>2, <2>3, <2>4, <2>5 DEF TypeOK
<1>2. ASSUME NEW s \in Sessions, Idle(s) PROVE TypeOK'
  <2>1. log' \in [Sessions -> Seq(Hooks \cup {"busy"})]
    BY <1>2, AppendedLog DEF Idle, CallBridge, Hooks, TypeOK
  <2> QED
    BY <1>2, <2>1 DEF Idle, Event, TypeOK, IsRoot
<1>3. ASSUME NEW s \in Sessions, Busy(s) PROVE TypeOK'
  <2>1. log' \in [Sessions -> Seq(Hooks \cup {"busy"})]
    BY <1>3, AppendedLog DEF Busy
  <2> QED
    BY <1>3, <2>1 DEF Busy, Event, TypeOK, IsRoot
<1>4. ASSUME NEW s \in Sessions, Deleted(s) PROVE TypeOK'
  <2>1. log' \in [Sessions -> Seq(Hooks \cup {"busy"})]
    BY <1>4, AppendedLog DEF Deleted, CallBridge, Hooks, TypeOK
  <2>2. parentID' = parentID /\ disposed' = disposed
    BY <1>4 DEF Deleted, Event
  <2>3. ended' \subseteq {x \in Sessions : IsRoot(x)'}
    BY <1>4, <2>2 DEF Deleted, TypeOK, IsRoot
  <2>4. deleting' \subseteq ended'
    BY <1>4 DEF Deleted, TypeOK
  <2>5. /\ life' \in [Sessions -> {"unborn", "live", "deleted"}]
        /\ parents' \subseteq Sessions /\ stopped' \subseteq parents'
    BY <1>4 DEF Deleted, Forget, TypeOK
  <2>6. events' \in 0..MaxEvents
    BY <1>4 DEF Deleted, Event, TypeOK
  <2> QED
    BY <2>1, <2>2, <2>3, <2>4, <2>5, <2>6 DEF TypeOK
<1>5. ASSUME NEW s \in Sessions, DeletedGoesOn(s) PROVE TypeOK'
    BY <1>5 DEF DeletedGoesOn, Forget, TypeOK, IsRoot
<1>6. ASSUME Disposed PROVE TypeOK'
  <2>1. \A s \in Sessions : Append(log[s], "session-end") \in Seq(Hooks \cup {"busy"})
                              /\ log[s] \in Seq(Hooks \cup {"busy"})
    BY DEF TypeOK, Hooks
  <2>2. log' \in [Sessions -> Seq(Hooks \cup {"busy"})]
    BY <1>6, <2>1 DEF Disposed
  <2> QED
    BY <1>6, <2>2 DEF Disposed, Unended, Event, TypeOK, IsRoot
<1>7. ASSUME UNCHANGED vars PROVE TypeOK'
    BY <1>7 DEF vars, state, TypeOK, IsRoot
<1> QED
    BY <1>1, <1>2, <1>3, <1>4, <1>5, <1>6, <1>7 DEF Next, Quiet

-----------------------------------------------------------------------------
(* One lemma for each event that may disturb the history *)

\* The start of a new session is the first of its log.
LEMMA CreatedSound ==
    ASSUME SessionInv, NEW c \in Sessions, Created(c)
    PROVE  \A s \in Sessions : Sound(s)'
<1> USE DEF SessionInv
<1>1. ASSUME NEW s \in Sessions, s # c PROVE Sound(s)'
    BY <1>1, Untouched DEF Created, Event, CallBridge, TypeOK
<1>2. CASE c \in parents
  <2>1. life[c] = "live"
    BY <1>2 DEF Created, Sound, StartsNoted
  <2>2. life'[c] = life[c]
    BY <2>1 DEF Created, TypeOK
  <2> QED
    BY <1>1, <1>2, <2>2, Untouched DEF Created, Event
<1>3. CASE c \notin parents
  <2> DEFINE hook == IF IsRoot(c) THEN "session-start" ELSE "subagent-start"
  <2>1. life[c] = "unborn" /\ log[c] = <<>> /\ c \notin ended
    BY <1>3 DEF Created, Sound, StartsNoted
  <2>2. log'[c] = Append(log[c], hook) /\ hook \in Hooks \cup {"busy"}
    BY <1>3 DEF Created, CallBridge, Hooks, TypeOK
  <2>3. \A hooks : /\ hook \in hooks => At(c, hooks)' = {1}
                   /\ hook \notin hooks => At(c, hooks)' = {}
    <3>1. Len(log[c]) + 1 = 1
      BY <2>1
    <3>2. \A hooks : At(c, hooks) = {}
      BY <2>1, EmptyLogFacts
    <3> QED
      BY <2>2, <3>1, <3>2, AppendFacts
  <2>4. life'[c] = "live" /\ c \in parents' /\ c \notin ended' /\ disposed' = FALSE
    BY <1>3, <2>1 DEF Created, Event, TypeOK
  <2>5. IsRoot(c)' <=> IsRoot(c)
    BY DEF Created, Event, IsRoot
  <2>6. Ends(c)' = {} /\ Stops(c)' = {} /\ Starts(c)' = {1}
    BY <2>3 DEF Ends, Stops, Starts
  <2>7. RootStarts(c)' # {} => IsRoot(c)
    BY <2>3 DEF RootStarts
  <2>8. EndsNoted(c)' /\ Closed(c)'
    BY <2>4, <2>6 DEF EndsNoted, Closed
  <2>9. StartsNoted(c)' /\ Tracked(c)' /\ Cycles(c)'
    BY <2>4, <2>5, <2>6, <2>7 DEF StartsNoted, Tracked, Cycles
  <2> QED
    BY <1>1, <2>8, <2>9 DEF Sound
<1> QED
    BY <1>2, <1>3

\* Whoever is stopped was busy since the stop before.
LEMMA IdleSound ==
    ASSUME SessionInv, NEW c \in Sessions, Idle(c)
    PROVE  \A s \in Sessions : Sound(s)'
<1> USE DEF SessionInv
<1>1. ASSUME NEW s \in Sessions, s # c PROVE Sound(s)'
    BY <1>1, Untouched DEF Idle, Event, CallBridge, TypeOK
<1>2. CASE c \notin parents \ stopped
    BY <1>1, <1>2, Untouched DEF Idle, Event
<1>3. CASE c \in parents \ stopped
  <2> DEFINE hook == IF IsRoot(c) THEN "stop" ELSE "subagent-stop"
             n == Len(log[c]) + 1
  <2>1. log'[c] = Append(log[c], hook) /\ hook \in Hooks \cup {"busy"}
    BY <1>3 DEF Idle, CallBridge, Hooks, TypeOK
  <2>2. \A hooks : /\ At(c, hooks) \subseteq 1..Len(log[c])
                   /\ hook \in hooks => At(c, hooks)' = At(c, hooks) \cup {n}
                   /\ hook \notin hooks => At(c, hooks)' = At(c, hooks)
    BY <2>1, AppendFacts
  <2>3. /\ life' = life /\ parents' = parents /\ ended' = ended /\ disposed' = disposed
        /\ stopped' = stopped \cup {c} /\ life[c] # "unborn"
    BY <1>3 DEF Idle
  <2>4. IsRoot(c)' <=> IsRoot(c)
    BY DEF Idle, Event, IsRoot
  <2>5. Ends(c)' = Ends(c) /\ Starts(c)' = Starts(c) /\ RootStarts(c)' = RootStarts(c)
        /\ Busies(c)' = Busies(c)
    BY <2>2 DEF Ends, Starts, RootStarts, Busies
  <2>6. Stops(c)' = Stops(c) \cup {n}
    BY <2>2 DEF Stops
  <2>7. /\ Stops(c) \subseteq 1..Len(log[c]) /\ Starts(c) \subseteq 1..Len(log[c])
        /\ Busies(c) \subseteq 1..Len(log[c]) /\ Len(log[c]) \in Nat
    BY <2>2 DEF Stops, Starts, Busies, TypeOK
  <2>8. EndsNoted(c)' /\ Closed(c)' /\ Tracked(c)'
    BY <2>3, <2>4, <2>5 DEF Sound, EndsNoted, Closed, Tracked
  <2>9. StartsNoted(c)'
    BY <1>3, <2>3, <2>5, <2>6, <2>7 DEF Sound, StartsNoted
  <2>10. Cycles(c)'
    BY <1>3, <2>3, <2>5, <2>6, <2>7 DEF Sound, Cycles
  <2> QED
    BY <1>1, <2>8, <2>9, <2>10 DEF Sound
<1> QED
    BY <1>2, <1>3

\* A busy event comes after every stop there was.
LEMMA BusySound ==
    ASSUME SessionInv, NEW c \in Sessions, Busy(c)
    PROVE  \A s \in Sessions : Sound(s)'
<1> USE DEF SessionInv
<1>1. ASSUME NEW s \in Sessions, s # c PROVE Sound(s)'
    BY <1>1, Untouched DEF Busy, Event, TypeOK
<1> DEFINE n == Len(log[c]) + 1
<1>2. log'[c] = Append(log[c], "busy")
    BY DEF Busy, TypeOK
<1>3. \A hooks : /\ At(c, hooks) \subseteq 1..Len(log[c])
                 /\ "busy" \in hooks => At(c, hooks)' = At(c, hooks) \cup {n}
                 /\ "busy" \notin hooks => At(c, hooks)' = At(c, hooks)
    BY <1>2, AppendFacts
<1>4. /\ life' = life /\ parents' = parents /\ ended' = ended /\ disposed' = disposed
      /\ life[c] # "unborn"
    BY DEF Busy
<1>5. IsRoot(c)' <=> IsRoot(c)
    BY DEF Busy, Event, IsRoot
<1>6. Ends(c)' = Ends(c) /\ Starts(c)' = Starts(c) /\ RootStarts(c)' = RootStarts(c)
      /\ Stops(c)' = Stops(c)
    BY <1>3 DEF Ends, Starts, RootStarts, Stops
<1>7. Busies(c)' = Busies(c) \cup {n}
    BY <1>3 DEF Busies
<1>8. Stops(c) \subseteq 1..Len(log[c]) /\ Len(log[c]) \in Nat
    BY <1>3 DEF Stops, TypeOK
<1>9. EndsNoted(c)' /\ Closed(c)' /\ Tracked(c)'
    BY <1>4, <1>5, <1>6 DEF Sound, EndsNoted, Closed, Tracked
<1>10. StartsNoted(c)'
    BY <1>4, <1>6 DEF Sound, StartsNoted
<1>11. Cycles(c)'
  <2>1. \A i \in Stops(c)' : \E b \in Busies(c)' : i < b
    <3>1. n \in Busies(c)' /\ \A i \in Stops(c) : i < n
      BY <1>7, <1>8
    <3> QED
      BY <1>6, <3>1
  <2>2. \A i, j \in Stops(c)' : i < j => \E b \in Busies(c)' : i < b /\ b < j
    BY <1>6, <1>7 DEF Sound, Cycles
  <2> QED
    BY <2>1, <2>2 DEF Cycles
<1> QED
    BY <1>1, <1>9, <1>10, <1>11 DEF Sound

\* A root's first deletion delivers its end, all others have nothing left to
\* deliver.
LEMMA DeletedSound ==
    ASSUME SessionInv, NEW c \in Sessions, Deleted(c)
    PROVE  \A s \in Sessions : Sound(s)'
<1> USE DEF SessionInv
<1>1. ASSUME NEW s \in Sessions, s # c PROVE Sound(s)'
    BY <1>1, Untouched DEF Deleted, Event, CallBridge, Forget, TypeOK
<1>2. life[c] # "unborn" /\ life'[c] = "deleted" /\ parentID' = parentID
    BY DEF Deleted, Event, TypeOK
<1>3. CASE IsRoot(c) /\ c \in Unended({c})
    BY <1>1, <1>2, <1>3, Ended DEF Deleted, CallBridge, Unended, TypeOK
<1>4. CASE ~(IsRoot(c) /\ c \in Unended({c}))
    BY <1>1, <1>2, <1>4, Forgotten DEF Deleted, Forget, Unended
<1> QED
    BY <1>3, <1>4

\* Who is forgotten after its hook has its end delivered.
LEMMA DeletedGoesOnSound ==
    ASSUME SessionInv, NEW c \in Sessions, DeletedGoesOn(c)
    PROVE  \A s \in Sessions : Sound(s)'
<1> USE DEF SessionInv
<1>1. ASSUME NEW s \in Sessions, s # c PROVE Sound(s)'
    BY <1>1, Untouched DEF DeletedGoesOn, Forget
<1>2. c \in ended
    BY DEF DeletedGoesOn, TypeOK
<1> QED
    BY <1>1, <1>2, Forgotten DEF DeletedGoesOn, Forget

\* The disposal delivers what is due, and leaves no root behind.
LEMMA DisposedSound ==
    ASSUME SessionInv, Disposed
    PROVE  \A s \in Sessions : Sound(s)'
<1> USE DEF SessionInv
<1> DEFINE roots == {s \in Unended(parents) : IsRoot(s)}
<1>1. SUFFICES ASSUME NEW s \in Sessions PROVE Sound(s)'
    OBVIOUS
<1>2. /\ parentID' = parentID /\ life' = life /\ parents' = parents /\ stopped' = stopped
      /\ ended' = ended \cup roots
    BY DEF Disposed, Event
<1>3. CASE s \in roots
  <2>1. log'[s] = Append(log[s], "session-end")
    BY <1>3 DEF Disposed
  <2>2. life[s] # "unborn"
    BY <1>3 DEF Unended, Sound, StartsNoted
  <2> QED
    BY <1>2, <1>3, <2>1, <2>2, Ended DEF Unended
<1>4. CASE s \notin roots
  <2>1. log'[s] = log[s]
    BY <1>4 DEF Disposed
  <2>2. \A hooks : At(s, hooks)' = At(s, hooks)
    BY <2>1 DEF At
  <2>3. IsRoot(s)' <=> IsRoot(s)
    BY <1>2 DEF IsRoot
  <2>4. s \in ended' <=> s \in ended
    BY <1>2, <1>4
  <2>5. EndsNoted(s)'
    BY <2>2, <2>4 DEF Sound, EndsNoted, Ends
  <2>6. StartsNoted(s)' /\ Tracked(s)'
    BY <1>2, <2>1, <2>2, <2>3, <2>4
    DEF Sound, StartsNoted, Starts, Stops, Tracked, RootStarts
  <2>7. Cycles(s)'
    BY <1>2, <2>2 DEF Sound, Cycles, Stops, Busies
  <2>8. Closed(s)'
    BY <1>2, <1>4, <2>3 DEF Closed, Unended
  <2> QED
    BY <2>5, <2>6, <2>7, <2>8 DEF Sound
<1> QED
    BY <1>3, <1>4

-----------------------------------------------------------------------------
(* The invariant *)

LEMMA InitSound == Init => SessionInv
<1> SUFFICES ASSUME Init PROVE \A s \in Sessions : Sound(s)
    BY InitTypes DEF SessionInv
<1> TAKE s \in Sessions
<1>1. \A hooks : At(s, hooks) = {}
    BY EmptyLogFacts DEF Init
<1>2. EndsNoted(s) /\ Closed(s) /\ Tracked(s)
    BY <1>1 DEF Init, EndsNoted, Ends, Closed, Tracked, RootStarts
<1>3. StartsNoted(s) /\ Cycles(s)
    BY <1>1 DEF Init, StartsNoted, Starts, Stops, Cycles
<1> QED
    BY <1>2, <1>3 DEF Sound

LEMMA NextSound == SessionInv /\ [Next]_vars => SessionInv'
<1> SUFFICES ASSUME SessionInv, [Next]_vars PROVE \A s \in Sessions : Sound(s)'
    BY NextTypes DEF SessionInv
<1>1. ASSUME UNCHANGED vars PROVE \A s \in Sessions : Sound(s)'
    BY <1>1, Untouched DEF vars, state, SessionInv
<1> QED
    BY <1>1, CreatedSound, IdleSound, BusySound, DeletedSound, DeletedGoesOnSound,
       DisposedSound
    DEF Next, Quiet

\* In every reachable state the history of every session agrees with the plugin's sets.
THEOREM AlwaysSound == Spec => []SessionInv
BY InitSound, NextSound, PTL DEF Spec

\* A set of numbers without two different ones has one at most.
LEMMA AtMostOne ==
    ASSUME NEW S, \A i, j \in S : i = j
    PROVE  Cardinality(S) <= 1
<1>1. CASE S = {}
    BY <1>1, FS_EmptySet
<1>2. CASE S # {}
  <2>1. PICK i : S = {i}
    BY <1>2
  <2>2. Cardinality({i}) = 1
    BY FS_Singleton
  <2> QED
    BY <2>1, <2>2
<1> QED
    BY <1>1, <1>2

LEMMA InvImplies ==
    SessionInv => /\ TypeOK /\ EndsAtMostOnce /\ EndsAfterDisposal
                  /\ OneStopPerCycle /\ StartsOnceAndFirst
<1> SUFFICES ASSUME SessionInv
             PROVE  /\ EndsAtMostOnce /\ EndsAfterDisposal
                    /\ OneStopPerCycle /\ StartsOnceAndFirst
    BY DEF SessionInv
<1> USE DEF SessionInv
<1>1. EndsAtMostOnce
  <2> SUFFICES ASSUME NEW s \in Sessions
               PROVE  Cardinality(Ends(s)) <= IF IsRoot(s) THEN 1 ELSE 0
    BY DEF EndsAtMostOnce, Ends
  <2>1. CASE IsRoot(s)
    BY <2>1, AtMostOne DEF Sound, EndsNoted
  <2>2. CASE ~IsRoot(s)
    <3>1. Ends(s) = {}
      BY <2>2 DEF Sound, EndsNoted, TypeOK
    <3> QED
      BY <2>2, <3>1, FS_EmptySet
  <2> QED
    BY <2>1, <2>2
<1>2. EndsAfterDisposal
    BY DEF EndsAfterDisposal, Sound, Tracked, Closed, EndsNoted, RootStarts, Ends
<1>3. OneStopPerCycle
    BY DEF OneStopPerCycle, Sound, Cycles, Stops, Busies
<1>4. StartsOnceAndFirst
  <2>1. \A s \in Sessions : Cardinality(Starts(s)) <= 1
    BY AtMostOne DEF Sound, StartsNoted
  <2> QED
    BY <2>1 DEF StartsOnceAndFirst, Sound, StartsNoted, Starts, Stops
<1> QED
    BY <1>1, <1>2, <1>3, <1>4

-----------------------------------------------------------------------------
(* Theorems *)

\* The plugin's sets keep their types: what is stopped is tracked, and only a
\* root whose end is delivered waits to be forgotten.
THEOREM TypeCorrect == Spec => []TypeOK
BY AlwaysSound, InvImplies, PTL

\* A root session gets its end at most once, whatever is handled while the hook
\* of its end runs, and a child never does.
THEOREM EndsOnce == Spec => []EndsAtMostOnce
BY AlwaysSound, InvImplies, PTL

\* After the disposal no root whose start was delivered is without its end.
THEOREM DisposalEndsAll == Spec => []EndsAfterDisposal
BY AlwaysSound, InvImplies, PTL

\* Between two stops of a session it was busy.
THEOREM StopsApart == Spec => []OneStopPerCycle
BY AlwaysSound, InvImplies, PTL

\* A session starts at most once, and before it stops.
THEOREM StartsFirst == Spec => []StartsOnceAndFirst
BY AlwaysSound, InvImplies, PTL
=============================================================================
