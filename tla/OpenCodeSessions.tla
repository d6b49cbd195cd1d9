---------------------------- MODULE OpenCodeSessions ----------------------------
(***************************************************************************)
(* The session bookkeeping of the OpenCode plugin                          *)
(* (integrations/opencode/coursers.ts): which lifecycle hooks it runs for  *)
(* which events.  A handler runs alone up to its first await, the answer   *)
(* of the `crs hook` process it started, and goes on when that process is  *)
(* over.  Nobody waits for a handler: other events are handled in between. *)
(*                                                                         *)
(* OpenCode is the environment: it announces what happens to its sessions  *)
(* in order, perhaps twice.  The compaction events run a hook and touch no *)
(* state; the tool, prompt and permission handlers are HookDispatch's.     *)
(***************************************************************************)
EXTENDS Naturals, Sequences, FiniteSets

CONSTANTS
    Sessions,
    None,           \* no parent
    MaxEvents       \* bound on the events of a behaviour

ASSUME SessionAssumption ==
    /\ IsFiniteSet(Sessions)
    /\ None \notin Sessions
    /\ MaxEvents \in Nat

VARIABLES
    parentID,       \* the parent each session is announced with
    life,           \* OpenCode: how far each session has come
    disposed,       \* OpenCode: the server instance is disposed
    events,         \* how many events there were
    parents,        \* sessions.parents: the sessions that are tracked
    ended,          \* sessions.ended
    stopped,        \* sessions.stopped
    deleting,       \* sessions whose deleted handler awaits its hook
    log             \* history: each session's hooks as they were started, and busy events

state == <<parents, ended, stopped>>

vars == <<parentID, life, disposed, events, state, deleting, log>>

-----------------------------------------------------------------------------

Hooks == {"session-start", "subagent-start", "stop", "subagent-stop", "session-end"}

\* Sessions that were there before the plugin was loaded are never announced
\* as created.
Init ==
    /\ parentID \in [Sessions -> Sessions \cup {None}]
    /\ \A s \in Sessions : parentID[s] # None => parentID[parentID[s]] = None
    /\ life \in [Sessions -> {"unborn", "live"}]
    /\ disposed = FALSE
    /\ events = 0
    /\ parents = {}
    /\ ended = {}
    /\ stopped = {}
    /\ deleting = {}
    /\ log = [s \in Sessions |-> <<>>]

IsRoot(s) == parentID[s] = None

ParentLive(s) == parentID[s] \in {None} \cup {p \in Sessions : life[p] = "live"}

\* callBridge: the process is started before the handler first waits.
CallBridge(hook, s) == log' = [log EXCEPT ![s] = Append(@, hook)]

Event ==
    /\ ~disposed
    /\ events < MaxEvents
    /\ events' = events + 1
    /\ UNCHANGED parentID

\* Mutation of Created: the event is taken at its word.
CreatedAgain(s) ==
    /\ Event
    /\ life[s] = "unborn" \/ (life[s] = "live" /\ s \in parents)
    /\ ParentLive(s)
    /\ life' = [life EXCEPT ![s] = "live"]
    /\ parents' = parents \cup {s}
    /\ stopped' = stopped \ {s}
    /\ CallBridge(IF IsRoot(s) THEN "session-start" ELSE "subagent-start", s)
    /\ UNCHANGED <<disposed, ended, deleting>>

\* session.created, once or again.
Created(s) ==
    /\ Event
    /\ life[s] = "unborn" \/ (life[s] = "live" /\ s \in parents)
    /\ ParentLive(s)
    /\ life' = [life EXCEPT ![s] = "live"]
    /\ \/ /\ s \notin parents
          /\ parents' = parents \cup {s}
          /\ stopped' = stopped \ {s}
          /\ CallBridge(IF IsRoot(s) THEN "session-start" ELSE "subagent-start", s)
       \/ /\ s \in parents
          /\ UNCHANGED <<parents, stopped, log>>
    /\ UNCHANGED <<disposed, ended, deleting>>

\* Mutation of Idle: what is stopped is noted after the hook, when it is too late
\* for an idle in between.
IdleNotNoted(s) ==
    /\ Event
    /\ life[s] # "unborn"
    /\ IF s \in parents \ stopped
       THEN CallBridge(IF IsRoot(s) THEN "stop" ELSE "subagent-stop", s)
       ELSE UNCHANGED log
    /\ UNCHANGED <<life, disposed, state, deleting>>

\* session.idle, which OpenCode may also announce for a session that was deleted
\* while it was busy.
Idle(s) ==
    /\ Event
    /\ life[s] # "unborn"
    /\ \/ /\ s \in parents \ stopped
          /\ stopped' = stopped \cup {s}
          /\ CallBridge(IF IsRoot(s) THEN "stop" ELSE "subagent-stop", s)
       \/ /\ s \notin parents \ stopped
          /\ UNCHANGED <<stopped, log>>
    /\ UNCHANGED <<life, disposed, parents, ended, deleting>>

\* session.status, busy.  The log notes it, no hook is run.
Busy(s) ==
    /\ Event
    /\ life[s] # "unborn"
    /\ stopped' = IF s \in parents THEN stopped \ {s} ELSE stopped
    /\ log' = [log EXCEPT ![s] = Append(@, "busy")]
    /\ UNCHANGED <<life, disposed, parents, ended, deleting>>

\* Mutation of Unended: the wrong set.
UnendedStopped(ss) == ss \ stopped

\* deliverSessionEnd does nothing for a session that is in ended.
Unended(ss) == ss \ ended

\* Mutation of Forget: only the parent is forgotten.
ForgetParents(ss) ==
    /\ parents' = parents \ ss
    /\ UNCHANGED stopped

\* The rest of the deleted handler.
Forget(ss) ==
    /\ parents' = parents \ ss
    /\ stopped' = stopped \ ss

\* Mutation of Deleted: the end is noted after the hook.
DeletedLate(s) ==
    /\ Event
    /\ life[s] # "unborn"
    /\ life' = [life EXCEPT ![s] = "deleted"]
    /\ IF IsRoot(s) /\ s \in Unended({s})
       THEN /\ CallBridge("session-end", s)
            /\ deleting' = deleting \cup {s}
            /\ UNCHANGED <<parents, stopped>>
       ELSE /\ Forget({s})
            /\ UNCHANGED <<deleting, log>>
    /\ UNCHANGED <<disposed, ended>>

\* session.deleted, once or again: a root's end is delivered and the handler
\* waits for it; all else is forgotten at once.
Deleted(s) ==
    /\ Event
    /\ life[s] # "unborn"
    /\ life' = [life EXCEPT ![s] = "deleted"]
    /\ \/ /\ IsRoot(s) /\ s \in Unended({s})
          /\ ended' = ended \cup {s}
          /\ CallBridge("session-end", s)
          /\ deleting' = deleting \cup {s}
          /\ UNCHANGED <<parents, stopped>>
       \/ /\ ~(IsRoot(s) /\ s \in Unended({s}))
          /\ Forget({s})
          /\ UNCHANGED <<ended, deleting, log>>
    /\ UNCHANGED disposed

\* The hook the deleted handler waited for is over, and it goes on.
DeletedGoesOn(s) ==
    /\ s \in deleting
    /\ deleting' = deleting \ {s}
    /\ Forget({s})
    /\ UNCHANGED <<parentID, life, disposed, events, ended, log>>

\* server.instance.disposed: the ends of all tracked roots, started together.
Disposed ==
    /\ Event
    /\ disposed' = TRUE
    /\ LET roots == {s \in Unended(parents) : IsRoot(s)}
       IN  /\ ended' = ended \cup roots
           /\ log' = [s \in Sessions |->
                        IF s \in roots THEN Append(log[s], "session-end") ELSE log[s]]
    /\ UNCHANGED <<life, parents, stopped, deleting>>

\* Nothing is left to be handled.
Quiet ==
    /\ disposed \/ events = MaxEvents
    /\ deleting = {}
    /\ UNCHANGED vars

Next ==
    \/ \E s \in Sessions :
          Created(s) \/ Idle(s) \/ Busy(s) \/ Deleted(s) \/ DeletedGoesOn(s)
    \/ Disposed
    \/ Quiet

Spec == Init /\ [][Next]_vars

-----------------------------------------------------------------------------
(* Properties *)

\* Every variable keeps its type, and only a root whose end is delivered waits
\* to be forgotten.
TypeOK ==
    /\ parentID \in [Sessions -> Sessions \cup {None}]
    /\ life \in [Sessions -> {"unborn", "live", "deleted"}]
    /\ disposed \in BOOLEAN
    /\ events \in 0..MaxEvents
    /\ parents \subseteq Sessions
    /\ stopped \subseteq parents
    /\ ended \subseteq {s \in Sessions : IsRoot(s)}
    /\ deleting \subseteq ended
    /\ log \in [Sessions -> Seq(Hooks \cup {"busy"})]

At(s, hooks) == {i \in DOMAIN log[s] : log[s][i] \in hooks}

\* "Run once per tracked root using in-memory deduplication"
\* (docs/opencode.md, SessionEnd): across deletion, repeated deletion and
\* disposal, whatever is handled while a hook runs, a root gets its end at most
\* once, and a child never does.
EndsAtMostOnce ==
    \A s \in Sessions : Cardinality(At(s, {"session-end"})) <= IF IsRoot(s) THEN 1 ELSE 0

\* After the disposal every root whose start was delivered has its end delivered.
EndsAfterDisposal ==
    disposed => \A s \in Sessions :
        At(s, {"session-start"}) # {} => At(s, {"session-end"}) # {}

\* "Duplicate idle events are suppressed until an explicit session.status event
\* reports busy" (docs/opencode.md): between two stops of a session it was busy.
OneStopPerCycle ==
    \A s \in Sessions :
        LET stops == At(s, {"stop", "subagent-stop"})
        IN  \A i, j \in stops : i < j => \E b \in At(s, {"busy"}) : i < b /\ b < j

\* SessionStart and SubagentStart "run once": a session has at most one start,
\* and no stop is delivered before it.
StartsOnceAndFirst ==
    \A s \in Sessions :
        LET starts == At(s, {"session-start", "subagent-start"})
        IN  /\ Cardinality(starts) <= 1
            /\ \A i \in At(s, {"stop", "subagent-stop"}) : \E j \in starts : j < i

=============================================================================
