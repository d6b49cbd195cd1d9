---------------------------- MODULE FailureMemory ----------------------------
(***************************************************************************)
(* What failure learning promises, without processes and files: one memory *)
(* of failed commands that is updated and consulted atomically.            *)
(* FailureStore implements it when its hook processes do not overlap.      *)
(***************************************************************************)
EXTENDS FailureLearning

CONSTANTS
    RuleBlocked,    \* commands a predefined rule denies
    Faults          \* whether a pre-hook may die before it has answered

VARIABLES
    now,
    memory,         \* the State all hooks share
    command,        \* the command each call runs
    verdict,        \* what the pre-hook answered
    saved           \* the calls whose failure the memory has taken in

vars == <<now, memory, command, verdict, saved>>

Init ==
    /\ now = 0
    /\ memory = EmptyState
    /\ command \in [Calls -> Commands]
    /\ verdict = [k \in Calls |-> "none"]
    /\ saved = {}

Answer(k, v) ==
    /\ verdict[k] = "none"
    /\ verdict' = [verdict EXCEPT ![k] = v]
    /\ UNCHANGED <<now, memory, command, saved>>

DenyByRule(k) == command[k] \in RuleBlocked /\ Answer(k, "rule")

\* A call is judged by the memory, at this moment, pruned at most.
Judge(k) ==
    /\ command[k] \notin RuleBlocked
    /\ \E t \in 0..now : \E state \in Prune(memory, t) \cup {memory} :
          Answer(k, IF Learned(state, command[k], now) THEN "learned" ELSE "allow")

\* A hook that dies lets the call through.
FailOpen(k) ==
    /\ Faults
    /\ command[k] \notin RuleBlocked
    /\ Answer(k, "allow")

\* The failure of an allowed call is taken in at once, and only once.
Learn(k) ==
    /\ verdict[k] = "allow"
    /\ k \notin saved
    /\ saved' = saved \cup {k}
    /\ \E t \in 0..now : memory' \in RecordFailure(memory, command[k], k, t)
    /\ UNCHANGED <<now, command, verdict>>

Forget ==
    /\ \E t \in 0..now : memory' \in Prune(memory, t)
    /\ UNCHANGED <<now, command, verdict, saved>>

Tick ==
    /\ now' \in Time
    /\ now' > now
    /\ UNCHANGED <<memory, command, verdict, saved>>

Next ==
    \/ \E k \in Calls : DenyByRule(k) \/ Judge(k) \/ FailOpen(k) \/ Learn(k)
    \/ Forget
    \/ Tick

Spec == Init /\ [][Next]_vars

=============================================================================
