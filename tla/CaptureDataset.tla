---------------------------- MODULE CaptureDataset ----------------------------
(***************************************************************************)
(* What suggestion capture promises: one entry per blocked command, which  *)
(* counts its blocks and is accepted at most once, by a command of the     *)
(* session that was blocked first.  Every call takes effect atomically and *)
(* once.  Only after a fault may entries be lost, and none ever changes in *)
(* another way.  SuggestionStore implements it.                            *)
(***************************************************************************)
EXTENDS Naturals

CONSTANTS
    Calls,          \* hook processes that use the dataset
    Originals,      \* commands a rule blocks
    Advice,         \* the suggestion a blocked command gets
    NoSession       \* the session id of a payload without one

VARIABLES
    job,            \* what each call is about
    dataset,        \* the entry of each blocked command
    taken,          \* calls that had their effect, or never will
    faults          \* processes that died and writes that failed, so far

vars == <<job, dataset, taken, faults>>

NoEntry == [session |-> NoSession, accepted |-> FALSE, count |-> 0]

Entries(o) == dataset[o] # NoEntry

Init ==
    /\ dataset = [o \in Originals |-> NoEntry]
    /\ taken = {}
    /\ faults = 0

Take(k) ==
    /\ k \notin taken
    /\ taken' = taken \cup {k}

\* The entry after one more block of its command, by a session.
Again(entry, session) ==
    IF entry = NoEntry THEN [session |-> session, accepted |-> FALSE, count |-> 1]
    ELSE [entry EXCEPT !.count = @ + 1]

Block(k) ==
    /\ Take(k)
    /\ job[k].kind = "record"
    /\ LET o == job[k].original
       IN  dataset' = [dataset EXCEPT ![o] = Again(@, job[k].session)]

Matches(k, o) ==
    /\ Entries(o)
    /\ ~dataset[o].accepted
    /\ dataset[o].session = job[k].session
    /\ Advice[o] = job[k].command

\* A command that follows pending suggestions of its session accepts them all;
\* any other changes nothing.
Accept(k) ==
    /\ Take(k)
    /\ job[k].kind = "accept"
    /\ dataset' = [o \in Originals |->
          IF Matches(k, o) THEN [dataset[o] EXCEPT !.accepted = TRUE] ELSE dataset[o]]

\* A fault, now or earlier, costs entries and the effects of calls.
Lose ==
    /\ faults' > 0
    /\ taken \subseteq taken'
    /\ \A o \in Originals : dataset'[o] \in {dataset[o], NoEntry}

Next ==
    /\ UNCHANGED job
    /\ faults' >= faults
    /\ (\E k \in Calls : Block(k) \/ Accept(k)) \/ Lose

Spec == Init /\ [][Next]_vars

=============================================================================
