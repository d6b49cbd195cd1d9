------------------------------ MODULE PipedChild ------------------------------
(***************************************************************************)
(* A hook and a program it starts over pipes: obfsck for a redaction       *)
(* (run_redact), the shell of a `run` or `notify` rule (run_side_effect)   *)
(* and obfsck-mcp (obfsck/process.rs).  All three write the whole input    *)
(* before they read anything (write_all, then wait_with_output), and a     *)
(* pipe holds only so much.  Text is counted in units a pipe has room for  *)
(* Capacity of; a rule without raw_json writes a text of length 0.         *)
(***************************************************************************)
EXTENDS Naturals

CONSTANTS
    Capacity,   \* what a pipe holds
    MaxText     \* bound: the longest input

ASSUME PipeAssumption == Capacity \in Nat \ {0} /\ MaxText \in Nat

VARIABLES
    text,       \* the length of the input
    style,      \* whether the child answers as it reads, or at the end
    parent,     \* where the hook is
    sent,       \* how much of the input it has written
    got,        \* how much of the output it has read
    child,      \* whether the child runs, or how it ended
    toChild,    \* what is in the child's stdin
    fromChild,  \* what is in the child's stdout
    taken,      \* how much the child has read
    given       \* how much it has written

pipeVars == <<text, style, parent, sent, got, child, toChild, fromChild, taken, given>>

-----------------------------------------------------------------------------

PipeInit ==
    /\ text \in 0..MaxText
    /\ style \in {"streams", "collects"}
    /\ parent = "write"
    /\ sent = 0
    /\ got = 0
    /\ child = "running"
    /\ toChild = 0
    /\ fromChild = 0
    /\ taken = 0
    /\ given = 0

\* write_all: blocks while the pipe is full.
WriteInput ==
    /\ parent = "write"
    /\ sent < text
    /\ child = "running"
    /\ toChild < Capacity
    /\ sent' = sent + 1
    /\ toChild' = toChild + 1
    /\ UNCHANGED <<text, style, parent, got, child, fromChild, taken, given>>

\* Mutation of CloseInput: the handle is kept until the hook is done.
KeepInput ==
    /\ parent = "write"
    /\ child # "running"
    /\ parent' = "wait"
    /\ UNCHANGED <<text, style, sent, got, child, toChild, fromChild, taken, given>>

\* The handle is dropped when all is written, or when the child is gone and
\* the error of the write is ignored.
CloseInput ==
    /\ parent = "write"
    /\ sent = text \/ child # "running"
    /\ parent' = "wait"
    /\ UNCHANGED <<text, style, sent, got, child, toChild, fromChild, taken, given>>

\* wait_with_output reads until the child closes its end ...
ReadOutput ==
    /\ parent = "wait"
    /\ fromChild > 0
    /\ fromChild' = fromChild - 1
    /\ got' = got + 1
    /\ UNCHANGED <<text, style, parent, sent, child, toChild, taken, given>>

\* Mutation of Finish: wait() for the status, then whatever has been read.
FinishEarly ==
    /\ parent = "wait"
    /\ child # "running"
    /\ parent' = "done"
    /\ UNCHANGED <<text, style, sent, got, child, toChild, fromChild, taken, given>>

\* ... and takes its status.
Finish ==
    /\ parent = "wait"
    /\ child # "running"
    /\ fromChild = 0
    /\ parent' = "done"
    /\ UNCHANGED <<text, style, sent, got, child, toChild, fromChild, taken, given>>

\* The harness gives up on the hook; nobody reads or writes for the child.
Killed ==
    /\ parent \in {"write", "wait"}
    /\ parent' = "killed"
    /\ UNCHANGED <<text, style, sent, got, child, toChild, fromChild, taken, given>>

-----------------------------------------------------------------------------
(* The child: as many units out as in *)

ChildReads ==
    /\ child = "running"
    /\ toChild > 0
    /\ style = "streams" => taken = given
    /\ toChild' = toChild - 1
    /\ taken' = taken + 1
    /\ UNCHANGED <<text, style, parent, sent, got, child, fromChild, given>>

InputEnded == parent # "write" /\ toChild = 0

ChildWrites ==
    /\ child = "running"
    /\ given < taken
    /\ style = "collects" => InputEnded
    /\ fromChild < Capacity
    /\ fromChild' = fromChild + 1
    /\ given' = given + 1
    /\ UNCHANGED <<text, style, parent, sent, got, child, toChild, taken>>

ChildExits ==
    /\ child = "running"
    /\ InputEnded
    /\ given = taken
    /\ child' = "succeeded"
    /\ UNCHANGED <<text, style, parent, sent, got, toChild, fromChild, taken, given>>

\* The child fails, anywhere; so does one whose output nobody is left to read.
ChildFails ==
    /\ child = "running"
    /\ child' = "failed"
    /\ UNCHANGED <<text, style, parent, sent, got, toChild, fromChild, taken, given>>

PipeOver ==
    /\ parent \in {"done", "killed"}
    /\ child # "running"
    /\ UNCHANGED pipeVars

HookSteps == WriteInput \/ CloseInput \/ ReadOutput \/ Finish
ChildSteps == ChildReads \/ ChildWrites \/ ChildExits

PipeNext == HookSteps \/ ChildSteps \/ Killed \/ ChildFails \/ PipeOver

\* The kernel runs both processes.  Nothing makes a child fail, and nothing
\* makes the harness give up.
PipeFairness == WF_pipeVars(HookSteps) /\ WF_pipeVars(ChildSteps)

PipeSpec == PipeInit /\ [][PipeNext]_pipeVars /\ PipeFairness

-----------------------------------------------------------------------------
(* Properties *)

\* What hook and child hold between them when neither reads on: both pipes and
\* the unit in the child's hands.
RoomBetween == 2 * Capacity + 1

\* run_redact, run_side_effect and the obfsck client return, whatever the
\* child does, unless it answers while it reads and the text is longer than
\* what fits between them: then each waits for the other until one is killed.
HookReturns ==
    style = "collects" \/ text <= RoomBetween
        ~> parent \in {"done", "killed"}

\* run_redact replaces a text by the child's output only as a whole: when the
\* child succeeded, all of its output to the whole text has been read.
OutputReadWhole ==
    parent = "done" /\ child = "succeeded" => got = text

=============================================================================
