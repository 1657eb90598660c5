----------------------------- MODULE CommandRunner -----------------------------
(***************************************************************************)
(* RealCommandRunner::run: how the installer runs a program                *)
(* (g7-system/src/command.rs).  The program, a process it may leave        *)
(* behind, the two threads that read its output and the thread that feeds  *)
(* its input and waits all run at once, joined by pipes of bounded size.   *)
(***************************************************************************)
EXTENDS Naturals, Sequences

CONSTANTS
    Programs,   \* what a program does: a sequence of Ops
    Inputs,     \* units of standard input it is given, or NoInput
    NoInput,
    Capacity    \* units, or lines, a pipe holds

ASSUME CapacityAssumption == Capacity \in Nat \ {0}

\* Read some input, close it, write a line or an empty one, leave a process behind.
Ops == {"read", "close", "out", "blank", "err", "leave"}
Streams == {"stdout", "stderr"}
StreamOf(op) == IF op = "err" THEN "stderr" ELSE "stdout"

\* A program's steps are known, and input is counted.
ASSUME CommandsAreGiven ==
    /\ Programs \subseteq Seq(Ops)
    /\ \A input \in Inputs : input = NoInput \/ input \in Nat

VARIABLES
    spec,      \* the command: program, input
    pc,        \* where run() is
    stdin,     \* input left to write, held in the pipe, and whether run() holds its end
    rest,      \* what the program has left to do
    child,     \* "none", "deaf" (its input closed), "running", "exited"
    helper,    \* the process left behind: "none", "running", "exited"
    pipe,      \* lines on their way
    wrote,     \* history: lines written
    got,       \* lines read: what run() returns
    reader,    \* "none", "reading", "done"
    events,    \* what the observer was told
    audit,     \* commands.jsonl: the starts and finishes on record
    result     \* "none", "ok", "error"

runner == <<pc, result>>
program == <<rest, child, helper>>
shown == <<events, audit>>
vars == <<spec, runner, stdin, program, pipe, wrote, got, reader, shown>>

Entry(event, lines) == [event |-> event, lines |-> lines]

Init ==
    /\ spec \in [program : Programs, input : Inputs]
    /\ pc = "start" /\ result = "none"
    /\ stdin = [left |-> 0, held |-> 0, open |-> FALSE]
    /\ rest = <<>> /\ child = "none" /\ helper = "none"
    /\ pipe = [s \in Streams |-> <<>>] /\ wrote = pipe /\ got = pipe
    /\ reader = [s \in Streams |-> "none"]
    /\ events = <<>> /\ audit = <<>>

---------------------------------------------------------------------------
\* run()

\* The audit entry is written, and the observer told, before anything is done.
Start ==
    /\ pc = "start"
    /\ audit' = Append(audit, "start")
    /\ events' = Append(events, Entry("start", <<>>))
    /\ pc' = "spawn"
    /\ UNCHANGED <<spec, result, stdin, program, pipe, wrote, got, reader>>

SpawnFails ==
    /\ pc = "spawn"
    /\ pc' = "done" /\ result' = "error"
    /\ UNCHANGED <<spec, stdin, program, pipe, wrote, got, reader, shown>>

\* Both readers are started before any input is written.
Spawn ==
    /\ pc = "spawn"
    /\ rest' = spec.program /\ child' = "running"
    /\ reader' = [s \in Streams |-> "reading"]
    /\ IF spec.input = NoInput
         THEN pc' = "wait" /\ UNCHANGED stdin
         ELSE pc' = "write" /\ stdin' = [left |-> spec.input, held |-> 0, open |-> TRUE]
    /\ UNCHANGED <<spec, result, helper, pipe, wrote, got, shown>>

InputRead == child = "running" \/ helper = "running"

\* Slip: input is written whether the program reads or not.
WriteInputAhead ==
    /\ pc = "write" /\ stdin.left > 0 /\ InputRead
    /\ stdin' = [stdin EXCEPT !.left = @ - 1, !.held = @ + 1]
    /\ UNCHANGED <<spec, runner, program, pipe, wrote, got, reader, shown>>

WriteInput ==
    /\ pc = "write" /\ stdin.left > 0
    /\ InputRead /\ stdin.held < Capacity
    /\ stdin' = [stdin EXCEPT !.left = @ - 1, !.held = @ + 1]
    /\ UNCHANGED <<spec, runner, program, pipe, wrote, got, reader, shown>>

\* Nobody reads the input any more.  The error is returned once the readers
\* have ended; the program is not waited for.
WriteFails ==
    /\ pc = "write" /\ stdin.left > 0 /\ ~InputRead
    /\ stdin' = [stdin EXCEPT !.open = FALSE]
    /\ pc' = "abandon"
    /\ UNCHANGED <<spec, result, program, pipe, wrote, got, reader, shown>>

CloseInput ==
    /\ pc = "write" /\ stdin.left = 0
    /\ stdin' = [stdin EXCEPT !.open = FALSE]
    /\ pc' = "wait"
    /\ UNCHANGED <<spec, result, program, pipe, wrote, got, reader, shown>>

Wait ==
    /\ pc = "wait" /\ child = "exited"
    /\ pc' = "join"
    /\ UNCHANGED <<spec, result, stdin, program, pipe, wrote, got, reader, shown>>

\* Slip: only one of the readers is joined.
StdoutEnded == reader["stdout"] = "done"

ReadersEnded == \A s \in Streams : reader[s] = "done"

\* Slip: what has been read when the program exits is taken for all.
JoinAtExit ==
    /\ pc = "join"
    /\ pc' = "finish"
    /\ UNCHANGED <<spec, result, stdin, program, pipe, wrote, got, reader, shown>>

Join ==
    /\ pc = "join" /\ ReadersEnded
    /\ pc' = "finish"
    /\ UNCHANGED <<spec, result, stdin, program, pipe, wrote, got, reader, shown>>

Abandon ==
    /\ pc = "abandon" /\ ReadersEnded
    /\ pc' = "done" /\ result' = "error"
    /\ UNCHANGED <<spec, stdin, program, pipe, wrote, got, reader, shown>>

Finish ==
    /\ pc = "finish"
    /\ audit' = Append(audit, "finish")
    /\ events' = Append(events, Entry("finish", <<>>))
    /\ pc' = "done" /\ result' = "ok"
    /\ UNCHANGED <<spec, stdin, program, pipe, wrote, got, reader>>

---------------------------------------------------------------------------
\* read_stream, one thread for each stream

\* An empty line is output that the observer is not told of.
Tell(line) ==
    events' = IF line.op = "blank" THEN events ELSE Append(events, Entry("line", <<line>>))

\* Slip: output is read once the input has been written.
ReadLineLater(s) ==
    /\ reader[s] = "reading" /\ pipe[s] # <<>> /\ pc # "write"
    /\ got' = [got EXCEPT ![s] = Append(@, Head(pipe[s]))]
    /\ Tell(Head(pipe[s]))
    /\ pipe' = [pipe EXCEPT ![s] = Tail(@)]
    /\ UNCHANGED <<spec, runner, stdin, program, wrote, reader, audit>>

ReadLine(s) ==
    /\ reader[s] = "reading" /\ pipe[s] # <<>>
    /\ got' = [got EXCEPT ![s] = Append(@, Head(pipe[s]))]
    /\ Tell(Head(pipe[s]))
    /\ pipe' = [pipe EXCEPT ![s] = Tail(@)]
    /\ UNCHANGED <<spec, runner, stdin, program, wrote, reader, audit>>

\* The end is reached when nobody holds the other end of the pipe.
HeldOpen == child \in {"running", "deaf"} \/ helper = "running"

ReadEnd(s) ==
    /\ reader[s] = "reading" /\ pipe[s] = <<>> /\ ~HeldOpen
    /\ reader' = [reader EXCEPT ![s] = "done"]
    /\ UNCHANGED <<spec, runner, stdin, program, pipe, wrote, got, shown>>

---------------------------------------------------------------------------
\* The program, and what it leaves behind

Does(op) == child \in {"running", "deaf"} /\ rest # <<>> /\ Head(rest) = op /\ rest' = Tail(rest)

\* Waits until there is input or there will be none.
ProgramReads ==
    /\ Does("read")
    /\ stdin.held > 0 \/ ~stdin.open
    /\ stdin' = [stdin EXCEPT !.held = IF @ > 0 THEN @ - 1 ELSE 0]
    /\ UNCHANGED <<spec, runner, child, helper, pipe, wrote, got, reader, shown>>

ProgramClosesInput ==
    /\ Does("close")
    /\ child' = "deaf"
    /\ UNCHANGED <<spec, runner, stdin, helper, pipe, wrote, got, reader, shown>>

Puts(s, op) ==
    /\ Len(pipe[s]) < Capacity
    /\ LET line == [op |-> op, no |-> Len(wrote[s]) + 1]
       IN /\ pipe' = [pipe EXCEPT ![s] = Append(@, line)]
          /\ wrote' = [wrote EXCEPT ![s] = Append(@, line)]
    /\ UNCHANGED <<spec, runner, stdin, got, reader, shown>>

\* Waits while the pipe is full.
ProgramWrites(op) ==
    /\ Does(op)
    /\ Puts(StreamOf(op), op)
    /\ UNCHANGED <<child, helper>>

ProgramLeaves ==
    /\ Does("leave")
    /\ helper' = "running"
    /\ UNCHANGED <<spec, runner, stdin, child, pipe, wrote, got, reader, shown>>

ProgramExits ==
    /\ child \in {"running", "deaf"} /\ rest = <<>>
    /\ child' = "exited"
    /\ UNCHANGED <<spec, runner, stdin, rest, helper, pipe, wrote, got, reader, shown>>

\* The process left behind has inherited the pipes; it ends after a last line.
HelperEnds ==
    /\ helper = "running"
    /\ helper' = "exited"
    /\ Puts("stdout", "out")
    /\ UNCHANGED <<rest, child>>

---------------------------------------------------------------------------

Run == Start \/ SpawnFails \/ Spawn \/ WriteInput \/ WriteFails \/ CloseInput \/ Wait
       \/ Join \/ Abandon \/ Finish
Read(s) == ReadLine(s) \/ ReadEnd(s)
Program == \/ ProgramReads \/ ProgramClosesInput \/ ProgramLeaves \/ ProgramExits
           \/ \E op \in {"out", "blank", "err"} : ProgramWrites(op)

\* run() has returned: nothing is left to happen.
Returned == pc = "done" /\ UNCHANGED vars

Next == Run \/ (\E s \in Streams : Read(s)) \/ Program \/ HelperEnds \/ Returned

\* Threads are scheduled, programs run on, and what they leave behind ends.
Fairness ==
    /\ WF_vars(Run)
    /\ \A s \in Streams : WF_vars(Read(s))
    /\ WF_vars(Program) /\ WF_vars(HelperEnds)

Spec == Init /\ [][Next]_vars
FairSpec == Spec /\ Fairness

---------------------------------------------------------------------------
(* Properties.                                                             *)

(* The pipes hold no more than they can, a command has one outcome.        *)
TypeOK ==
    /\ pc \in {"start", "spawn", "write", "wait", "join", "abandon", "finish", "done"}
    /\ result \in {"none", "ok", "error"} /\ (result = "none") = (pc # "done")
    /\ stdin.held \in 0..Capacity
    /\ child \in {"none", "running", "deaf", "exited"}
    /\ helper \in {"none", "running", "exited"}
    /\ reader \in [Streams -> {"none", "reading", "done"}]
    /\ \A s \in Streams : Len(pipe[s]) <= Capacity

(* A command that succeeds returns all its output, in order, whatever the  *)
(* threads do: run() joins the readers after it has waited.                *)
OutputWhole == result = "ok" => got = wrote

(* The observer hears of a command from its start to its finish and in     *)
(* between of every line that is not empty, those of a stream in their      *)
(* order, and of nothing once run() has returned: the next command's       *)
(* events are its own.  Lines are numbered as they are written.            *)
LineAt(i) == events[i].lines[1]
ShownAt(s) == {i \in DOMAIN events : events[i].event = "line" /\ StreamOf(LineAt(i).op) = s}
EventsFaithful ==
    /\ events # <<>> => events[1].event = "start"
    /\ \A i \in DOMAIN events : events[i].event = "finish" => i = Len(events)
    /\ \A s \in Streams :
         /\ \A i \in ShownAt(s) :
               LineAt(i).no \in DOMAIN wrote[s] /\ LineAt(i) = wrote[s][LineAt(i).no]
         /\ \A i, j \in ShownAt(s) : i < j => LineAt(i).no < LineAt(j).no
    /\ result # "none" =>
         /\ \A s \in Streams : \A k \in DOMAIN wrote[s] :
               wrote[s][k].op # "blank" => \E i \in ShownAt(s) : LineAt(i).no = k
         /\ (result = "ok") = (events[Len(events)].event = "finish")

(* run() returns: no program, whatever it reads and writes first, and       *)
(* however little the pipes hold, gets stuck with it.                      *)
Returns == <>(pc = "done")

===============================================================================
