-------------------------- MODULE CommandRunnerProofs --------------------------
(***************************************************************************)
(* Whatever a program does, whatever it is given, however small the pipes: *)
(* a command that succeeds returns all the output, and the observer hears   *)
(* of every line once and in order; no command gets stuck or goes on for   *)
(* ever.                                                                   *)
(***************************************************************************)
EXTENDS CommandRunner, SequenceTheorems, TLAPS

Line == [op : Ops, no : Nat]

(* What was written is what was read and what is on its way.               *)
Conserved ==
    /\ wrote \in [Streams -> Seq(Line)]
    /\ got \in [Streams -> Seq(Line)]
    /\ pipe \in [Streams -> Seq(Line)]
    /\ \A s \in Streams : wrote[s] = got[s] \o pipe[s]

(* A reader ends when its pipe is empty and nobody can write any more, and *)
(* run() succeeds when both have ended.                                    *)
EndsInOrder ==
    /\ reader \in [Streams -> {"none", "reading", "done"}]
    /\ \A s \in Streams : reader[s] = "done" => pipe[s] = <<>> /\ ~HeldOpen
    /\ pc \in {"start", "spawn"} => child = "none" /\ \A s \in Streams : reader[s] = "none"
    /\ pc = "finish" \/ result = "ok" => ReadersEnded

IInv == Conserved /\ EndsInOrder

LEMMA WriteKeeps ==
    ASSUME NEW g \in Seq(Line), NEW p \in Seq(Line), NEW l \in Line
    PROVE  Append(g \o p, l) = g \o Append(p, l)
<1>1. g \o p \in Seq(Line) /\ <<l>> \in Seq(Line)
  BY ConcatProperties
<1>2. Append(g \o p, l) = (g \o p) \o <<l>> /\ Append(p, l) = p \o <<l>>
  BY <1>1, AppendIsConcat
<1> QED
  BY <1>1, <1>2, ConcatAssociative

LEMMA ReadKeeps ==
    ASSUME NEW g \in Seq(Line), NEW p \in Seq(Line), p # <<>>
    PROVE  /\ Append(g, Head(p)) \in Seq(Line) /\ Tail(p) \in Seq(Line)
           /\ g \o p = Append(g, Head(p)) \o Tail(p)
<1>1. Head(p) \in Line /\ Tail(p) \in Seq(Line) /\ p = <<Head(p)>> \o Tail(p)
  BY HeadTailProperties
<1>2. <<Head(p)>> \in Seq(Line) /\ Append(g, Head(p)) = g \o <<Head(p)>>
  BY <1>1, AppendIsConcat
<1>3. Append(g, Head(p)) \in Seq(Line)
  BY <1>1, AppendProperties
<1>4. g \o (<<Head(p)>> \o Tail(p)) = (g \o <<Head(p)>>) \o Tail(p)
  BY <1>1, <1>2, ConcatAssociative
<1> QED
  BY <1>1, <1>2, <1>3, <1>4

(* A line is written only while the program or its helper holds the pipes. *)
LEMMA PutsKeeps ==
    ASSUME IInv, NEW s \in Streams, NEW op \in Ops, Puts(s, op), HeldOpen
    PROVE  Conserved' /\ \A t \in Streams : reader'[t] # "done"
<1>1. \A t \in Streams : reader[t] # "done"
  BY DEF IInv, EndsInOrder
<1> DEFINE l == [op |-> op, no |-> Len(wrote[s]) + 1]
<1>2. wrote[s] \in Seq(Line) /\ Len(wrote[s]) \in Nat
  BY DEF IInv, Conserved
<1>3. l \in Line
  BY <1>2 DEF Line
<1>4. /\ pipe' = [pipe EXCEPT ![s] = Append(@, l)]
      /\ wrote' = [wrote EXCEPT ![s] = Append(@, l)]
      /\ UNCHANGED <<got, reader>>
  BY DEF Puts
<1> HIDE DEF l
<1>5. Append(pipe[s], l) \in Seq(Line) /\ Append(wrote[s], l) \in Seq(Line)
  BY <1>2, <1>3, AppendProperties DEF IInv, Conserved
<1>6. Append(wrote[s], l) = got[s] \o Append(pipe[s], l)
  <2>1. got[s] \in Seq(Line) /\ pipe[s] \in Seq(Line) /\ wrote[s] = got[s] \o pipe[s]
    BY DEF IInv, Conserved
  <2>2. Append(got[s] \o pipe[s], l) = got[s] \o Append(pipe[s], l)
    BY <1>3, <2>1, WriteKeeps
  <2> QED
    BY <2>1, <2>2
<1> QED
  BY <1>1, <1>4, <1>5, <1>6 DEF IInv, Conserved

LEMMA Conservation == Spec => []IInv
<1>1. Init => IInv
  <2>1. <<>> \in Seq(Line) /\ <<>> \o <<>> = <<>>
    BY ConcatEmptySeq
  <2> QED
    BY <2>1 DEF Init, IInv, Conserved, EndsInOrder
<1>2. IInv /\ [Next]_vars => IInv'
  <2> SUFFICES ASSUME IInv, [Next]_vars PROVE IInv'
    OBVIOUS
  <2> USE DEF IInv
  <2>1. CASE Run
    <3>1. UNCHANGED <<pipe, wrote, got>>
      BY <2>1 DEF Run, Start, SpawnFails, Spawn, WriteInput, WriteFails, CloseInput, Wait,
         Join, Abandon, Finish
    <3>2. CASE Spawn
      BY <3>1, <3>2 DEF Spawn, Conserved, EndsInOrder, ReadersEnded
    <3>3. CASE Start \/ SpawnFails \/ WriteInput \/ WriteFails \/ CloseInput \/ Wait
      BY <3>1, <3>3 DEF Start, SpawnFails, WriteInput, WriteFails, CloseInput, Wait,
         program, runner, Conserved, EndsInOrder, ReadersEnded, HeldOpen
    <3>4. CASE Join \/ Abandon \/ Finish
      BY <3>1, <3>4 DEF Join, Abandon, Finish, program, Conserved, EndsInOrder,
         ReadersEnded, HeldOpen
    <3> QED
      BY <2>1, <3>2, <3>3, <3>4 DEF Run
  <2>2. ASSUME NEW s \in Streams, ReadLine(s) PROVE IInv'
    <3>1. /\ reader[s] = "reading" /\ pipe[s] # <<>>
          /\ got' = [got EXCEPT ![s] = Append(@, Head(pipe[s]))]
          /\ pipe' = [pipe EXCEPT ![s] = Tail(@)]
          /\ UNCHANGED <<wrote, reader, pc, result, child, helper>>
      BY <2>2 DEF ReadLine, runner, program
    <3>2. /\ Append(got[s], Head(pipe[s])) \in Seq(Line) /\ Tail(pipe[s]) \in Seq(Line)
          /\ got[s] \o pipe[s] = Append(got[s], Head(pipe[s])) \o Tail(pipe[s])
      BY <3>1, ReadKeeps DEF Conserved
    <3>3. Conserved'
      BY <3>1, <3>2 DEF Conserved
    <3>4. EndsInOrder'
      BY <3>1 DEF EndsInOrder, Conserved, HeldOpen, ReadersEnded
    <3> QED
      BY <3>3, <3>4
  <2>3. ASSUME NEW s \in Streams, ReadEnd(s) PROVE IInv'
    BY <2>3 DEF ReadEnd, runner, program, Conserved, EndsInOrder, HeldOpen, ReadersEnded
  <2>4. CASE ProgramReads \/ ProgramClosesInput \/ ProgramLeaves \/ ProgramExits
    <3>1. UNCHANGED <<pipe, wrote, got, reader, pc, result>> /\ child \in {"running", "deaf"}
      BY <2>4 DEF ProgramReads, ProgramClosesInput, ProgramLeaves, ProgramExits, Does, runner
    <3>2. HeldOpen
      BY <3>1 DEF HeldOpen
    <3> QED
      BY <3>1, <3>2 DEF Conserved, EndsInOrder, ReadersEnded
  <2>5. ASSUME NEW op \in {"out", "blank", "err"}, ProgramWrites(op) PROVE IInv'
    <3>1. HeldOpen /\ op \in Ops /\ StreamOf(op) \in Streams /\ Puts(StreamOf(op), op)
      BY <2>5 DEF ProgramWrites, Does, HeldOpen, Ops, StreamOf, Streams
    <3>2. Conserved' /\ \A t \in Streams : reader'[t] # "done"
      BY <3>1, PutsKeeps
    <3>3. UNCHANGED <<pc, result, reader, child, helper>>
      BY <2>5 DEF ProgramWrites, Puts, runner
    <3> QED
      BY <3>2, <3>3 DEF EndsInOrder, ReadersEnded
  <2>6. CASE HelperEnds
    <3>1. HeldOpen /\ "out" \in Ops /\ "stdout" \in Streams /\ Puts("stdout", "out")
      BY <2>6 DEF HelperEnds, HeldOpen, Ops, Streams
    <3>2. Conserved' /\ \A t \in Streams : reader'[t] # "done"
      BY <3>1, PutsKeeps
    <3>3. UNCHANGED <<pc, result, reader, child>>
      BY <2>6 DEF HelperEnds, Puts, runner
    <3> QED
      BY <3>2, <3>3 DEF EndsInOrder, ReadersEnded
  <2>7. CASE UNCHANGED vars
    BY <2>7 DEF vars, runner, program, Conserved, EndsInOrder, HeldOpen, ReadersEnded
  <2> QED
    BY <2>1, <2>2, <2>3, <2>4, <2>5, <2>6, <2>7 DEF Next, Read, Program, Returned
<1> QED
  BY <1>1, <1>2, PTL DEF Spec

(* Theorem: a command that succeeds returns what was written.              *)
THEOREM OutputWholeAlways == Spec => []OutputWhole
<1>1. IInv => OutputWhole
  <2> SUFFICES ASSUME IInv, result = "ok" PROVE got = wrote
    BY DEF OutputWhole
  <2>1. \A s \in Streams : pipe[s] = <<>>
    BY DEF IInv, EndsInOrder, ReadersEnded
  <2>2. \A s \in Streams : wrote[s] = got[s]
    BY <2>1, ConcatEmptySeq DEF IInv, Conserved
  <2> QED
    BY <2>2 DEF IInv, Conserved
<1> QED
  BY <1>1, Conservation, PTL

---------------------------------------------------------------------------
(* What the observer is told are entries.                                  *)
Entries == [event : {"start", "line", "finish"}, lines : Seq(Line)]
Logged == events \in Seq(Entries)

LEMMA LoggedAlways == Spec => []Logged
<1>1. Init => Logged
  BY EmptySeq DEF Init, Logged
<1>2. IInv /\ Logged /\ [Next]_vars => Logged'
  <2> SUFFICES ASSUME IInv, Logged, [Next]_vars PROVE Logged'
    OBVIOUS
  <2>1. ASSUME NEW event \in {"start", "line", "finish"}, NEW ls \in Seq(Line),
               events' = Append(events, Entry(event, ls))
        PROVE  Logged'
    <3>1. Entry(event, ls) \in Entries
      BY DEF Entry, Entries
    <3> QED
      BY <2>1, <3>1, AppendProperties DEF Logged
  <2>2. CASE Start \/ Finish
    <3>1. <<>> \in Seq(Line)
      BY EmptySeq
    <3> QED
      BY <2>1, <2>2, <3>1 DEF Start, Finish
  <2>3. ASSUME NEW s \in Streams, ReadLine(s) PROVE Logged'
    <3>1. Head(pipe[s]) \in Line
      BY <2>3, HeadTailProperties DEF ReadLine, IInv, Conserved
    <3>2. <<Head(pipe[s])>> \in Seq(Line)
      BY <3>1
    <3>3. CASE events' = events
      BY <3>3 DEF Logged
    <3>4. CASE events' = Append(events, Entry("line", <<Head(pipe[s])>>))
      BY <2>1, <3>2, <3>4
    <3> QED
      BY <2>3, <3>3, <3>4 DEF ReadLine, Tell
  <2>4. CASE UNCHANGED events
    BY <2>4 DEF Logged
  <2> QED
    BY <2>2, <2>3, <2>4 DEF Next, Run, SpawnFails, Spawn, WriteInput, WriteFails,
       CloseInput, Wait, Join, Abandon, Read, ReadEnd, Program, ProgramReads,
       ProgramClosesInput, ProgramLeaves, ProgramExits, ProgramWrites, Puts, HelperEnds,
       Returned, vars, shown
<1> QED
  BY <1>1, <1>2, Conservation, PTL DEF Spec

---------------------------------------------------------------------------
(* The pipes hold no more than they can.                                   *)
Typed == TypeOK /\ "held" \in DOMAIN stdin

THEOREM RunnerTypes == Spec => []TypeOK
<1>1. Init => Typed
  BY CapacityAssumption DEF Init, Typed, TypeOK
<1>2. IInv /\ Typed /\ [Next]_vars => Typed'
  <2> SUFFICES ASSUME IInv, Typed, [Next]_vars PROVE Typed'
    OBVIOUS
  <2> USE CapacityAssumption DEF Typed, TypeOK
  <2>1. CASE Run
    <3>1. CASE Start \/ SpawnFails \/ Wait \/ Join \/ Abandon \/ Finish
      BY <3>1 DEF Start, SpawnFails, Wait, Join, Abandon, Finish, program
    <3>2. CASE Spawn
      BY <3>2 DEF Spawn
    <3>3. CASE WriteInput
      BY <3>3 DEF WriteInput, runner, program
    <3>4. CASE WriteFails \/ CloseInput
      BY <3>4 DEF WriteFails, CloseInput, program
    <3> QED
      BY <2>1, <3>1, <3>2, <3>3, <3>4 DEF Run
  <2>2. ASSUME NEW s \in Streams, ReadLine(s) PROVE Typed'
    <3>1. Len(Tail(pipe[s])) <= Len(pipe[s])
      BY <2>2, HeadTailProperties, LenProperties DEF ReadLine, IInv, Conserved
    <3> QED
      BY <2>2, <3>1, LenProperties DEF ReadLine, runner, program, IInv, Conserved
  <2>3. ASSUME NEW s \in Streams, ReadEnd(s) PROVE Typed'
    BY <2>3 DEF ReadEnd, runner, program
  <2>4. CASE ProgramReads \/ ProgramClosesInput \/ ProgramLeaves \/ ProgramExits
    BY <2>4 DEF ProgramReads, ProgramClosesInput, ProgramLeaves, ProgramExits, Does, runner
  <2>5. ASSUME NEW s \in Streams, NEW op \in Ops, Puts(s, op),
               child' \in {"none", "running", "deaf", "exited"},
               helper' \in {"none", "running", "exited"}
        PROVE  Typed'
    <3> DEFINE l == [op |-> op, no |-> Len(wrote[s]) + 1]
    <3>1. Len(wrote[s]) \in Nat /\ pipe[s] \in Seq(Line) /\ \A t \in Streams : Len(pipe[t]) \in Nat
      BY LenProperties DEF IInv, Conserved
    <3>2. l \in Line
      BY <3>1 DEF Line
    <3>3. pipe' = [pipe EXCEPT ![s] = Append(@, l)] /\ Len(pipe[s]) < Capacity
      BY <2>5 DEF Puts
    <3> HIDE DEF l
    <3>4. Len(Append(pipe[s], l)) = Len(pipe[s]) + 1
      BY <3>1, <3>2, AppendProperties
    <3> QED
      BY <2>5, <3>1, <3>3, <3>4 DEF Puts, runner, IInv, Conserved
  <2>6. ASSUME NEW op \in {"out", "blank", "err"}, ProgramWrites(op) PROVE Typed'
    BY <2>5, <2>6 DEF ProgramWrites, Ops, StreamOf, Streams
  <2>7. CASE HelperEnds
    BY <2>5, <2>7 DEF HelperEnds, Ops, Streams
  <2>8. CASE UNCHANGED vars
    BY <2>8 DEF vars, runner, program
  <2> QED
    BY <2>1, <2>2, <2>3, <2>4, <2>6, <2>7, <2>8 DEF Next, Read, Program, Returned
<1>3. Typed => TypeOK
  BY DEF Typed
<1> QED
  BY <1>1, <1>2, <1>3, Conservation, PTL DEF Spec

---------------------------------------------------------------------------
(* What the observer is told of.  Lines are numbered as they are written.  *)
Numbered ==
    \A s \in Streams : \A k \in DOMAIN wrote[s] :
       wrote[s][k].no = k /\ StreamOf(wrote[s][k].op) = s

(* Nothing is written before the readers are started, and run() does not   *)
(* return before they have ended.                                          *)
Attended ==
    \A s \in Streams :
       /\ reader[s] = "none" => wrote[s] = <<>> /\ child = "none" /\ helper = "none"
       /\ result # "none" => reader[s] # "reading"

(* The first event is the start; a finish is the last, and of a success.   *)
Bracketed ==
    /\ (events = <<>>) <=> (pc = "start")
    /\ \A i \in DOMAIN events :
         /\ i = 1 => events[i].event = "start"
         /\ events[i].event = "finish" => i = Len(events) /\ result = "ok"
    /\ result = "ok" => events[Len(events)].event = "finish"

(* The lines a reader has read are told, each once, in their order; the     *)
(* empty ones need not be.                                                 *)
ToldRead(s) ==
    \A i \in ShownAt(s) : LineAt(i).no \in DOMAIN got[s] /\ LineAt(i) = got[s][LineAt(i).no]
ToldInOrder(s) == \A i, j \in ShownAt(s) : i < j => LineAt(i).no < LineAt(j).no
ToldAll(s) ==
    \A k \in DOMAIN got[s] : got[s][k].op # "blank" => \E i \in ShownAt(s) : LineAt(i).no = k
Told == \A s \in Streams : ToldRead(s) /\ ToldInOrder(s) /\ ToldAll(s)

Observed == Numbered /\ Attended /\ Bracketed /\ Told

(* A sequence and what follows it.                                         *)
LEMMA Begins ==
    ASSUME NEW g \in Seq(Line), NEW p \in Seq(Line), NEW w \in Seq(Line), w = g \o p
    PROVE  /\ Len(g) \in Nat /\ DOMAIN g = 1..Len(g)
           /\ Len(w) \in Nat /\ DOMAIN w = 1..Len(w)
           /\ Len(g) <= Len(w)
           /\ \A k \in DOMAIN g : k \in DOMAIN w /\ g[k] = w[k]
           /\ p # <<>> => Len(g) + 1 \in DOMAIN w /\ Head(p) = w[Len(g) + 1]
<1>1. /\ Len(g) \in Nat /\ DOMAIN g = 1..Len(g)
      /\ Len(w) \in Nat /\ DOMAIN w = 1..Len(w)
      /\ Len(p) \in Nat /\ (p # <<>> => Len(p) > 0 /\ Head(p) = p[1])
  BY LenProperties, EmptySeq, HeadTailProperties
<1>2. /\ Len(w) = Len(g) + Len(p)
      /\ \A k \in 1..(Len(g) + Len(p)) : w[k] = IF k <= Len(g) THEN g[k] ELSE p[k - Len(g)]
  BY ConcatProperties
<1>3. \A k \in 1..Len(g) : k \in 1..Len(w) /\ g[k] = w[k]
  BY <1>1, <1>2
<1>4. ASSUME p # <<>> PROVE Len(g) + 1 \in 1..Len(w) /\ Head(p) = w[Len(g) + 1]
  <2>1. Len(g) + 1 \in 1..(Len(g) + Len(p)) /\ (Len(g) + 1) - Len(g) = 1
    BY <1>1, <1>4
  <2> QED
    BY <1>1, <1>2, <1>4, <2>1
<1> QED
  BY <1>1, <1>2, <1>3, <1>4

(* What has been read is the beginning of what was written.                *)
LEMMA ReadIsWritten ==
    ASSUME Conserved, NEW s \in Streams
    PROVE  /\ Len(got[s]) \in Nat /\ DOMAIN got[s] = 1..Len(got[s])
           /\ Len(wrote[s]) \in Nat /\ DOMAIN wrote[s] = 1..Len(wrote[s])
           /\ Len(got[s]) <= Len(wrote[s])
           /\ \A k \in DOMAIN got[s] : k \in DOMAIN wrote[s] /\ got[s][k] = wrote[s][k]
           /\ pipe[s] # <<>> => /\ Len(got[s]) + 1 \in DOMAIN wrote[s]
                                /\ Head(pipe[s]) = wrote[s][Len(got[s]) + 1]
<1>1. /\ got[s] \in Seq(Line) /\ pipe[s] \in Seq(Line) /\ wrote[s] \in Seq(Line)
      /\ wrote[s] = got[s] \o pipe[s]
  BY DEF Conserved
<1> QED
  BY <1>1, Begins

(* One more event is appended to the others.                               *)
LEMMA Hears ==
    ASSUME Logged, NEW e, events' = Append(events, e)
    PROVE  /\ Len(events) \in Nat /\ DOMAIN events = 1..Len(events)
           /\ Len(events') = Len(events) + 1 /\ DOMAIN events' = 1..(Len(events) + 1)
           /\ \A i \in DOMAIN events : events'[i] = events[i]
           /\ events'[Len(events) + 1] = e
  BY DEF Logged

(* An event that is not a line leaves those that are as they were.         *)
LEMMA HearsOther ==
    ASSUME Logged, NEW e, e.event # "line", events' = Append(events, e), UNCHANGED got, Told
    PROVE  Told'
<1>1. \A s \in Streams : ShownAt(s)' = ShownAt(s)
  BY Hears DEF ShownAt, LineAt
<1>2. \A s \in Streams : \A i \in ShownAt(s) : LineAt(i)' = LineAt(i)
  BY Hears DEF ShownAt, LineAt
<1> QED
  BY <1>1, <1>2 DEF Told, ToldRead, ToldInOrder, ToldAll

(* An empty line is read and nothing is told.                              *)
LEMMA HearsNothing ==
    ASSUME Conserved, Told, NEW s \in Streams, NEW l \in Line, l.op = "blank",
           got' = [got EXCEPT ![s] = Append(@, l)], UNCHANGED events
    PROVE  Told'
<1>1. \A t \in Streams : ShownAt(t)' = ShownAt(t) /\ \A i \in ShownAt(t) : LineAt(i)' = LineAt(i)
  BY DEF ShownAt, LineAt
<1>2. /\ Len(got[s]) \in Nat /\ DOMAIN got[s] = 1..Len(got[s])
      /\ DOMAIN got'[s] = 1..(Len(got[s]) + 1)
      /\ \A k \in DOMAIN got[s] : got'[s][k] = got[s][k]
      /\ got'[s][Len(got[s]) + 1] = l
      /\ \A t \in Streams : t # s => got'[t] = got[t]
  BY AppendProperties, LenProperties DEF Conserved
<1>3. \A t \in Streams : t # s => (ToldRead(t) /\ ToldInOrder(t) /\ ToldAll(t))'
  BY <1>1, <1>2 DEF Told, ToldRead, ToldInOrder, ToldAll
<1>4. (ToldRead(s) /\ ToldInOrder(s))'
  BY <1>1, <1>2 DEF Told, ToldRead, ToldInOrder
<1>5. ToldAll(s)'
  <2>1. \A k \in DOMAIN got'[s] : got'[s][k].op # "blank" => k \in DOMAIN got[s]
    BY <1>2
  <2> QED
    BY <1>1, <1>2, <2>1 DEF Told, ToldAll
<1> QED
  BY <1>3, <1>4, <1>5 DEF Told

(* The event of a line that was read comes after those of the lines before *)
(* it.                                                                     *)
LEMMA HearsLine ==
    ASSUME Logged, Conserved, Numbered, Told, NEW s \in Streams, ReadLine(s),
           Head(pipe[s]).op # "blank"
    PROVE  Told'
<1> DEFINE l == Head(pipe[s])
           e == Entry("line", <<l>>)
<1>1. /\ pipe[s] # <<>> /\ got' = [got EXCEPT ![s] = Append(@, l)]
      /\ events' = Append(events, e)
  BY DEF ReadLine, Tell
<1>2. l \in Line /\ l.no = Len(got[s]) + 1 /\ StreamOf(l.op) = s
  <2>1. l \in Line
    BY <1>1, HeadTailProperties DEF Conserved
  <2> QED
    BY <1>1, <2>1, ReadIsWritten DEF Numbered
<1>3. e.event = "line" /\ e.lines[1] = l
  BY DEF Entry
<1> HIDE DEF l, e
<1>n. PICK n : n = Len(events) + 1
  OBVIOUS
<1>4. /\ n \in Nat /\ events'[n] = e /\ DOMAIN events' = DOMAIN events \cup {n}
      /\ \A i \in DOMAIN events : events'[i] = events[i] /\ i \in Nat /\ i < n
  BY <1>1, <1>n, Hears
<1>6. /\ \A i \in DOMAIN events : LineAt(i)' = LineAt(i)
      /\ LineAt(n)' = l
  BY <1>3, <1>4 DEF LineAt
<1>7. /\ ShownAt(s)' = ShownAt(s) \cup {n}
      /\ \A t \in Streams : t # s => ShownAt(t)' = ShownAt(t)
      /\ \A t \in Streams : ShownAt(t) \subseteq DOMAIN events
  BY <1>3, <1>4, <1>2, <1>6 DEF ShownAt
<1>8. /\ Len(got[s]) \in Nat /\ DOMAIN got[s] = 1..Len(got[s])
      /\ DOMAIN got'[s] = 1..(Len(got[s]) + 1)
      /\ \A k \in DOMAIN got[s] : got'[s][k] = got[s][k]
      /\ got'[s][Len(got[s]) + 1] = l
      /\ \A t \in Streams : t # s => got'[t] = got[t]
  BY <1>1, <1>2, AppendProperties, LenProperties DEF Conserved
<1>9. \A t \in Streams : t # s => (ToldRead(t) /\ ToldInOrder(t) /\ ToldAll(t))'
  BY <1>6, <1>7, <1>8 DEF Told, ToldRead, ToldInOrder, ToldAll
<1>10. ToldRead(s)'
  BY <1>2, <1>6, <1>7, <1>8 DEF Told, ToldRead
<1>11. ToldInOrder(s)'
  BY <1>4, <1>2, <1>6, <1>7, <1>8 DEF Told, ToldRead, ToldInOrder
<1>12. ToldAll(s)'
  BY <1>2, <1>6, <1>7, <1>8 DEF Told, ToldAll
<1> QED
  BY <1>9, <1>10, <1>11, <1>12 DEF Told

(* A line that is written has the next number.                             *)
LEMMA PutsNumbers ==
    ASSUME Conserved, Numbered, NEW s \in Streams, NEW op \in Ops, StreamOf(op) = s, Puts(s, op)
    PROVE  Numbered'
<1> DEFINE l == [op |-> op, no |-> Len(wrote[s]) + 1]
<1>1. wrote' = [wrote EXCEPT ![s] = Append(@, l)]
  BY DEF Puts
<1>2. Len(wrote[s]) \in Nat /\ wrote[s] \in Seq(Line) /\ DOMAIN wrote[s] = 1..Len(wrote[s])
  BY LenProperties DEF Conserved
<1>3. l \in Line /\ l.no = Len(wrote[s]) + 1 /\ StreamOf(l.op) = s
  BY <1>2 DEF Line
<1> HIDE DEF l
<1>4. /\ DOMAIN wrote'[s] = 1..(Len(wrote[s]) + 1)
      /\ \A k \in DOMAIN wrote[s] : wrote'[s][k] = wrote[s][k]
      /\ wrote'[s][Len(wrote[s]) + 1] = l
      /\ \A t \in Streams : t # s => wrote'[t] = wrote[t]
  BY <1>1, <1>2, <1>3, AppendProperties DEF Conserved
<1>5. ASSUME NEW k \in DOMAIN wrote'[s]
      PROVE  wrote'[s][k].no = k /\ StreamOf(wrote'[s][k].op) = s
  <2>1. k \in DOMAIN wrote[s] \/ k = Len(wrote[s]) + 1
    BY <1>2, <1>4
  <2> QED
    BY <1>3, <1>4, <2>1 DEF Numbered
<1> QED
  BY <1>4, <1>5 DEF Numbered

LEMMA ObservedAlways == Spec => []Observed
<1>1. Init => Observed
  BY DEF Init, Observed, Numbered, Attended, Bracketed, Told, ToldRead, ToldInOrder, ToldAll,
     ShownAt
<1>2. TypeOK /\ IInv /\ Logged /\ Observed /\ [Next]_vars => Observed'
  <2> SUFFICES ASSUME TypeOK, IInv, Logged, Observed, [Next]_vars PROVE Observed'
    OBVIOUS
  <2> USE DEF Observed, IInv
  <2>1. CASE Start
    <3>1. Entry("start", <<>>).event = "start"
      BY DEF Entry
    <3>2. events' = Append(events, Entry("start", <<>>)) /\ events = <<>> /\ pc' = "spawn"
          /\ UNCHANGED <<got, wrote, reader, child, helper, result>>
      BY <2>1 DEF Start, program, Bracketed
    <3>3. Told'
      BY <3>1, <3>2, HearsOther
    <3>4. Bracketed'
      BY <3>1, <3>2, <2>1, Hears DEF Bracketed, Start, TypeOK
    <3> QED
      BY <3>2, <3>3, <3>4 DEF Numbered, Attended
  <2>2. CASE Finish
    <3> DEFINE e == Entry("finish", <<>>)
    <3>1. e.event = "finish"
      BY DEF Entry
    <3>2. /\ events' = Append(events, e) /\ pc = "finish" /\ pc' = "done"
          /\ result = "none" /\ result' = "ok"
          /\ UNCHANGED <<got, wrote, reader, child, helper>>
      BY <2>2 DEF Finish, program, TypeOK
    <3> HIDE DEF e
    <3>3. Told'
      BY <3>1, <3>2, HearsOther
    <3>4. Bracketed'
      BY <3>1, <3>2, Hears DEF Bracketed
    <3>5. Attended'
      BY <3>2 DEF Attended, EndsInOrder, ReadersEnded
    <3> QED
      BY <3>2, <3>3, <3>4, <3>5 DEF Numbered
  <2>3. CASE SpawnFails \/ Abandon
    <3>1. /\ pc # "start" /\ pc' = "done" /\ result = "none" /\ result' = "error"
          /\ \A s \in Streams : reader[s] # "reading"
          /\ UNCHANGED <<events, got, wrote, reader, child, helper>>
      BY <2>3 DEF SpawnFails, Abandon, TypeOK, EndsInOrder, ReadersEnded, program, shown
    <3> QED
      BY <3>1 DEF Numbered, Attended, Bracketed, Told, ToldRead, ToldInOrder, ToldAll, ShownAt, LineAt
  <2>4. CASE Spawn
    <3>1. /\ pc # "start" /\ pc' # "start" /\ result = "none" /\ result' = "none"
          /\ \A s \in Streams : reader'[s] = "reading"
          /\ UNCHANGED <<events, got, wrote>>
      BY <2>4 DEF Spawn, TypeOK, shown
    <3> QED
      BY <3>1 DEF Numbered, Attended, Bracketed, Told, ToldRead, ToldInOrder, ToldAll, ShownAt, LineAt
  <2>5. CASE WriteInput \/ WriteFails \/ CloseInput \/ Wait \/ Join
    <3>1. /\ pc # "start" /\ pc' # "start"
          /\ UNCHANGED <<events, result, got, wrote, reader, child, helper>>
      BY <2>5 DEF WriteInput, WriteFails, CloseInput, Wait, Join, runner, program, shown
    <3> QED
      BY <3>1 DEF Numbered, Attended, Bracketed, Told, ToldRead, ToldInOrder, ToldAll, ShownAt, LineAt
  <2>6. ASSUME NEW s \in Streams, ReadLine(s) PROVE Observed'
    <3> DEFINE l == Head(pipe[s])
               e == Entry("line", <<l>>)
    <3>1. e.event = "line"
      BY DEF Entry
    <3>2. /\ reader[s] = "reading" /\ events' = IF l.op = "blank" THEN events ELSE Append(events, e)
          /\ UNCHANGED <<pc, result, wrote, reader, child, helper>>
      BY <2>6 DEF ReadLine, Tell, runner, program
    <3>3. l \in Line /\ got' = [got EXCEPT ![s] = Append(@, l)]
      BY <2>6, HeadTailProperties DEF ReadLine, Conserved
    <3>4. Numbered' /\ Attended'
      BY <3>2 DEF Numbered, Attended
    <3>5. CASE l.op = "blank"
      <4>1. events' = events
        BY <3>2, <3>5
      <4>2. Told'
        BY <3>3, <3>5, <4>1, HearsNothing
      <4>3. Bracketed'
        BY <3>2, <4>1 DEF Bracketed
      <4> QED
        BY <3>4, <4>2, <4>3
    <3>6. CASE l.op # "blank"
      <4>1. Told'
        BY <2>6, <3>6, HearsLine
      <4>2. events' = Append(events, e)
        BY <3>2, <3>6
      <4> HIDE DEF e
      <4>3. result = "none" /\ pc # "start" /\ events # <<>>
        BY <3>2 DEF Attended, Bracketed, EndsInOrder
      <4>4. Bracketed'
        BY <3>1, <3>2, <4>2, <4>3, Hears DEF Bracketed
      <4> QED
        BY <3>4, <4>1, <4>4
    <3> QED
      BY <3>5, <3>6
  <2>7. ASSUME NEW s \in Streams, ReadEnd(s) PROVE Observed'
    <3>1. /\ reader' = [reader EXCEPT ![s] = "done"] /\ reader[s] = "reading"
          /\ UNCHANGED <<events, pc, result, got, wrote, child, helper>>
      BY <2>7 DEF ReadEnd, runner, program, shown
    <3> QED
      BY <3>1 DEF Numbered, Attended, Bracketed, Told, ToldRead, ToldInOrder, ToldAll, ShownAt,
         LineAt, EndsInOrder
  <2>8. CASE ProgramReads \/ ProgramClosesInput \/ ProgramLeaves \/ ProgramExits
    <3>1. /\ child \in {"running", "deaf"}
          /\ UNCHANGED <<events, pc, result, got, wrote, reader>>
      BY <2>8 DEF ProgramReads, ProgramClosesInput, ProgramLeaves, ProgramExits, Does, runner, shown
    <3> QED
      BY <3>1 DEF Numbered, Attended, Bracketed, Told, ToldRead, ToldInOrder, ToldAll, ShownAt, LineAt
  <2>9. ASSUME NEW s \in Streams, NEW op \in Ops, StreamOf(op) = s, Puts(s, op), HeldOpen
        PROVE  Observed'
    <3>1. Numbered'
      BY <2>9, PutsNumbers
    <3>2. UNCHANGED <<events, pc, result, got, reader>>
      BY <2>9 DEF Puts, runner, shown
    <3>3. \A t \in Streams : reader[t] # "none"
      BY <2>9 DEF Attended, HeldOpen
    <3> QED
      BY <3>1, <3>2, <3>3 DEF Attended, Bracketed, Told, ToldRead, ToldInOrder, ToldAll, ShownAt, LineAt
  <2>10. ASSUME NEW op \in {"out", "blank", "err"}, ProgramWrites(op) PROVE Observed'
    BY <2>9, <2>10 DEF ProgramWrites, Does, HeldOpen, Ops, StreamOf, Streams
  <2>11. CASE HelperEnds
    BY <2>9, <2>11 DEF HelperEnds, HeldOpen, Ops, StreamOf, Streams
  <2>12. CASE UNCHANGED vars
    BY <2>12 DEF vars, runner, program, shown, Numbered, Attended, Bracketed, Told, ToldRead,
       ToldInOrder, ToldAll, ShownAt, LineAt
  <2> QED
    BY <2>1, <2>2, <2>3, <2>4, <2>5, <2>6, <2>7, <2>8, <2>10, <2>11, <2>12
       DEF Next, Run, Read, Program, Returned
<1> QED
  BY <1>1, <1>2, RunnerTypes, Conservation, LoggedAlways, PTL DEF Spec

(* The observer hears of a command from its start to its finish, of every   *)
(* line between them that is not empty once and in its order, and of       *)
(* nothing after.                                                          *)
THEOREM EventsAreFaithful == Spec => []EventsFaithful
<1>1. TypeOK /\ IInv /\ Logged /\ Observed => EventsFaithful
  <2> SUFFICES ASSUME TypeOK, IInv, Logged, Observed PROVE EventsFaithful
    OBVIOUS
  <2> USE DEF IInv, Observed
  <2>1. Len(events) \in Nat /\ DOMAIN events = 1..Len(events)
        /\ (events # <<>> => Len(events) > 0)
    BY LenProperties, EmptySeq DEF Logged
  <2>2. /\ events # <<>> => events[1].event = "start"
        /\ \A i \in DOMAIN events : events[i].event = "finish" => i = Len(events)
    BY <2>1 DEF Bracketed
  <2>3. ASSUME NEW s \in Streams, NEW i \in ShownAt(s)
        PROVE  LineAt(i).no \in DOMAIN wrote[s] /\ LineAt(i) = wrote[s][LineAt(i).no]
    <3>1. LineAt(i).no \in DOMAIN got[s] /\ LineAt(i) = got[s][LineAt(i).no]
      BY DEF Told, ToldRead
    <3> HIDE DEF LineAt
    <3> QED
      BY <3>1, ReadIsWritten
  <2>4. \A s \in Streams : \A i, j \in ShownAt(s) : i < j => LineAt(i).no < LineAt(j).no
    BY DEF Told, ToldInOrder
  <2>5. ASSUME result # "none", NEW s \in Streams PROVE got[s] = wrote[s]
    <3>1. CASE reader[s] = "none"
      <4>1. Len(wrote[s]) = 0
        BY <3>1 DEF Attended
      <4>2. Len(got[s]) = 0
        BY <4>1, ReadIsWritten
      <4> QED
        BY <3>1, <4>2, EmptySeq DEF Attended, Conserved
    <3>2. CASE reader[s] = "done"
      BY <3>2, ConcatEmptySeq DEF Conserved, EndsInOrder
    <3> QED
      BY <2>5, <3>1, <3>2 DEF Attended, EndsInOrder
  <2>6. ASSUME result # "none", NEW s \in Streams
        PROVE  \A k \in DOMAIN wrote[s] :
                  wrote[s][k].op # "blank" => \E i \in ShownAt(s) : LineAt(i).no = k
    BY <2>5, <2>6 DEF Told, ToldAll
  <2>7. result # "none" => ((result = "ok") <=> (events[Len(events)].event = "finish"))
    <3>1. result # "none" => events # <<>>
      BY DEF Bracketed, TypeOK
    <3> QED
      BY <2>1, <3>1 DEF Bracketed
  <2> QED
    BY <2>2, <2>3, <2>4, <2>6, <2>7 DEF EventsFaithful
<1> QED
  BY <1>1, RunnerTypes, Conservation, LoggedAlways, ObservedAlways, PTL

---------------------------------------------------------------------------
(* How much is left to happen.  A step of the program is worth more than a *)
(* line in a pipe, since it can put one there or leave a process behind    *)
(* that will.                                                              *)
Place == [start |-> 6, spawn |-> 5, write |-> 4, wait |-> 3, join |-> 2, abandon |-> 2,
          finish |-> 1, done |-> 0]
Unborn == pc \in {"start", "spawn"}
ToDo == IF Unborn THEN spec.program ELSE rest
ToWrite == IF ~Unborn THEN stdin.left ELSE IF spec.input = NoInput THEN 0 ELSE spec.input
ToRead == Len(pipe["stdout"]) + Len(pipe["stderr"])
ChildLeft == IF Unborn \/ child \in {"running", "deaf"} THEN 1 ELSE 0
HelperLeft == IF helper = "running" THEN 2 ELSE 0
ReaderLeft(s) == IF Unborn \/ reader[s] = "reading" THEN 1 ELSE 0
RunLeft == Place[pc] + ToWrite
ProgramLeft == 3 * Len(ToDo) + ChildLeft + HelperLeft
OutputLeft == ToRead + ReaderLeft("stdout") + ReaderLeft("stderr")
Rank == RunLeft + ProgramLeft + OutputLeft

(* The command as it was given, and whom it has started by when.           *)
Ready ==
    /\ spec.program \in Seq(Ops) /\ rest \in Seq(Ops)
    /\ spec.input = NoInput \/ spec.input \in Nat
    /\ stdin \in [left : Nat, held : Nat, open : BOOLEAN]
    /\ stdin.open => pc = "write"
    /\ pc \in DOMAIN Place
    /\ Unborn => child = "none" /\ helper = "none" /\ rest = <<>> /\ stdin.left = 0
    /\ pc \notin {"start", "spawn", "done"} =>
          child # "none" /\ \A s \in Streams : reader[s] # "none"

LEMMA RestIsShorter ==
    ASSUME NEW q \in Seq(Ops), q # <<>>
    PROVE  Tail(q) \in Seq(Ops) /\ Len(q) \in Nat /\ Len(Tail(q)) = Len(q) - 1 /\ Head(q) \in Ops
  BY HeadTailProperties, LenProperties

LEMMA ReadyAlways == Spec => []Ready
<1>1. Init => Ready
  BY CommandsAreGiven, EmptySeq DEF Init, Ready, Place, Unborn
<1>2. IInv /\ Ready /\ [Next]_vars => Ready'
  <2> SUFFICES ASSUME IInv, Ready, [Next]_vars PROVE Ready'
    OBVIOUS
  <2>a. reader \in [Streams -> {"none", "reading", "done"}]
    BY DEF IInv, EndsInOrder
  <2> USE DEF Ready, Unborn, Place
  <2>1. CASE Start \/ SpawnFails \/ Wait \/ Join \/ Abandon \/ Finish
    BY <2>1 DEF Start, SpawnFails, Wait, Join, Abandon, Finish, program
  <2>2. CASE Spawn
    <3>1. /\ rest' \in Seq(Ops) /\ child' = "running" /\ UNCHANGED <<spec, helper>>
          /\ \A s \in Streams : reader'[s] = "reading"
      BY <2>2 DEF Spawn
    <3>2. CASE spec.input = NoInput
      <4>1. pc' = "wait" /\ stdin' = stdin /\ ~stdin.open
        BY <2>2, <3>2 DEF Spawn
      <4> QED
        BY <3>1, <4>1
    <3>3. CASE spec.input # NoInput
      <4>1. pc' = "write" /\ stdin' = [left |-> spec.input, held |-> 0, open |-> TRUE]
        BY <2>2, <3>3 DEF Spawn
      <4>2. stdin' \in [left : Nat, held : Nat, open : BOOLEAN]
        BY <3>3, <4>1
      <4> QED
        BY <3>1, <4>1, <4>2
    <3> QED
      BY <3>2, <3>3
  <2>3. CASE WriteInput
    <3>1. /\ stdin' = [stdin EXCEPT !.left = @ - 1, !.held = @ + 1] /\ stdin.left > 0
          /\ pc = "write" /\ UNCHANGED <<spec, rest, pc, child, helper, reader>>
      BY <2>3 DEF WriteInput, runner, program
    <3>2. stdin' \in [left : Nat, held : Nat, open : BOOLEAN]
      <4>1. stdin.left - 1 \in Nat /\ stdin.held + 1 \in Nat
        BY <3>1
      <4>2. stdin' = [stdin EXCEPT !.left = stdin.left - 1, !.held = stdin.held + 1]
        BY <3>1
      <4> QED
        BY <4>1, <4>2
    <3> QED
      BY <3>1, <3>2
  <2>4. CASE WriteFails \/ CloseInput
    BY <2>4 DEF WriteFails, CloseInput, program
  <2>5. ASSUME NEW s \in Streams, Read(s) PROVE Ready'
    <3>1. UNCHANGED <<spec, rest, stdin, pc, child, helper>>
      BY <2>5 DEF Read, ReadLine, ReadEnd, runner, program
    <3>2. \A t \in Streams : reader[t] # "none" => reader'[t] # "none"
      BY <2>5, <2>a DEF Read, ReadLine, ReadEnd
    <3> QED
      BY <3>1, <3>2
  <2>6. ASSUME NEW op, Does(op) PROVE rest' \in Seq(Ops) /\ ~Unborn
    BY <2>6, RestIsShorter DEF Does
  <2>7. CASE ProgramReads
    BY <2>6, <2>7 DEF ProgramReads, Does, runner
  <2>8. CASE ProgramClosesInput \/ ProgramLeaves
    BY <2>6, <2>8 DEF ProgramClosesInput, ProgramLeaves, runner
  <2>9. CASE ProgramExits
    BY <2>9 DEF ProgramExits, runner
  <2>10. ASSUME NEW op \in {"out", "blank", "err"}, ProgramWrites(op) PROVE Ready'
    BY <2>6, <2>10 DEF ProgramWrites, Puts, runner
  <2>11. CASE HelperEnds
    BY <2>11 DEF HelperEnds, Puts, runner
  <2>12. CASE UNCHANGED vars
    BY <2>12 DEF vars, runner, program
  <2> QED
    BY <2>1, <2>2, <2>3, <2>4, <2>5, <2>7, <2>8, <2>9, <2>10, <2>11, <2>12
       DEF Next, Run, Program, Returned
<1> QED
  BY <1>1, <1>2, Conservation, PTL DEF Spec

(* Sums fall with their parts.                                             *)
LEMMA LessOfTwo ==
    \A a, b, x, y \in Nat : (x < a /\ y <= b) \/ (x = a /\ y < b) => x + y < a + b
  OBVIOUS
LEMMA AtMostOfThree ==
    \A a, b, c, x, y, z \in Nat : x <= a /\ y <= b /\ z <= c => x + y + z <= a + b + c
  OBVIOUS
LEMMA AtMostOfProgram ==
    \A a, b, c, x, y, z \in Nat : x <= a /\ y <= b /\ z <= c => 3 * x + y + z <= 3 * a + b + c
  OBVIOUS
LEMMA LessLast == \A b, c, z \in Nat : z < c => b + z < b + c
  OBVIOUS
LEMMA LessOfThree ==
    \A a, b, c, x, y, z \in Nat :
       (x < a /\ y <= b /\ z <= c) \/ (x = a /\ y + z < b + c) => x + y + z < a + b + c
  OBVIOUS

(* What is added up are numbers.                                           *)
Counted ==
    /\ Place[pc] \in Nat /\ ToWrite \in Nat /\ Len(ToDo) \in Nat /\ ToRead \in Nat
    /\ ChildLeft \in Nat /\ HelperLeft \in Nat
    /\ ReaderLeft("stdout") \in Nat /\ ReaderLeft("stderr") \in Nat

LEMMA RankParts == Ready /\ Conserved => Counted
<1> SUFFICES ASSUME Ready, Conserved PROVE Counted
  OBVIOUS
<1>1. Place[pc] \in Nat
  BY DEF Ready, Place
<1>2. ToWrite \in Nat
  BY DEF Ready, ToWrite
<1>3. Len(ToDo) \in Nat
  BY LenProperties DEF Ready, ToDo
<1>4. ToRead \in Nat
  <2> DEFINE a == Len(pipe["stdout"])
             b == Len(pipe["stderr"])
  <2>1. pipe["stdout"] \in Seq(Line) /\ pipe["stderr"] \in Seq(Line)
    BY DEF Conserved, Streams
  <2>2. a \in Nat /\ b \in Nat /\ ToRead = a + b
    BY <2>1, LenProperties DEF ToRead
  <2> HIDE DEF a, b
  <2> QED
    BY <2>2
<1> QED
  BY <1>1, <1>2, <1>3, <1>4 DEF Counted, ChildLeft, HelperLeft, ReaderLeft

LEMMA SumsAreNumbers ==
    Ready /\ Conserved => RunLeft \in Nat /\ ProgramLeft \in Nat /\ OutputLeft \in Nat
<1> SUFFICES ASSUME Ready, Conserved PROVE RunLeft \in Nat /\ ProgramLeft \in Nat /\ OutputLeft \in Nat
  OBVIOUS
<1> DEFINE place == Place[pc]
           o == ReaderLeft("stdout")
           e == ReaderLeft("stderr")
           n == Len(ToDo)
<1>1. /\ place \in Nat /\ ToWrite \in Nat /\ n \in Nat /\ ToRead \in Nat
      /\ ChildLeft \in Nat /\ HelperLeft \in Nat /\ o \in Nat /\ e \in Nat
  BY RankParts DEF Counted
<1>2. /\ RunLeft = place + ToWrite /\ ProgramLeft = 3 * n + ChildLeft + HelperLeft
      /\ OutputLeft = ToRead + o + e
  BY DEF RunLeft, ProgramLeft, OutputLeft
<1> HIDE DEF place, o, e, n
<1> QED
  BY <1>1, <1>2

(* A step of run() goes on from its place, or writes a unit of input.      *)
LEMMA RunGoesOn ==
    ASSUME Ready, IInv, Run
    PROVE  /\ Len(ToDo)' <= Len(ToDo) /\ ToRead' = ToRead
           /\ ChildLeft' <= ChildLeft /\ HelperLeft' = HelperLeft
           /\ ReaderLeft("stdout")' <= ReaderLeft("stdout")
           /\ ReaderLeft("stderr")' <= ReaderLeft("stderr")
           /\ \/ Place[pc'] < Place[pc] /\ ToWrite' <= ToWrite
              \/ Place[pc'] = Place[pc] /\ ToWrite' < ToWrite
<1>1. UNCHANGED <<spec, pipe, helper>>
  BY DEF Run, Start, SpawnFails, Spawn, WriteInput, WriteFails, CloseInput, Wait, Join, Abandon,
     Finish, program
<1>2. ToRead' = ToRead /\ HelperLeft' = HelperLeft
  BY <1>1 DEF ToRead, HelperLeft
<1>3. Counted
  BY RankParts DEF IInv
<1>4. CASE Start
  <2>1. pc = "start" /\ pc' = "spawn" /\ UNCHANGED <<rest, stdin, child, reader>>
    BY <1>4 DEF Start, program
  <2> QED
    BY <1>1, <1>2, <1>3, <2>1 DEF Counted, ToDo, ToWrite, ChildLeft, ReaderLeft, Unborn, Place
<1>5. CASE SpawnFails
  <2>1. pc = "spawn" /\ pc' = "done" /\ UNCHANGED <<rest, stdin, child, reader>>
    BY <1>5 DEF SpawnFails, program
  <2>2. rest = <<>> /\ stdin.left = 0 /\ child = "none" /\ \A s \in Streams : reader[s] = "none"
    BY <2>1 DEF Ready, Unborn, IInv, EndsInOrder
  <2>3. /\ ToDo' = <<>> /\ ToWrite' = 0 /\ ChildLeft' = 0
        /\ ReaderLeft("stdout")' = 0 /\ ReaderLeft("stderr")' = 0
    BY <2>1, <2>2 DEF ToDo, ToWrite, ChildLeft, ReaderLeft, Unborn, Streams
  <2>4. Len(ToDo)' = 0
    BY <2>3, EmptySeq
  <2> QED
    BY <1>2, <1>3, <2>1, <2>3, <2>4 DEF Counted, Place
<1>6. CASE Spawn
  <2>1. pc = "spawn" /\ pc' \in {"write", "wait"} /\ rest' = spec.program
    BY <1>6 DEF Spawn
  <2>2. ToWrite' = ToWrite
    BY <1>1, <1>6, <2>1 DEF Spawn, ToWrite, Unborn, Ready
  <2>3. ToDo' = ToDo
    BY <1>1, <2>1 DEF ToDo, Unborn
  <2>4. /\ ChildLeft = 1 /\ ReaderLeft("stdout") = 1 /\ ReaderLeft("stderr") = 1
    BY <2>1 DEF ChildLeft, ReaderLeft, Unborn
  <2> QED
    BY <1>2, <1>3, <2>1, <2>2, <2>3, <2>4 DEF Counted, Place, ChildLeft, ReaderLeft
<1>7. CASE WriteInput
  <2>1. /\ pc = "write" /\ UNCHANGED <<pc, rest, child, reader>>
        /\ stdin' = [stdin EXCEPT !.left = @ - 1, !.held = @ + 1]
    BY <1>7 DEF WriteInput, runner, program
  <2>2. stdin'.left = stdin.left - 1
    BY <2>1 DEF Ready
  <2>3. ToWrite = stdin.left /\ ToWrite' = stdin'.left
    BY <2>1 DEF ToWrite, Unborn
  <2> QED
    BY <1>2, <1>3, <2>1, <2>2, <2>3 DEF Counted, ToDo, ChildLeft, ReaderLeft, Unborn
<1>8. CASE WriteFails \/ CloseInput
  <2>1. /\ pc = "write" /\ pc' \in {"abandon", "wait"} /\ UNCHANGED <<rest, child, reader>>
        /\ stdin'.left = stdin.left
    BY <1>8 DEF WriteFails, CloseInput, program, Ready
  <2> QED
    BY <1>2, <1>3, <2>1 DEF Counted, ToDo, ToWrite, ChildLeft, ReaderLeft, Unborn, Place
<1>9. CASE Wait \/ Join \/ Abandon \/ Finish
  <2>1. /\ pc \in {"wait", "join", "abandon", "finish"} /\ pc' \in {"join", "finish", "done"}
        /\ Place[pc'] < Place[pc] /\ UNCHANGED <<rest, stdin, child, reader>>
    BY <1>9 DEF Wait, Join, Abandon, Finish, program, Place
  <2> QED
    BY <1>2, <1>3, <2>1 DEF Counted, ToDo, ToWrite, ChildLeft, ReaderLeft, Unborn
<1> QED
  BY <1>4, <1>5, <1>6, <1>7, <1>8, <1>9 DEF Run

LEMMA RunFalls ==
    ASSUME Ready, IInv, Run, Ready', IInv'
    PROVE  RunLeft' < RunLeft /\ ProgramLeft' <= ProgramLeft /\ OutputLeft' <= OutputLeft
<1> DEFINE place == Place[pc]
           o == ReaderLeft("stdout")
           e == ReaderLeft("stderr")
           n == Len(ToDo)
<1>1. /\ place \in Nat /\ ToWrite \in Nat /\ n \in Nat /\ ToRead \in Nat
      /\ ChildLeft \in Nat /\ HelperLeft \in Nat /\ o \in Nat /\ e \in Nat
  BY RankParts DEF Counted, IInv
<1>2. /\ place' \in Nat /\ ToWrite' \in Nat /\ n' \in Nat /\ ToRead' \in Nat
      /\ ChildLeft' \in Nat /\ HelperLeft' \in Nat /\ o' \in Nat /\ e' \in Nat
  <2>1. Ready' /\ Conserved'
    BY DEF IInv
  <2>2. Counted'
    BY <2>1, RankParts, PTL
  <2> QED
    BY <2>2 DEF Counted
<1>3. /\ RunLeft = place + ToWrite /\ ProgramLeft = 3 * n + ChildLeft + HelperLeft
      /\ OutputLeft = ToRead + o + e
  BY DEF RunLeft, ProgramLeft, OutputLeft
<1>4. /\ RunLeft' = place' + ToWrite' /\ ProgramLeft' = 3 * n' + ChildLeft' + HelperLeft'
      /\ OutputLeft' = ToRead' + o' + e'
  BY DEF RunLeft, ProgramLeft, OutputLeft
<1>5. /\ n' <= n /\ ToRead' = ToRead /\ ChildLeft' <= ChildLeft /\ HelperLeft' = HelperLeft
      /\ o' <= o /\ e' <= e
      /\ \/ place' < place /\ ToWrite' <= ToWrite
         \/ place' = place /\ ToWrite' < ToWrite
  BY RunGoesOn
<1> HIDE DEF place, o, e, n
<1>6. place' + ToWrite' < place + ToWrite
  BY <1>1, <1>2, <1>5, LessOfTwo, Zenon
<1>7. /\ ToRead' <= ToRead /\ HelperLeft' <= HelperLeft
  <2>1. ToRead <= ToRead /\ HelperLeft <= HelperLeft
    BY <1>1
  <2> QED
    BY <1>5, <2>1, Zenon
<1>8. ToRead' + o' + e' <= ToRead + o + e
  BY <1>1, <1>2, <1>5, <1>7, AtMostOfThree, Zenon
<1>9. 3 * n' + ChildLeft' + HelperLeft' <= 3 * n + ChildLeft + HelperLeft
  BY <1>1, <1>2, <1>5, <1>7, AtMostOfProgram, Zenon
<1> QED
  BY <1>3, <1>4, <1>6, <1>8, <1>9, Zenon

(* A line less, or a line more, in a pipe.                                 *)
LEMMA LineLess ==
    ASSUME Conserved, NEW s \in Streams, pipe[s] # <<>>,
           pipe' = [pipe EXCEPT ![s] = Tail(pipe[s])]
    PROVE  ToRead' = ToRead - 1
<1> DEFINE a == Len(pipe["stdout"])
           b == Len(pipe["stderr"])
<1>1. pipe \in [Streams -> Seq(Line)] /\ a \in Nat /\ b \in Nat
  BY LenProperties DEF Conserved, Streams
<1>2. Len(Tail(pipe[s])) = Len(pipe[s]) - 1
  BY <1>1, HeadTailProperties
<1>3. Len(pipe'[s]) = Len(pipe[s]) - 1 /\ \A t \in Streams \ {s} : pipe'[t] = pipe[t]
  BY <1>1, <1>2
<1>4. (a' = a - 1 /\ b' = b) \/ (a' = a /\ b' = b - 1)
  BY <1>3 DEF Streams
<1>5. ToRead = a + b /\ ToRead' = a' + b'
  BY DEF ToRead
<1> HIDE DEF a, b
<1> QED
  BY <1>1, <1>4, <1>5

LEMMA LineMore ==
    ASSUME Conserved, NEW s \in Streams, NEW op, Puts(s, op)
    PROVE  ToRead' = ToRead + 1
<1> DEFINE a == Len(pipe["stdout"])
           b == Len(pipe["stderr"])
           l == [op |-> op, no |-> Len(wrote[s]) + 1]
<1>1. pipe' = [pipe EXCEPT ![s] = Append(pipe[s], l)]
  BY DEF Puts
<1> HIDE DEF l
<1>2. pipe \in [Streams -> Seq(Line)] /\ a \in Nat /\ b \in Nat
  BY LenProperties DEF Conserved, Streams
<1>3. Len(Append(pipe[s], l)) = Len(pipe[s]) + 1
  BY <1>2
<1>4. Len(pipe'[s]) = Len(pipe[s]) + 1 /\ \A t \in Streams \ {s} : pipe'[t] = pipe[t]
  BY <1>1, <1>2, <1>3
<1>5. (a' = a + 1 /\ b' = b) \/ (a' = a /\ b' = b + 1)
  BY <1>4 DEF Streams
<1>6. ToRead = a + b /\ ToRead' = a' + b'
  BY DEF ToRead
<1> HIDE DEF a, b
<1> QED
  BY <1>2, <1>5, <1>6

(* A reader takes a line out of its pipe, or ends.                         *)
LEMMA ReaderFalls ==
    ASSUME Ready, IInv, NEW s \in Streams, Read(s)
    PROVE  RunLeft' = RunLeft /\ ProgramLeft' = ProgramLeft /\ OutputLeft' < OutputLeft
<1>1. /\ reader[s] = "reading" /\ ~Unborn
      /\ UNCHANGED <<spec, pc, stdin, rest, child, helper>>
  BY DEF Read, ReadLine, ReadEnd, runner, program, IInv, EndsInOrder, Unborn
<1>2. RunLeft' = RunLeft /\ ProgramLeft' = ProgramLeft
  BY <1>1 DEF RunLeft, ProgramLeft, ToWrite, ToDo, ChildLeft, HelperLeft, Unborn
<1> DEFINE o == ReaderLeft("stdout")
           e == ReaderLeft("stderr")
<1>3. ToRead \in Nat /\ o \in Nat /\ e \in Nat
  BY RankParts DEF Counted, IInv
<1>4. CASE ReadLine(s)
  <2>1. ToRead' = ToRead - 1
    <3>1. pipe[s] # <<>> /\ pipe' = [pipe EXCEPT ![s] = Tail(pipe[s])]
      BY <1>4 DEF ReadLine
    <3> QED
      BY <3>1, LineLess DEF IInv
  <2>2. o' = o /\ e' = e
    <3>1. reader' = reader
      BY <1>4 DEF ReadLine
    <3> QED
      BY <1>1, <3>1 DEF ReaderLeft, Unborn
  <2> HIDE DEF o, e
  <2>3. OutputLeft = ToRead + o + e /\ OutputLeft' = ToRead' + o' + e'
    BY DEF OutputLeft, o, e
  <2> QED
    BY <1>2, <1>3, <2>1, <2>2, <2>3
<1>5. CASE ReadEnd(s)
  <2>1. pipe' = pipe /\ reader' = [reader EXCEPT ![s] = "done"]
    BY <1>5 DEF ReadEnd
  <2>2. /\ ReaderLeft(s) = 1 /\ ReaderLeft(s)' = 0
        /\ \A t \in Streams \ {s} : ReaderLeft(t)' = ReaderLeft(t)
    BY <1>1, <2>1 DEF ReaderLeft, Unborn, IInv, EndsInOrder
  <2>3. (o = 1 /\ o' = 0 /\ e' = e) \/ (e = 1 /\ e' = 0 /\ o' = o)
    BY <2>2 DEF Streams
  <2>4. ToRead' = ToRead
    BY <2>1 DEF ToRead
  <2> HIDE DEF o, e
  <2>5. OutputLeft = ToRead + o + e /\ OutputLeft' = ToRead' + o' + e'
    BY DEF OutputLeft, o, e
  <2> QED
    BY <1>2, <1>3, <2>3, <2>4, <2>5
<1> QED
  BY <1>4, <1>5 DEF Read

(* The program has one step less to do, or has ended.                      *)
LEMMA ProgramFalls ==
    ASSUME Ready, IInv, Program
    PROVE  /\ RunLeft' = RunLeft
           /\ ProgramLeft' + OutputLeft' < ProgramLeft + OutputLeft
<1>1. /\ child \in {"running", "deaf"} /\ ~Unborn
      /\ UNCHANGED <<spec, pc, reader>> /\ stdin'.left = stdin.left
  BY DEF Program, ProgramReads, ProgramClosesInput, ProgramLeaves, ProgramExits, ProgramWrites,
     Puts, Does, runner, Ready, Unborn
<1> DEFINE o == ReaderLeft("stdout")
           e == ReaderLeft("stderr")
           n == Len(ToDo)
<1>2. RunLeft' = RunLeft /\ ToDo' = rest' /\ ToDo = rest /\ o' = o /\ e' = e
  BY <1>1 DEF RunLeft, ToWrite, ToDo, ReaderLeft, Unborn
<1>3. /\ n \in Nat /\ ToRead \in Nat /\ HelperLeft \in Nat /\ o \in Nat /\ e \in Nat
      /\ ChildLeft = 1
  BY <1>1, RankParts DEF Counted, IInv, ChildLeft
<1>4. ChildLeft' \in {0, 1} /\ HelperLeft' \in Nat
  BY DEF ChildLeft, HelperLeft
<1>5. ASSUME NEW op, Does(op) PROVE n' = n - 1
  BY <1>2, <1>5, RestIsShorter DEF Does, Ready
<1>6. \/ n' = n - 1 /\ ToRead' = ToRead /\ HelperLeft' <= HelperLeft + 2
      \/ n' = n - 1 /\ ToRead' = ToRead + 1 /\ HelperLeft' = HelperLeft
      \/ n' = n /\ ToRead' = ToRead /\ HelperLeft' = HelperLeft /\ ChildLeft' = 0
  <2>1. CASE ProgramReads \/ ProgramClosesInput \/ ProgramLeaves
    <3>1. n' = n - 1 /\ pipe' = pipe
      BY <1>5, <2>1 DEF ProgramReads, ProgramClosesInput, ProgramLeaves
    <3>2. ToRead' = ToRead
      BY <3>1 DEF ToRead
    <3>3. HelperLeft' <= HelperLeft + 2
      BY DEF HelperLeft
    <3> QED
      BY <3>1, <3>2, <3>3
  <2>2. ASSUME NEW op \in {"out", "blank", "err"}, ProgramWrites(op)
        PROVE  n' = n - 1 /\ ToRead' = ToRead + 1 /\ HelperLeft' = HelperLeft
    <3>1. n' = n - 1 /\ helper' = helper
      BY <1>5, <2>2 DEF ProgramWrites
    <3>2. ToRead' = ToRead + 1
      BY <2>2, LineMore DEF ProgramWrites, StreamOf, Streams, IInv
    <3> QED
      BY <3>1, <3>2 DEF HelperLeft
  <2>3. CASE ProgramExits
    <3>1. child' = "exited" /\ UNCHANGED <<pc, rest, helper, pipe>>
      BY <1>1, <2>3 DEF ProgramExits
    <3> QED
      BY <1>1, <1>2, <3>1 DEF ChildLeft, HelperLeft, ToRead, Unborn
  <2> QED
    BY <2>1, <2>2, <2>3 DEF Program
<1>7. /\ ProgramLeft = 3 * n + ChildLeft + HelperLeft /\ OutputLeft = ToRead + o + e
      /\ ProgramLeft' = 3 * n' + ChildLeft' + HelperLeft' /\ OutputLeft' = ToRead' + o' + e'
  BY DEF ProgramLeft, OutputLeft
<1> HIDE DEF o, e, n
<1> QED
  BY <1>2, <1>3, <1>4, <1>6, <1>7

(* What it has left behind ends.                                           *)
LEMMA HelperFalls ==
    ASSUME Ready, IInv, HelperEnds
    PROVE  /\ RunLeft' = RunLeft
           /\ ProgramLeft' + OutputLeft' < ProgramLeft + OutputLeft
<1> DEFINE o == ReaderLeft("stdout")
           e == ReaderLeft("stderr")
           n == Len(ToDo)
<1>1. /\ helper = "running" /\ helper' = "exited"
      /\ UNCHANGED <<spec, pc, stdin, rest, child, reader>>
  BY DEF HelperEnds, Puts, runner
<1>2. /\ RunLeft' = RunLeft /\ n' = n /\ ChildLeft' = ChildLeft /\ o' = o /\ e' = e
      /\ HelperLeft = 2 /\ HelperLeft' = 0
  BY <1>1 DEF RunLeft, ToWrite, ToDo, ChildLeft, HelperLeft, ReaderLeft, Unborn
<1>3. ToRead' = ToRead + 1
  BY LineMore DEF HelperEnds, Streams, IInv
<1>4. n \in Nat /\ ToRead \in Nat /\ ChildLeft \in Nat /\ o \in Nat /\ e \in Nat
  BY RankParts DEF Counted, IInv
<1>5. /\ ProgramLeft = 3 * n + ChildLeft + HelperLeft /\ OutputLeft = ToRead + o + e
      /\ ProgramLeft' = 3 * n' + ChildLeft' + HelperLeft' /\ OutputLeft' = ToRead' + o' + e'
  BY DEF ProgramLeft, OutputLeft
<1> HIDE DEF o, e, n
<1> QED
  BY <1>2, <1>3, <1>4, <1>5

(* Theorem: whatever the program does, every step of a command uses up a    *)
(* number that was settled when it was given: no command goes on for ever.  *)
THEOREM StepsRunOut == Spec => [](Rank \in Nat) /\ [][Rank' < Rank]_vars
<1>1. Ready /\ IInv => Rank \in Nat
  BY SumsAreNumbers DEF IInv, Rank
<1>2. Ready /\ IInv /\ Ready' /\ IInv' /\ [Next]_vars => [Rank' < Rank]_vars
  <2> SUFFICES ASSUME Ready, IInv, Ready', IInv', Next, vars' # vars
               PROVE  Rank' < Rank
    OBVIOUS
  <2>1. RunLeft \in Nat /\ ProgramLeft \in Nat /\ OutputLeft \in Nat
    BY SumsAreNumbers DEF IInv
  <2>2. RunLeft' \in Nat /\ ProgramLeft' \in Nat /\ OutputLeft' \in Nat
    <3>1. Ready' /\ Conserved'
      BY DEF IInv
    <3>2. (RunLeft \in Nat /\ ProgramLeft \in Nat /\ OutputLeft \in Nat)'
      BY <3>1, SumsAreNumbers, PTL
    <3> QED
      BY <3>2
  <2>3. \/ RunLeft' < RunLeft /\ ProgramLeft' <= ProgramLeft /\ OutputLeft' <= OutputLeft
        \/ RunLeft' = RunLeft /\ ProgramLeft' + OutputLeft' < ProgramLeft + OutputLeft
    <3>1. CASE Run
      BY <3>1, RunFalls
    <3>2. ASSUME NEW s \in Streams, Read(s)
          PROVE  RunLeft' = RunLeft /\ ProgramLeft' + OutputLeft' < ProgramLeft + OutputLeft
      <4>1. RunLeft' = RunLeft /\ ProgramLeft' = ProgramLeft /\ OutputLeft' < OutputLeft
        BY <3>2, ReaderFalls
      <4>2. ProgramLeft + OutputLeft' < ProgramLeft + OutputLeft
        BY <2>1, <2>2, <4>1, LessLast, Zenon
      <4> QED
        BY <4>1, <4>2, Zenon
    <3>3. CASE Program
      BY <3>3, ProgramFalls
    <3>4. CASE HelperEnds
      BY <3>4, HelperFalls
    <3> QED
      BY <3>1, <3>2, <3>3, <3>4 DEF Next, Returned
  <2> QED
    BY <2>1, <2>2, <2>3, LessOfThree, Zenon DEF Rank
<1> QED
  BY <1>1, <1>2, Conservation, ReadyAlways, PTL DEF Spec

---------------------------------------------------------------------------
(* Who can go on, by the conditions the actions begin with.                *)
RunCan ==
    \/ pc \in {"start", "spawn", "finish"}
    \/ pc = "write" /\ (stdin.left = 0 \/ ~InputRead \/ stdin.held < Capacity)
    \/ pc = "wait" /\ child = "exited"
    \/ pc \in {"join", "abandon"} /\ ReadersEnded
ReadCan(s) == reader[s] = "reading" /\ (pipe[s] # <<>> \/ ~HeldOpen)
ProgramCan ==
    /\ child \in {"running", "deaf"}
    /\ rest # <<>> =>
         /\ Head(rest) = "read" => stdin.held > 0 \/ ~stdin.open
         /\ Head(rest) \in {"out", "blank", "err"} => Len(pipe[StreamOf(Head(rest))]) < Capacity
HelperCan == helper = "running" /\ Len(pipe["stdout"]) < Capacity

NobodyStuck ==
    pc # "done" => RunCan \/ (\E s \in Streams : ReadCan(s)) \/ ProgramCan \/ HelperCan

(* Theorem: until run() has returned there is always somebody whose step    *)
(* is possible, whatever the program does and however little a pipe holds:  *)
(* nobody waits for the input to be read, the output to be read and the     *)
(* program to end in a circle.                                              *)
THEOREM NobodyIsStuck == Spec => []NobodyStuck
<1>1. Ready /\ IInv /\ TypeOK => NobodyStuck
  <2> SUFFICES ASSUME Ready, IInv, TypeOK, pc # "done",
                      ~RunCan, \A s \in Streams : ~ReadCan(s), ~ProgramCan, ~HelperCan
               PROVE  FALSE
    BY DEF NobodyStuck
  <2>1. ~Unborn /\ pc \in {"write", "wait", "join", "abandon"}
    BY DEF RunCan, Ready, Place, Unborn
  <2>2. \A s \in Streams : reader[s] \in {"reading", "done"} /\ child # "none"
    BY <2>1 DEF Ready, IInv, EndsInOrder
  <2>3. \A s \in Streams : pipe[s] = <<>> /\ Len(pipe[s]) < Capacity
    <3>1. \A s \in Streams : pipe[s] = <<>>
      BY <2>2 DEF ReadCan, IInv, EndsInOrder
    <3> QED
      BY <3>1, EmptySeq, CapacityAssumption
  <2>4. helper # "running"
    BY <2>3 DEF HelperCan, Streams
  <2>5. child \notin {"running", "deaf"}
    <3> SUFFICES ASSUME child \in {"running", "deaf"} PROVE FALSE
      OBVIOUS
    <3>1. rest # <<>> /\ Head(rest) = "read" /\ stdin.open /\ ~(stdin.held > 0)
      BY <2>3 DEF ProgramCan, StreamOf, Streams
    <3>2. pc = "write" /\ stdin.held < Capacity
      BY <3>1, CapacityAssumption DEF Ready
    <3> QED
      BY <3>2 DEF RunCan
  <2>6. child = "exited" /\ ~HeldOpen /\ ~InputRead
    BY <2>2, <2>4, <2>5 DEF TypeOK, HeldOpen, InputRead, Streams
  <2>7. ReadersEnded
    BY <2>2, <2>6 DEF ReadCan, ReadersEnded
  <2> QED
    BY <2>1, <2>6, <2>7 DEF RunCan
<1> QED
  BY <1>1, Conservation, ReadyAlways, RunnerTypes, PTL

===============================================================================
