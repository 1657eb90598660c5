---- MODULE AtomicStep ----
(***************************************************************************)
(* What a step's transaction promises about the files it covers: they      *)
(* change only at the moment the step is completed.  A failure, a crash,   *)
(* a restore, a retry leave them as they were.                             *)
(***************************************************************************)
CONSTANTS File, Value
VARIABLES content, phase

Init == content \in [File -> Value] /\ phase = "before"

Commit ==
    /\ phase = "before" /\ phase' = "after"
    /\ content' \in [File -> Value]

\* A completed step may be tried again: TLS that was put off, for one.
Retry == phase = "after" /\ phase' = "before" /\ UNCHANGED content

Next == Commit \/ Retry

Spec == Init /\ [][Next]_<<content, phase>>
====
