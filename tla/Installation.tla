---- MODULE Installation ----
(***************************************************************************)
(* What the record of an installation promises to whoever reads it later.  *)
(* A part on record stays until the whole is withdrawn, what is not on     *)
(* record may come and go, and a completed installation is not touched.    *)
(***************************************************************************)
CONSTANTS
    Part,
    Lasting,    \* the parts that nobody takes back once they are on record
    Needed      \* the parts of a completed installation
VARIABLES
    stage,      \* "none", "open", "completed", "withdrawn"
    kept,       \* the lasting parts on record
    there       \* the parts on the server

Init == stage = "none" /\ kept = {} /\ there = {}

Begin == stage = "none" /\ stage' = "open" /\ UNCHANGED <<kept, there>>

\* A part is made, or an attempt at it is undone.
Build(p) ==
    /\ stage \in {"open", "withdrawn"} /\ p \notin kept
    /\ there' \in {there \cup {p}, there \ {p}}
    /\ UNCHANGED <<stage, kept>>

Record ==
    /\ stage = "open"
    /\ kept \subseteq kept' /\ kept' \subseteq there /\ kept' \subseteq Lasting
    /\ \/ stage' = "open"
       \/ stage' = "completed" /\ Needed \subseteq there /\ kept' = Lasting
    /\ UNCHANGED there

\* The installation is taken away, part by part, while the record still stands.
Withdraw ==
    /\ stage \in {"open", "completed"} /\ stage' = "withdrawn"
    /\ kept' = {} /\ there' \subseteq there

Lose ==
    /\ stage \in {"none", "withdrawn"} /\ there' \subseteq there
    /\ UNCHANGED <<stage, kept>>

Vanish == stage = "withdrawn" /\ stage' = "none" /\ UNCHANGED <<kept, there>>

Next == Begin \/ (\E p \in Part : Build(p)) \/ Record \/ Withdraw \/ Lose \/ Vanish

Spec == Init /\ [][Next]_<<stage, kept, there>>
====
