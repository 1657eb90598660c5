---- MODULE Finalize ----
(***************************************************************************)
(* g7inst finalize: the runtime settings after GnuBoard7's own browser     *)
(* installer has finished.  It records itself as the current step in       *)
(* state.json before it checks anything else about the installation.       *)
(***************************************************************************)
EXTENDS ServerState

StartFinalize ==
    /\ {"report", "state"} \subseteq meta
    /\ Lock("finalize", "finalize")
    /\ state' = [state EXCEPT !.current = "finalize"]
    /\ UNCHANGED <<server, meta, report, owned, journal,
                   step, at, after, mem, wipe, torn>>

\* The browser installer has left its marker in the deployed application.
FinalizeOk ==
    /\ op = "finalize" /\ pc = "finalize"
    /\ "source" \in effects
    /\ "owned" \in meta
    /\ state' = [state EXCEPT !.current = "none"]
    /\ pc' = "return"
    /\ UNCHANGED <<server, meta, report, owned, journal,
                   op, step, at, after, mem, wipe, torn>>

\* fail_step leaves the step current.
FinalizeFails ==
    /\ op = "finalize" /\ pc = "finalize"
    /\ pc' = "return"
    /\ UNCHANGED <<server, disk, op, step, at, after, mem, wipe, torn>>

FinalizeStep == FinalizeOk \/ FinalizeFails
====
