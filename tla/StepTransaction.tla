---- MODULE StepTransaction ----
(***************************************************************************)
(* The transaction of one install step, file by file: StepTransaction of   *)
(* install/transaction.rs with the writes to state.json around it.  The    *)
(* files are snapshotted in order and restored in the opposite order; a    *)
(* snapshot of a regular file is a copy that the next attempt overwrites.  *)
(***************************************************************************)
EXTENDS Naturals

CONSTANTS
    N,          \* how many files the step covers
    Data,       \* contents of regular files, targets of symbolic links
    RunGoesOn   \* the step is TLS: its failure does not end the run, and the
                \* application step becomes the current one

ASSUME TransactionAssumption ==
    N \in Nat /\ Data # {} /\ RunGoesOn \in BOOLEAN

File == 1..N

\* What is found at a path; atomic_write creates with mode 0600 ("temp").
Missing == [kind |-> "missing", data |-> "none", mode |-> "none"]
RegularFile == [kind : {"file"}, data : Data, mode : {"own", "temp"}]
Symlink == [kind : {"symlink"}, data : Data, mode : {"none"}]
Value == {Missing} \cup RegularFile \cup Symlink

\* A FileSnapshot: the data of a regular file is in its backup.
Entry == {Missing} \cup Symlink
         \cup [kind : {"file"}, data : {"in backup"}, mode : {"own", "temp"}]
EntryOf(v) ==
    IF v.kind = "file"
      THEN [kind |-> "file", data |-> "in backup", mode |-> v.mode] ELSE v

VARIABLES
    file,      \* what is at each path
    backup,    \* files/<nnnn>.backup; "torn" when a copy was cut short
    manifest,  \* manifest.json
    current,   \* state.json names this step
    \* the process
    pc, at, entries, resuming

vars == <<file, backup, manifest, current, pc, at, entries, resuming>>

NoEntries == [f \in File |-> Missing]

Init ==
    /\ file \in [File -> Value]
    /\ backup = [f \in File |-> "torn"]
    /\ manifest = [status |-> "none", entries |-> NoEntries]
    /\ current = FALSE
    /\ pc = "idle" /\ at = 1 /\ entries = NoEntries /\ resuming = FALSE

Idle ==
    /\ pc' = "idle" /\ at' = 1 /\ entries' = NoEntries /\ resuming' = FALSE

\* A snapshot put back.
PutBack(e, b) ==
    IF e.kind = "file" THEN [kind |-> "file", data |-> b, mode |-> e.mode] ELSE e
Restored(f) == PutBack(manifest.entries[f], backup[f])

\* What restore_unfinished_transaction acts on.
Open == current /\ manifest.status = "started"

---------------------------------------------------------------------------
\* begin

Begin ==
    /\ pc = "idle" /\ ~Open
    /\ pc' = "snapshot" /\ at' = 1
    /\ UNCHANGED <<file, backup, manifest, current, entries, resuming>>

Snapshot ==
    /\ pc = "snapshot" /\ at \in File
    /\ entries' = [entries EXCEPT ![at] = EntryOf(file[at])]
    /\ backup' = IF file[at].kind = "file"
                   THEN [backup EXCEPT ![at] = file[at].data] ELSE backup
    /\ at' = at + 1
    /\ UNCHANGED <<file, manifest, current, pc, resuming>>

\* Slip: the manifest is written before every file has been copied.
PersistStartedEarly ==
    /\ pc = "snapshot"
    /\ manifest' = [status |-> "started", entries |-> entries]
    /\ pc' = "mark"
    /\ UNCHANGED <<file, backup, current, at, entries, resuming>>

PersistStarted ==
    /\ pc = "snapshot" /\ at = N + 1
    /\ manifest' = [status |-> "started", entries |-> entries]
    /\ pc' = "mark"
    /\ UNCHANGED <<file, backup, current, at, entries, resuming>>

\* begin_step and persist_progress.
MarkCurrent ==
    /\ pc = "mark"
    /\ current' = TRUE
    /\ pc' = "apply"
    /\ UNCHANGED <<file, backup, manifest, at, entries, resuming>>

---------------------------------------------------------------------------
\* the step

\* The step writes, links or removes one of its files.
Apply ==
    /\ pc = "apply"
    /\ \E f \in File, v \in Value : file' = [file EXCEPT ![f] = v]
    /\ UNCHANGED <<backup, manifest, current, pc, at, entries, resuming>>

Complete ==
    /\ pc = "apply"
    /\ manifest' = [manifest EXCEPT !.status = "completed"]
    /\ pc' = "completed"
    /\ UNCHANGED <<file, backup, current, at, entries, resuming>>

\* complete_step, or fail_step for TLS or an application that is put off.
PersistCompleted ==
    /\ pc = "completed"
    /\ current' \in BOOLEAN
    /\ Idle
    /\ UNCHANGED <<file, backup, manifest>>

StepFails ==
    /\ pc = "apply"
    /\ pc' = "restore" /\ at' = N
    /\ UNCHANGED <<file, backup, manifest, current, entries, resuming>>

---------------------------------------------------------------------------
\* restore

ResumeRestores ==
    /\ pc = "idle" /\ Open
    /\ pc' = "restore" /\ at' = N /\ resuming' = TRUE
    /\ UNCHANGED <<file, backup, manifest, current, entries>>

\* A regular file is renamed into place before its mode is set; a symbolic
\* link is removed before it is made again.
HalfRestored(f) ==
    IF manifest.entries[f].kind = "file"
      THEN [kind |-> "file", data |-> backup[f], mode |-> "temp"] ELSE Missing

RestoreFile ==
    /\ pc = "restore" /\ at \in File
    /\ file' = [file EXCEPT ![at] = HalfRestored(at)]
    /\ IF manifest.entries[at].kind = "missing"
         THEN at' = at - 1 /\ pc' = "restore"
         ELSE at' = at /\ pc' = "settle"
    /\ UNCHANGED <<backup, manifest, current, entries, resuming>>

SettleFile ==
    /\ pc = "settle"
    /\ file' = [file EXCEPT ![at] = Restored(at)]
    /\ at' = at - 1 /\ pc' = "restore"
    /\ UNCHANGED <<backup, manifest, current, entries, resuming>>

PersistRestored ==
    /\ pc = "restore" /\ at = 0
    /\ manifest' = [manifest EXCEPT !.status = "restored"]
    /\ pc' = "report"
    /\ UNCHANGED <<file, backup, current, at, entries, resuming>>

RestoreFails ==
    /\ pc \in {"restore", "settle"}
    /\ pc' = "report"
    /\ UNCHANGED <<file, backup, manifest, current, at, entries, resuming>>

\* The step stays the current one whether or not its files were restored, but
\* for TLS, where the run goes on to the next step.
Report ==
    /\ pc = "report"
    /\ current' = (resuming \/ ~RunGoesOn)
    /\ Idle
    /\ UNCHANGED <<file, backup, manifest>>

\* The process dies, or gives up on an error; a copy may be cut short.
Interrupt ==
    /\ pc # "idle"
    /\ \/ backup' = backup
       \/ /\ pc = "snapshot" /\ at \in File /\ file[at].kind = "file"
          /\ backup' = [backup EXCEPT ![at] = "torn"]
    /\ Idle
    /\ UNCHANGED <<file, manifest, current>>

Next ==
    \/ Begin \/ Snapshot \/ PersistStarted \/ MarkCurrent
    \/ Apply \/ Complete \/ PersistCompleted \/ StepFails
    \/ ResumeRestores \/ RestoreFile \/ SettleFile \/ PersistRestored
    \/ RestoreFails \/ Report
    \/ Interrupt

Spec == Init /\ [][Next]_vars

---------------------------------------------------------------------------

\* The files as the next resume, or the next step, will have them.
Content == [f \in File |-> IF Open THEN Restored(f) ELSE file[f]]

Promise ==
    INSTANCE AtomicStep
        WITH content <- Content,
             phase <- IF manifest.status = "completed" THEN "after" ELSE "before"

\* Whatever fails and whenever the process dies, the files the step covers are,
\* for whoever comes next, either all as before the step or all as it left them
\* (transaction.rs, with the current step of state.json).
Atomic == Promise!Spec
====
