---- MODULE StepTransactionProofs ----
(***************************************************************************)
(* A step's transaction is atomic for any number of files and any          *)
(* contents, where the failure of the step ends the run.                   *)
(***************************************************************************)
EXTENDS StepTransaction, TLAPS

\* The files before f, in the order of the snapshots, are in es and backup.
SavedIn(es, f) ==
    /\ es[f] = EntryOf(file[f])
    /\ file[f].kind = "file" => backup[f] = file[f].data

TypeTransaction ==
    /\ file \in [File -> Value]
    /\ backup \in [File -> Data \cup {"torn"}]
    /\ manifest \in [status : {"none", "started", "completed", "restored"},
                     entries : [File -> Entry]]
    /\ current \in BOOLEAN /\ resuming \in BOOLEAN
    /\ pc \in {"idle", "snapshot", "mark", "apply", "completed",
               "restore", "settle", "report"}
    /\ at \in 0..(N + 1)
    /\ entries \in [File -> Entry]

\* A transaction that a resume would undo has whole backups.
BackupsWhole ==
    Open => \A f \in File : manifest.entries[f].kind = "file" => backup[f] \in Data

\* While the snapshots are taken nothing has changed, and no resume would undo
\* the attempt before this one: its backups are being overwritten.
Snapshotting ==
    pc = "snapshot" =>
        ~Open /\ at >= 1 /\ \A f \in File : f < at => SavedIn(entries, f)

\* Until the step is the current one nothing has changed.
Marking ==
    pc = "mark" =>
        /\ manifest.status = "started"
        /\ \A f \in File : SavedIn(manifest.entries, f)

\* While the step works on its files a resume would undo it.
OpenWhileWorking == pc \in {"apply", "restore", "settle"} => Open

\* The files behind the one that is put back have been put back.
Restoring ==
    /\ pc = "restore" => at <= N
    /\ pc = "settle" => at \in File
    /\ pc \in {"restore", "settle"} => \A f \in File : f > at => file[f] = Restored(f)

\* Only a transaction whose files were put back is closed without a commit.
ReportAfterRestore == pc = "report" => manifest.status = "restored" \/ Open
CompletedStays == pc = "completed" => manifest.status = "completed"

TransactionInv ==
    /\ TypeTransaction
    /\ BackupsWhole /\ Snapshotting /\ Marking /\ OpenWhileWorking /\ Restoring
    /\ ReportAfterRestore /\ CompletedStays
---------------------------------------------------------------------------
\* Snapshots and what they put back

LEMMA EntryIsEntry ==
    ASSUME NEW v \in Value PROVE EntryOf(v) \in Entry
<1>1. CASE v \in RegularFile
  <2>1. v.kind = "file" /\ v.mode \in {"own", "temp"} BY <1>1 DEF RegularFile
  <2> QED BY <2>1 DEF Entry, EntryOf
<1>2. CASE v \in Symlink
  <2>1. v.kind # "file" BY <1>2 DEF Symlink
  <2> QED BY <1>2, <2>1 DEF Entry, EntryOf
<1>3. CASE v = Missing BY <1>3 DEF Missing, Entry, EntryOf
<1> QED BY <1>1, <1>2, <1>3 DEF Value

\* The kind of a file tells what it is.
LEMMA KindOfValue ==
    ASSUME NEW v \in Value, v.kind = "file"
    PROVE  v \in RegularFile /\ v.data \in Data
<1>1. v \notin Symlink BY DEF Symlink
<1>2. v # Missing BY DEF Missing
<1>3. v \in RegularFile BY <1>1, <1>2 DEF Value
<1> QED BY <1>3 DEF RegularFile

\* What is put back from the snapshot of v is v, as long as the backup is.
LEMMA SavedIsRestored ==
    ASSUME NEW v \in Value, NEW e, NEW b,
           e = EntryOf(v), v.kind = "file" => b = v.data
    PROVE  v = PutBack(e, b)
<1>1. CASE v.kind = "file"
  <2>1. v \in RegularFile BY <1>1, KindOfValue
  <2>2. v = [kind |-> "file", data |-> v.data, mode |-> v.mode]
        BY <2>1 DEF RegularFile
  <2>3. e.kind = "file" /\ e.mode = v.mode BY <1>1 DEF EntryOf
  <2> QED BY <1>1, <2>2, <2>3 DEF PutBack
<1>2. CASE v.kind # "file" BY <1>2 DEF EntryOf, PutBack
<1> QED BY <1>1, <1>2

\* With whole backups only files, links and missing files are put back.
LEMMA RestoredIsValue ==
    ASSUME TypeTransaction, NEW f \in File,
           manifest.entries[f].kind = "file" => backup[f] \in Data
    PROVE  Restored(f) \in Value /\ HalfRestored(f) \in Value
<1>1. manifest.entries[f] \in Entry BY DEF TypeTransaction
<1>2. CASE manifest.entries[f].kind = "file"
  <2>1. manifest.entries[f] \notin Symlink BY <1>2 DEF Symlink
  <2>2. manifest.entries[f] # Missing BY <1>2 DEF Missing
  <2>3. manifest.entries[f] \in [kind : {"file"}, data : {"in backup"}, mode : {"own", "temp"}]
        BY <1>1, <2>1, <2>2 DEF Entry
  <2>4. manifest.entries[f].mode \in {"own", "temp"} BY <2>3
  <2> QED BY <1>2, <2>4 DEF Restored, PutBack, HalfRestored, Value, RegularFile
<1>3. CASE manifest.entries[f].kind # "file"
  <2>1. manifest.entries[f] \in Symlink \cup {Missing}
        BY <1>1, <1>3 DEF Entry
  <2> QED BY <1>3, <2>1 DEF Restored, PutBack, HalfRestored, Value
<1> QED BY <1>2, <1>3

---------------------------------------------------------------------------
\* The invariant is inductive

LEMMA NoEntriesType == NoEntries \in [File -> Entry]
BY DEF NoEntries, Entry

LEMMA TransactionInit == Init => TransactionInv
<1> SUFFICES ASSUME Init PROVE TransactionInv
    OBVIOUS
<1>1. at \in 0..(N + 1) /\ entries \in [File -> Entry]
      BY TransactionAssumption, NoEntriesType DEF Init
<1>2. manifest \in [status : {"none", "started", "completed", "restored"},
                   entries : [File -> Entry]]
      BY NoEntriesType DEF Init
<1>3. TypeTransaction BY <1>1, <1>2 DEF Init, TypeTransaction
<1> QED BY <1>3 DEF Init, TransactionInv, BackupsWhole, Snapshotting, Marking,
    OpenWhileWorking, Restoring, ReportAfterRestore, CompletedStays, Open

LEMMA TransactionNext == TransactionInv /\ [Next]_vars => TransactionInv'
<1> SUFFICES ASSUME TransactionInv, [Next]_vars PROVE TransactionInv'
    OBVIOUS
<1> USE TransactionAssumption, NoEntriesType
    DEF TransactionInv, TypeTransaction, BackupsWhole, Snapshotting, Marking,
        OpenWhileWorking, Restoring, ReportAfterRestore, CompletedStays, Open, Idle
<1>0. ASSUME Idle PROVE at' \in 0..(N + 1) /\ entries' \in [File -> Entry]
      BY <1>0
<1>1. CASE Begin BY <1>1 DEF Begin, File
<1>2. CASE Snapshot
  <2>1. file[at] \in Value /\ EntryOf(file[at]) \in Entry
        BY <1>2, EntryIsEntry DEF Snapshot
  <2>2. file[at].kind = "file" => file[at].data \in Data
        BY <2>1, KindOfValue
  <2>3. TypeTransaction'
        BY <1>2, <2>1, <2>2 DEF Snapshot, File
  <2>4. ASSUME NEW f \in File, f < at' PROVE SavedIn(entries, f)'
    <3>1. CASE f = at BY <1>2, <3>1 DEF Snapshot, SavedIn
    <3>2. CASE f < at BY <1>2, <3>2 DEF Snapshot, SavedIn, File
    <3> QED BY <1>2, <2>4, <3>1, <3>2 DEF Snapshot, File
  <2>5. at' >= 1 /\ ~Open' /\ pc' = "snapshot" BY <1>2 DEF Snapshot, File
  <2> QED BY <2>3, <2>4, <2>5
<1>3. CASE PersistStarted
  <2>1. \A f \in File : f < at BY <1>3 DEF PersistStarted, File
  <2>2. ASSUME NEW f \in File PROVE SavedIn(entries, f)
        BY <1>3, <2>1 DEF PersistStarted
  <2>3. ASSUME NEW f \in File
        PROVE  SavedIn(manifest.entries, f)' /\ (entries[f].kind = "file" => backup[f] \in Data)
    <3>1. file[f] \in Value OBVIOUS
    <3>2. file[f].kind = "file" => file[f].data \in Data
          BY <3>1, KindOfValue
    <3>3. entries[f].kind = "file" => file[f].kind = "file"
          BY <2>2 DEF SavedIn, EntryOf
    <3> QED BY <1>3, <2>2, <3>2, <3>3 DEF PersistStarted, SavedIn
  <2> QED BY <1>3, <2>3 DEF PersistStarted
<1>4. CASE MarkCurrent
  <2>1. ASSUME NEW f \in File, manifest.entries[f].kind = "file" PROVE backup[f] \in Data
    <3>1. file[f] \in Value /\ SavedIn(manifest.entries, f) BY <1>4 DEF MarkCurrent
    <3>2. file[f].kind = "file" BY <2>1, <3>1 DEF SavedIn, EntryOf
    <3>3. file[f].data \in Data
          BY <3>1, <3>2, KindOfValue
    <3> QED BY <3>1, <3>2, <3>3 DEF SavedIn
  <2> QED BY <1>4, <2>1 DEF MarkCurrent
<1>5. CASE Apply BY <1>5 DEF Apply
<1>6. CASE Complete BY <1>6 DEF Complete
<1>7. CASE PersistCompleted
  <2>1. TypeTransaction' BY <1>7, <1>0 DEF PersistCompleted
  <2> QED BY <1>7, <2>1 DEF PersistCompleted
<1>8. CASE StepFails BY <1>8 DEF StepFails, File
<1>9. CASE ResumeRestores BY <1>9 DEF ResumeRestores, File
<1>10. CASE RestoreFile
  <2>1. HalfRestored(at) \in Value
        BY <1>10, RestoredIsValue DEF RestoreFile
  <2>2. manifest.entries[at].kind = "missing" => HalfRestored(at) = Restored(at)
    <3>1. manifest.entries[at] \in Entry BY <1>10 DEF RestoreFile
    <3> QED BY <3>1 DEF HalfRestored, Restored, PutBack, Entry, Missing, Symlink
  <2>3. TypeTransaction' BY <1>10, <2>1 DEF RestoreFile, File
  <2>4. ASSUME NEW f \in File, f > at' PROVE file'[f] = Restored(f)'
    <3>1. Restored(f)' = Restored(f) BY <1>10 DEF RestoreFile, Restored
    <3>2. CASE f = at BY <1>10, <2>2, <2>4, <3>1, <3>2 DEF RestoreFile
    <3>3. CASE f > at BY <1>10, <3>1, <3>3 DEF RestoreFile, File
    <3> QED BY <1>10, <2>4, <3>2, <3>3 DEF RestoreFile, File
  <2> QED BY <1>10, <2>3, <2>4 DEF RestoreFile, File
<1>11. CASE SettleFile
  <2>1. Restored(at) \in Value
        BY <1>11, RestoredIsValue DEF SettleFile
  <2>2. TypeTransaction' BY <1>11, <2>1 DEF SettleFile, File
  <2>3. ASSUME NEW f \in File, f > at' PROVE file'[f] = Restored(f)'
    <3>1. Restored(f)' = Restored(f) BY <1>11 DEF SettleFile, Restored
    <3>2. CASE f = at BY <1>11, <3>1, <3>2 DEF SettleFile
    <3>3. CASE f > at BY <1>11, <3>1, <3>3 DEF SettleFile, File
    <3> QED BY <1>11, <2>3, <3>2, <3>3 DEF SettleFile, File
  <2> QED BY <1>11, <2>2, <2>3 DEF SettleFile, File
<1>12. CASE PersistRestored BY <1>12 DEF PersistRestored
<1>13. CASE RestoreFails BY <1>13 DEF RestoreFails
<1>14. CASE Report
  <2>1. TypeTransaction' BY <1>14, <1>0 DEF Report
  <2> QED BY <1>14, <2>1 DEF Report
<1>15. CASE Interrupt
  <2>1. TypeTransaction'
    <3>1. backup' \in [File -> Data \cup {"torn"}] BY <1>15 DEF Interrupt
    <3> QED BY <1>15, <1>0, <3>1 DEF Interrupt
  <2>2. pc' = "idle" /\ (pc # "snapshot" => UNCHANGED backup) /\ UNCHANGED <<manifest, current>>
        BY <1>15 DEF Interrupt
  <2>3. BackupsWhole' BY <2>2
  <2> QED BY <2>1, <2>2, <2>3
<1>16. CASE UNCHANGED vars BY <1>16 DEF vars, SavedIn, Restored
<1> QED
  BY <1>1, <1>2, <1>3, <1>4, <1>5, <1>6, <1>7, <1>8, <1>9, <1>10, <1>11, <1>12,
     <1>13, <1>14, <1>15, <1>16 DEF Next

---------------------------------------------------------------------------
\* The transaction implements its promise

Phase == IF manifest.status = "completed" THEN "after" ELSE "before"

LEMMA ContentIsFiles ==
    ASSUME TransactionInv PROVE Content \in [File -> Value]
<1>1. ASSUME NEW f \in File, Open PROVE Restored(f) \in Value
      BY <1>1, RestoredIsValue DEF TransactionInv, BackupsWhole
<1> QED BY <1>1 DEF Content, TransactionInv, TypeTransaction

\* A step that does not close the transaction leaves the content alone.
LEMMA Stutters ==
    ASSUME Phase' = Phase,
           \A f \in File : (IF Open THEN Restored(f) ELSE file[f])'
                           = (IF Open THEN Restored(f) ELSE file[f])
    PROVE  UNCHANGED <<Content, Phase>>
BY DEF Content

LEMMA StepMaps ==
    ASSUME ~RunGoesOn, TransactionInv, TransactionInv', [Next]_vars
    PROVE  [Promise!Next]_<<Content, Phase>>
<1> USE DEF TransactionInv, TypeTransaction, Snapshotting, Marking,
        OpenWhileWorking, Restoring, ReportAfterRestore, CompletedStays, Phase
<1>1. CASE Begin BY <1>1, Stutters DEF Begin, Open, Restored
<1>2. CASE Snapshot BY <1>2, Stutters DEF Snapshot, Open, Restored
<1>3. CASE PersistStarted
  <2>1. ASSUME NEW f \in File PROVE (IF Open THEN Restored(f) ELSE file[f])' = file[f]
    <3>1. SavedIn(manifest.entries, f)' /\ file'[f] \in Value
          BY <1>3 DEF PersistStarted
    <3>2. Restored(f)' = file'[f] BY <3>1, SavedIsRestored DEF SavedIn, Restored
    <3> QED BY <1>3, <3>2 DEF PersistStarted
  <2>2. UNCHANGED Content BY <1>3, <2>1 DEF PersistStarted, Content
  <2>3. CASE manifest.status = "completed"
        BY <1>3, <2>2, <2>3 DEF PersistStarted, Promise!Next, Promise!Retry
  <2>4. CASE manifest.status # "completed"
        BY <1>3, <2>2, <2>4 DEF PersistStarted
  <2> QED BY <2>3, <2>4
<1>4. CASE MarkCurrent
  <2>1. ASSUME NEW f \in File PROVE Restored(f) = file[f] /\ Restored(f)' = file'[f]
        BY <1>4, SavedIsRestored DEF MarkCurrent, SavedIn, Restored
  <2> QED BY <1>4, <2>1, Stutters DEF MarkCurrent
<1>5. CASE Apply BY <1>5, Stutters DEF Apply, Open, Restored
<1>6. CASE Complete
  <2>1. Content' \in [File -> Value] BY <1>6 DEF Complete, Open, Content
  <2> QED BY <1>6, <2>1 DEF Complete, Open, Promise!Next, Promise!Commit
<1>7. CASE PersistCompleted BY <1>7, Stutters DEF PersistCompleted, Open
<1>8. CASE StepFails BY <1>8, Stutters DEF StepFails, Open, Restored
<1>9. CASE ResumeRestores BY <1>9, Stutters DEF ResumeRestores, Open, Restored
<1>10. CASE RestoreFile BY <1>10, Stutters DEF RestoreFile, Open, Restored
<1>11. CASE SettleFile BY <1>11, Stutters DEF SettleFile, Open, Restored
<1>12. CASE PersistRestored
  <2>1. ASSUME NEW f \in File PROVE file[f] = Restored(f)
        BY <1>12 DEF PersistRestored, File
  <2> QED BY <1>12, <2>1, Stutters DEF PersistRestored, Open
<1>13. CASE RestoreFails BY <1>13, Stutters DEF RestoreFails, Open, Restored
<1>14. CASE Report BY <1>14, Stutters DEF Report, Open, Restored
<1>15. CASE Interrupt BY <1>15, Stutters DEF Interrupt, Open, Restored
<1>16. CASE UNCHANGED vars BY <1>16, Stutters DEF vars, Open, Restored
<1> QED
  BY <1>1, <1>2, <1>3, <1>4, <1>5, <1>6, <1>7, <1>8, <1>9, <1>10, <1>11, <1>12,
     <1>13, <1>14, <1>15, <1>16 DEF Next

\* A step whose failure ends the run is atomic, for any number of files and any
\* contents: the transaction (transaction.rs) implements AtomicStep.
THEOREM StepIsAtomic ==
    ASSUME ~RunGoesOn PROVE Spec => Atomic
<1>1. Init => Promise!Init
  <2> SUFFICES ASSUME Init PROVE Promise!Init
      OBVIOUS
  <2>1. Content \in [File -> Value] BY TransactionInit, ContentIsFiles
  <2> QED BY <2>1 DEF Init, Promise!Init
<1>2. TransactionInv /\ TransactionInv' /\ [Next]_vars
          => [Promise!Next]_<<Content, Phase>>
      BY StepMaps
<1> QED
  BY <1>1, <1>2, TransactionInit, TransactionNext, PTL DEF Spec, Atomic, Promise!Spec, Phase
====
