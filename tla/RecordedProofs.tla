---- MODULE RecordedProofs ----
(***************************************************************************)
(* What state.json records is on the server, and an installation that it   *)
(* calls completed is whole, whatever failed, was repeated or was cut      *)
(* short on the way; and where only the commands a step runs may fail, the *)
(* baseline and the list of files are true, and resume, rollback and reset *)
(* find what they need.                                                    *)
(***************************************************************************)
EXTENDS InstallerProofs

---------------------------------------------------------------------------
\* A step from its beginning until its progress is marked or it has failed.
AtWork ==
    /\ Running
    /\ \/ pc \in {"begin", "apply", "undo"}
       \/ pc \in Persisting /\ after = "apply"

\* What RecordedStepsApplied asks of the server for a set of finished steps.
Applied(done) ==
    /\ "packages" \in done => pkgs = "all"
    /\ "site" \in done => "account" \in effects /\ "site" \in side
    /\ done \cap {"runtime", "database"} \subseteq live
    /\ "database" \in done => "database" \in effects

\* The tasks before the current one have left what they make.
TasksMade ==
    At("apply") =>
        /\ step = "site" /\ at > 1 => "account" \in effects
        /\ step = "site" /\ at > 2 => "site" \in side
        /\ step = "runtime" /\ at > 1 => "runtime" \in live
        /\ step = "database" /\ at > 1 => "database" \in live
        /\ step = "database" /\ at > 3 => "database" \in effects

\* A step's tasks begin with the first, and what follows the writes is one of four.
FirstTask ==
    /\ after \in {"idle", "apply", "seal", "next", "return"}
    /\ Running /\ pc \in Persisting /\ after = "apply" => at = 1
    /\ Running /\ pc = "seal" => after # "apply"

\* install takes the steps in order, and no step that is finished is begun again,
\* so that undoing one takes nothing finished away.
InOrder == op = "install" /\ UnderWay => mem.done \subseteq Before[step] \cup {step}
NotYetDone == AtWork /\ (op = "install" \/ step \in PreTls) => step \notin mem.done

\* An open journal belongs to an unfinished step, but for the moment between the
\* step's end and the journal's.
OpenNotDone ==
    \A s \in {"runtime", "database"} :
        journal[s].status = "started" =>
            /\ s \notin state.done
            /\ UnderWay => \/ s \notin mem.done
                           \/ pc = "seal" /\ step = s

\* Restoring is done by the files as they were read.
Restoring ==
    pc = "restore" =>
        /\ op = "resume" /\ mem = Loaded
        /\ step = state.current /\ step \in Txn /\ journal[step].status = "started"

\* rollback and reset take away what state.json records only once torn says so.
TornHasState == torn => "state" \in meta
NoStateNothing == "state" \notin meta => state = NoState /\ op # "finalize"
TornFirst ==
    \/ op = "reset" /\ pc \in {"account", "purge", "purging", "wipe"}
    \/ op = "rollback" /\ pc \in {"purging", "wipe"}
    => ("state" \in meta => torn)

RecordedApplied == ~torn => Applied(state.done)
RememberedApplied == UnderWay /\ ~torn => Applied(mem.done)

RecordedParts ==
    /\ TasksMade /\ FirstTask /\ InOrder /\ NotYetDone /\ OpenNotDone /\ Restoring
    /\ TornHasState /\ NoStateNothing /\ TornFirst
    /\ RecordedApplied /\ RememberedApplied

RecordedInv == RollbackInv /\ RecordedParts

\* How far a step that has gone through all its tasks has got.
LEMMA AllTasksMade ==
    ASSUME step \in Step, at = Len(Tasks[step]) + 1
    PROVE  at = IF step \in {"site", "database"} THEN 4 ELSE 3
<1>1. Len(Tasks[step]) = IF step \in {"site", "database"} THEN 3 ELSE 2
      BY TaskTotal
<1>2. CASE step \in {"site", "database"} BY <1>1, <1>2
<1>3. CASE step \notin {"site", "database"} BY <1>1, <1>3
<1> QED BY <1>2, <1>3

\* Where in its step each task stands.
LEMMA TaskPlace ==
    ASSUME TypeOK, NEW t, Task(t)
    PROVE  /\ step \in Step /\ at \in {1, 2, 3}
           /\ at = 3 => step \in {"site", "database"}
           /\ step = "packages" => (at = 1 => t = "inspect") /\ (at = 2 => t = "apt")
           /\ step = "site" => /\ at = 1 => t = "account"
                               /\ at = 2 => t = "side"
                               /\ at = 3 => t = "conf"
           /\ step = "runtime" => (at = 1 => t = "conf") /\ (at = 2 => t = "side")
           /\ step = "vhost" => (at = 1 => t = "conf") /\ (at = 2 => t = "smoke")
           /\ step = "database" => /\ at = 1 => t = "conf"
                                   /\ at = 2 => t = "side"
                                   /\ at = 3 => t = "sql"
           /\ step = "tls" => (at = 1 => t = "certificate") /\ (at = 2 => t = "conf")
           /\ step = "app" => (at = 1 => t = "source") /\ (at = 2 => t = "conf")
<1>1. Tasks["packages"] = <<"inspect", "apt">> BY DEF Tasks
<1>2. Tasks["site"] = <<"account", "side", "conf">> BY DEF Tasks
<1>3. Tasks["runtime"] = <<"conf", "side">> BY DEF Tasks
<1>4. Tasks["vhost"] = <<"conf", "smoke">> BY DEF Tasks
<1>5. Tasks["database"] = <<"conf", "side", "sql">> BY DEF Tasks
<1>6. Tasks["tls"] = <<"certificate", "conf">> BY DEF Tasks
<1>7. Tasks["app"] = <<"source", "conf">> BY DEF Tasks
<1>8. /\ step \in Step /\ at \in Nat /\ at >= 1
      /\ at <= Len(Tasks[step]) /\ Tasks[step][at] = t
      BY DEF TypeOK, TypeControl, Task
<1>9. Len(Tasks[step]) = IF step \in {"site", "database"} THEN 3 ELSE 2
      BY <1>8, TaskTotal
<1>10. at \in {1, 2, 3} /\ (at = 3 => step \in {"site", "database"})
  <2>1. CASE step \in {"site", "database"} BY <1>8, <1>9, <2>1
  <2>2. CASE step \notin {"site", "database"} BY <1>8, <1>9, <2>2
  <2> QED BY <2>1, <2>2
<1>11. CASE step = "packages"
  <2>1. at = 1 => t = "inspect" BY <1>1, <1>8, <1>11
  <2>2. at = 2 => t = "apt" BY <1>1, <1>8, <1>11
  <2> QED BY <1>8, <1>10, <1>11, <2>1, <2>2
<1>12. CASE step = "site"
  <2>1. at = 1 => t = "account" BY <1>2, <1>8, <1>12
  <2>2. at = 2 => t = "side" BY <1>2, <1>8, <1>12
  <2>3. at = 3 => t = "conf" BY <1>2, <1>8, <1>12
  <2> QED BY <1>8, <1>10, <1>12, <2>1, <2>2, <2>3
<1>13. CASE step = "runtime"
  <2>1. at = 1 => t = "conf" BY <1>3, <1>8, <1>13
  <2>2. at = 2 => t = "side" BY <1>3, <1>8, <1>13
  <2> QED BY <1>8, <1>10, <1>13, <2>1, <2>2
<1>14. CASE step = "vhost"
  <2>1. at = 1 => t = "conf" BY <1>4, <1>8, <1>14
  <2>2. at = 2 => t = "smoke" BY <1>4, <1>8, <1>14
  <2> QED BY <1>8, <1>10, <1>14, <2>1, <2>2
<1>15. CASE step = "database"
  <2>1. at = 1 => t = "conf" BY <1>5, <1>8, <1>15
  <2>2. at = 2 => t = "side" BY <1>5, <1>8, <1>15
  <2>3. at = 3 => t = "sql" BY <1>5, <1>8, <1>15
  <2> QED BY <1>8, <1>10, <1>15, <2>1, <2>2, <2>3
<1>16. CASE step = "tls"
  <2>1. at = 1 => t = "certificate" BY <1>6, <1>8, <1>16
  <2>2. at = 2 => t = "conf" BY <1>6, <1>8, <1>16
  <2> QED BY <1>8, <1>10, <1>16, <2>1, <2>2
<1>17. CASE step = "app"
  <2>1. at = 1 => t = "source" BY <1>7, <1>8, <1>17
  <2>2. at = 2 => t = "conf" BY <1>7, <1>8, <1>17
  <2> QED BY <1>8, <1>10, <1>17, <2>1, <2>2
<1> QED BY <1>8, <1>11, <1>12, <1>13, <1>14, <1>15, <1>16, <1>17 DEF Step, Txn

\* Nothing is recorded at the start.
LEMMA RecordedInit == Init => RecordedInv
BY RollbackInit DEF Init, RecordedInv, RecordedParts, TasksMade, FirstTask, InOrder,
    NotYetDone,
   OpenNotDone, Restoring, TornHasState, NoStateNothing, TornFirst, RecordedApplied,
   RememberedApplied, Applied, AtWork, At, Running, UnderWay, NoState, NoJournal, Txn

\* install and resume preserve it.
LEMMA RecordedOrchestrator == RecordedInv /\ OrchestratorStep => RecordedParts'
<1> SUFFICES ASSUME RecordedInv, OrchestratorStep PROVE RecordedParts'
    OBVIOUS
<1> USE DEF RecordedInv, RecordedParts, TasksMade, FirstTask, InOrder, NotYetDone,
    OpenNotDone,
        Restoring, TornHasState, NoStateNothing, TornFirst, RecordedApplied,
        RememberedApplied, Applied, AtWork, Persisting, UnderWay, Running, Early,
        RollbackInv, SafetyParts, EarlyShallow, AfterIsOwn, MemoryKeepsProgress,
        server, disk, process, At,
        TypeOK, TypeServer, TypeDisk, TypeControl, TypeMemory, StateRecord,
        MemoryRecord, JournalRecord
<1>1. CASE MakeLibDir BY <1>1 DEF MakeLibDir
<1>2. CASE ReserveOwnedFiles BY <1>2 DEF ReserveOwnedFiles
<1>3. CASE WriteConfigAndReport BY <1>3 DEF WriteConfigAndReport
<1>4. CASE WritePreparedState BY <1>4 DEF WritePreparedState, NoState, Blank, PreTls
<1>5. CASE RestoreUnfinished BY <1>5 DEF RestoreUnfinished, RestoreFiles, Covers,
    Loaded
<1>6. CASE BeginPackages BY <1>6 DEF BeginPackages
<1>7. CASE BeginTransaction BY <1>7 DEF BeginTransaction, Covers, PreTls, Step
<1>8. CASE PersistOwned BY <1>8 DEF PersistOwned
<1>9. CASE PersistState
  <2> USE <1>9 DEF PersistState, FilesThere
  <2> QED OBVIOUS
<1>10. CASE PersistReport
  <2> USE <1>10 DEF PersistReport
  <2> QED OBVIOUS
<1>11. CASE InspectPackages BY <1>11, TaskPlace DEF InspectPackages, Task
<1>12. CASE AptInstall BY <1>12, TaskPlace DEF AptInstall, Task
<1>13. CASE MakeEffect BY <1>13, TaskPlace DEF MakeEffect, Task, EffectOf
<1>14. CASE WriteConf BY <1>14, TaskPlace DEF WriteConf, Task
<1>15. CASE WriteSide BY <1>15, TaskPlace DEF WriteSide, Task
<1>16. CASE SmokeAndRemoveProbe BY <1>16, TaskPlace DEF SmokeAndRemoveProbe, Task
<1>17. CASE StepFails BY <1>17 DEF StepFails
<1>18. CASE PackagesDone BY <1>18 DEF PackagesDone, Txn
<1>19. CASE PackagesFailed BY <1>19 DEF PackagesFailed
<1>20. CASE StepApplied
  <2> USE <1>20 DEF StepApplied, Txn, Step
  <2>12. at = IF step \in {"site", "database"} THEN 4 ELSE 3
    <3>1. step \in Step /\ at = Len(Tasks[step]) + 1 OBVIOUS
    <3> QED BY <3>1, AllTasksMade
  <2>11. RememberedApplied'
    <3> SUFFICES ASSUME ~torn PROVE Applied(mem'.done)
        OBVIOUS
    <3>1. mem'.done = mem.done \cup {step} /\ Applied(mem.done) OBVIOUS
    <3>2. CASE step = "site" BY <2>12, <3>1, <3>2
    <3>3. CASE step \in {"runtime", "database"} BY <2>12, <3>1, <3>3
    <3>4. CASE step \notin {"site", "runtime", "database"} BY <3>1, <3>4
    <3> QED BY <3>2, <3>3, <3>4
  <2> QED BY <2>11
<1>21. CASE TlsNotAttempted BY <1>21 DEF TlsNotAttempted
<1>22. CASE Seal
  <2> USE <1>22 DEF Seal
  <2>5. OpenNotDone'
    <3> SUFFICES ASSUME NEW s \in {"runtime", "database"},
                        journal'[s].status = "started"
                 PROVE  s \notin state.done /\ s \notin mem.done
        OBVIOUS
    <3>1. s # step BY DEF Txn
    <3> QED BY <3>1 DEF Txn
  <2> QED BY <2>5
<1>23. CASE UndoStep
  <2> USE <1>23 DEF UndoStep, RestoreFiles, Covers
  <2>12. \A s \in {"runtime", "database"} : s \in mem.done /\ s \in live => s \in live'
        BY DEF PreTls, Step, Txn
  <2>13. state'.done = state.done /\ mem'.done = mem.done /\ state.done \subseteq mem.done
        OBVIOUS
  <2>10. RecordedApplied' BY <2>12, <2>13
  <2>11. RememberedApplied' BY <2>12, <2>13
  <2> QED BY <2>10, <2>11
<1>24. CASE NextInstallStep BY <1>24 DEF NextInstallStep, Before, Step, Txn
<1>25. CASE NextResumeStep BY <1>25 DEF NextResumeStep, ResumeStep, PreTls
<1>26. CASE Finish BY <1>26 DEF Finish
<1> QED
  BY <1>1, <1>2, <1>3, <1>4, <1>5, <1>6, <1>7, <1>8, <1>9, <1>10, <1>11, <1>12,
    <1>13, <1>14, <1>15, <1>16, <1>17, <1>18, <1>19, <1>20, <1>21, <1>22, <1>23,
    <1>24, <1>25, <1>26 DEF OrchestratorStep

\* rollback and reset do.
LEMMA RecordedTeardown == RecordedInv /\ TeardownStep => RecordedParts'
<1> SUFFICES ASSUME RecordedInv, TeardownStep PROVE RecordedParts'
    OBVIOUS
<1> USE DEF RecordedInv, RecordedParts, TasksMade, FirstTask, InOrder, NotYetDone,
    OpenNotDone,
        Restoring, TornHasState, NoStateNothing, TornFirst, RecordedApplied,
        RememberedApplied, Applied, AtWork, Persisting, UnderWay, Running, Early,
        RollbackInv, SafetyParts, StateHasJournal, WipeOrder, NoState,
        server, disk, process, At,
        TypeOK, TypeServer, TypeDisk, TypeControl, TypeMemory, StateRecord,
        MemoryRecord, JournalRecord
<1>1. CASE DropDatabase
  <2>1. torn' <=> "state" \in meta BY <1>1 DEF DropDatabase
  <2>2. /\ op = "reset" /\ op' = op /\ pc' \in {"account", "return"}
        /\ UNCHANGED <<disk, after, mem, pkgs, live, side>>
        BY <1>1 DEF DropDatabase
  <2> HIDE DEF TypeOK
  <2> QED BY <2>1, <2>2
<1>2. CASE DeleteAccount BY <1>2 DEF DeleteAccount
<1>3. CASE PurgeBegins
  <2>1. torn' <=> "state" \in meta BY <1>3 DEF PurgeBegins
  <2>2. /\ op \in {"rollback", "reset"} /\ op' = op /\ pc' = "purging"
        /\ UNCHANGED <<disk, after, mem, live, side, effects>>
        BY <1>3 DEF PurgeBegins
  <2> HIDE DEF TypeOK
  <2> QED BY <2>1, <2>2
<1>4. CASE PurgeEnds BY <1>4 DEF PurgeEnds, ResetFileList
<1>5. CASE PurgeFails BY <1>5 DEF PurgeFails
<1>6. CASE RemoveResetFile
  <2>1. PICK i \in 1..Len(RemovalOrder) :
          RemovalOrder[i] \in wipe /\ RemoveFile(RemovalOrder[i])
        BY <1>6 DEF RemoveResetFile
  <2>2. /\ op \in {"rollback", "reset"} /\ op' = op /\ pc = "wipe"
        /\ UNCHANGED <<after, mem, effects, pkgs>>
        BY <1>6 DEF RemoveResetFile
  <2>3. pc' \in {"return", "wipe"} BY <2>1 DEF RemoveFile
  <2>4. "state" \in meta => torn BY <2>2
  <2>5. CASE RemovalOrder[i] = <<"state", "meta">>
    <3>1. state' = NoState /\ ~torn' BY <2>1, <2>5 DEF RemoveFile
    <3>2. RemovalOrder[i][1] = "state" /\ RemovalOrder[i][2] = "meta" BY <2>5
    <3>3. "state" \notin meta' BY <2>1, <3>2 DEF RemoveFile
    <3>4. state'.done = {} BY <3>1
    <3> QED BY <2>2, <2>3, <3>1, <3>3, <3>4
  <2>6. CASE RemovalOrder[i] # <<"state", "meta">>
    <3>1. state' = state /\ (torn' <=> torn) BY <2>1, <2>6 DEF RemoveFile
    <3>2. "state" \in meta' <=> "state" \in meta
      <4>1. RemovalOrder[i] \in Token BY <2>1
      <4> QED BY <2>1, <2>6, <4>1 DEF RemoveFile, Token
    <3>3. \A s \in {"runtime", "database"} : journal'[s].status = "started"
                                            => journal[s].status = "started"
          BY <2>1 DEF RemoveFile, NoJournal, Txn
    <3> QED BY <2>2, <2>3, <2>4, <3>1, <3>2, <3>3
  <2> QED BY <2>5, <2>6
<1>7. CASE NothingToRemove BY <1>7 DEF NothingToRemove
<1> QED
  BY <1>1, <1>2, <1>3, <1>4, <1>5, <1>6, <1>7 DEF TeardownStep

\* finalize does, and the end of any command.
LEMMA RecordedEnds == RecordedInv /\ (FinalizeStep \/ Return \/ Interrupt) => RecordedParts'
<1> SUFFICES ASSUME RecordedInv, FinalizeStep \/ Return \/ Interrupt PROVE RecordedParts'
    OBVIOUS
<1> USE DEF RecordedInv, RecordedParts, TasksMade, FirstTask, InOrder, NotYetDone,
    OpenNotDone,
        Restoring, TornHasState, NoStateNothing, TornFirst, RecordedApplied,
        RememberedApplied, Applied, AtWork, Persisting, UnderWay, Running, Early,
        RollbackInv, SafetyParts, StateHasJournal, WipeOrder, NoState,
        server, disk, process, At,
        TypeOK, TypeServer, TypeDisk, TypeControl, TypeMemory, StateRecord,
        MemoryRecord, JournalRecord
<1>1. CASE FinalizeOk BY <1>1 DEF FinalizeOk
<1>2. CASE FinalizeFails BY <1>2 DEF FinalizeFails
<1>3. CASE Return BY <1>3 DEF Return, Stopped
<1>4. CASE Interrupt BY <1>4 DEF Interrupt, Stopped
<1> QED
  BY <1>1, <1>2, <1>3, <1>4 DEF FinalizeStep

\* So does the start of one.
LEMMA RecordedStart == RecordedInv /\ Start => RecordedParts'
<1> SUFFICES ASSUME RecordedInv, Start PROVE RecordedParts'
    OBVIOUS
<1> USE DEF RecordedInv, RecordedParts, TasksMade, FirstTask, InOrder, NotYetDone,
    OpenNotDone,
        Restoring, TornHasState, NoStateNothing, TornFirst, RecordedApplied,
        RememberedApplied, Applied, AtWork, Persisting, UnderWay, Running, Early,
        RollbackInv, SafetyParts, StateHasJournal, WipeOrder,
        server, disk, process, At,
        TypeOK, TypeServer, TypeDisk, TypeControl, TypeMemory, StateRecord,
        MemoryRecord, JournalRecord
<1>1. CASE StartInstall BY <1>1 DEF StartInstall, Lock, InstallAllowed, Blank
<1>2. CASE StartResume BY <1>2 DEF StartResume, Loaded
<1>3. CASE StartRollback BY <1>3 DEF StartRollback, Lock
<1>4. CASE StartReset BY <1>4 DEF StartReset, Lock
<1>5. CASE StartFinalize BY <1>5 DEF StartFinalize, Lock
<1> QED
  BY <1>1, <1>2, <1>3, <1>4, <1>5 DEF Start

\* Every step of the specification preserves it.
LEMMA RecordedStep == RecordedInv /\ [Next]_vars => RecordedInv'
<1> SUFFICES ASSUME RecordedInv, [Next]_vars PROVE RecordedInv'
    OBVIOUS
<1>1. RollbackInv' BY RollbackStep DEF RecordedInv
<1>2. RecordedParts'
  <2>1. CASE Start BY <2>1, RecordedStart
  <2>2. CASE OrchestratorStep BY <2>2, RecordedOrchestrator
  <2>3. CASE TeardownStep BY <2>3, RecordedTeardown
  <2>4. CASE FinalizeStep \/ Return \/ Interrupt BY <2>4, RecordedEnds
  <2>5. CASE UNCHANGED vars
        BY <2>5 DEF vars, server, disk, process, RecordedInv, RecordedParts,
           TasksMade, FirstTask, InOrder, NotYetDone, OpenNotDone, Restoring,
               TornHasState,
           NoStateNothing, TornFirst, RecordedApplied, RememberedApplied, Applied,
           AtWork, At, UnderWay, Running, Loaded
  <2> QED BY <2>1, <2>2, <2>3, <2>4, <2>5 DEF Next, Work
<1> QED BY <1>1, <1>2 DEF RecordedInv

\* What state.json records as finished is on the server, so a resume that skips
\* it skips nothing that is missing: after any failures, interruptions and
\* repetitions, with the file operations failing too.
THEOREM RecordedStepsAreApplied == Spec => []RecordedStepsApplied
<1>1. RecordedInv => RecordedStepsApplied
      BY DEF RecordedInv, RecordedParts, RecordedApplied, Applied,
          RecordedStepsApplied
<1> QED BY RecordedInit, RecordedStep, <1>1, PTL DEF Spec

---------------------------------------------------------------------------
\* A completed installation

\* The step is over, and the next one is not chosen yet.
GoesOn ==
    \/ pc \in {"next", "seal"}
    \/ pc \in Persisting /\ after \in {"next", "seal"}

\* What the tasks of the last steps have left.
LateTasksMade ==
    At("apply") =>
        /\ step = "vhost" /\ at > 1 => "vhost" \in live
        /\ step = "tls" /\ at > 2 => "tls" \in live
        /\ step = "app" /\ at > 1 => "source" \in effects
        /\ step = "app" /\ at > 2 => "app" \in live

\* install starts with an empty report, without a report there are no checks to go
\* by, and whoever works has one.
NoReportNothing ==
    /\ "report" \notin meta => report = NoReport
    /\ UnderWay \/ (op = "install" /\ pc = "first-state") => "report" \in meta
FreshReport ==
    op = "install" /\ pc \in Early =>
        /\ pc = "first-state" => report = NoReport
        /\ pc # "first-state" => "report" \notin meta

\* install has finished every step before the current one, TLS excepted, and a
\* check that passed stands for a finished step.
InstallDone ==
    op = "install" /\ UnderWay =>
        /\ Before[step] \ {"tls"} \subseteq mem.done
        /\ GoesOn => step \in mem.done \cup {"tls"}
        /\ step \in PreTls => ~mem.tls
        /\ "tls" \in mem.done => mem.tls
        /\ "app" \in mem.done => mem.app
ResumeOrder ==
    op = "resume" /\ pc # "restore" /\ step \in {"tls", "app"} => PreTls \subseteq mem.done

\* Between two steps the memory and the disk agree.
Synced ==
    Running /\ (\/ pc = "begin"
                \/ pc = "next" /\ step # "app"
                \/ pc = "seal" /\ op = "install" /\ step = "vhost")
        => mem.tls = report.tls /\ mem.app = report.app
ProgressSynced ==
    Running /\ pc = "persist-report" => mem.current = state.current /\ mem.done = state.done

\* The TLS check passes after everything before it, and then the HTTPS vhost and
\* the HTTP one are in place; what could take them away again, an open journal,
\* is not there any more.
TlsLast ==
    /\ "state" \in meta /\ report.tls => PreTls \subseteq state.done
    /\ UnderWay /\ mem.tls => PreTls \subseteq mem.done
TlsInPlace ==
    ~LocalTest =>
        /\ "state" \in meta /\ ~torn /\ report.tls => {"tls", "vhost"} \subseteq live
        /\ UnderWay /\ ~torn /\ mem.tls => {"tls", "vhost"} \subseteq live
        /\ AtWork /\ step = "tls" => ~mem.tls /\ ~report.tls
        /\ journal["tls"].status = "started" =>
              /\ ~report.tls
              /\ UnderWay => ~mem.tls \/ (pc = "seal" /\ step = "tls")
        /\ journal["vhost"].status = "started" =>
              /\ report.tls => state.current # "vhost"
              /\ UnderWay /\ mem.tls => mem.current # "vhost"

\* While the memory names the vhost step and its journal is open, that step is the
\* one at work, or the one that failed.
VhostOpen ==
    UnderWay /\ pc \notin {"restore", "return"} /\ mem.current = "vhost"
             /\ journal["vhost"].status = "started" =>
        /\ step = "vhost"
        /\ \/ AtWork /\ pc # "begin"
           \/ pc \in Persisting /\ after = "return"
           \/ op = "install" /\ (pc = "seal" \/ (pc \in Persisting /\ after = "seal"))
        /\ op = "install" \/ "vhost" \notin mem.done

\* The same for the application.
AppInPlace ==
    /\ "state" \in meta /\ report.app => "app" \in state.done
    /\ UnderWay /\ mem.app => "app" \in mem.done
    /\ "state" \in meta /\ ~torn /\ report.app => "app" \in live /\ "source" \in effects
    /\ UnderWay /\ ~torn /\ mem.app => "app" \in live /\ "source" \in effects
    /\ AtWork /\ step = "app" => ~mem.app /\ ~report.app
    /\ journal["app"].status = "started" =>
          /\ ~report.app
          /\ UnderWay => ~mem.app \/ (pc = "seal" /\ step = "app")

\* A finished vhost step is in place while no process dies between its marker and
\* the end of its journal.
VhostInPlace ==
    ~Faults =>
        /\ ~torn /\ "vhost" \in state.done => "vhost" \in live
        /\ UnderWay /\ ~torn /\ "vhost" \in mem.done => "vhost" \in live
        /\ journal["vhost"].status = "started" /\ "vhost" \in state.done \cup mem.done
             => /\ Running /\ step = "vhost"
                /\ pc = "seal" \/ (pc \in Persisting /\ after = "seal")

\* What CompletedIsWhole asks of the server.
Whole ==
    /\ pkgs = "all"
    /\ {"runtime", "vhost", "database", "app"} \subseteq live
    /\ {"account", "database", "source"} \subseteq effects
    /\ ~LocalTest => "tls" \in live

\* Nothing is done after completion is decided but to write it down.
Completing ==
    /\ state.phase = "completed" /\ ~torn => Whole
    /\ UnderWay /\ state.phase = "completed" => mem.phase = "completed"
    /\ UnderWay /\ mem.phase = "completed" =>
          /\ pc = "return" \/ (pc \in Persisting /\ after = "return")
          /\ ~torn => Whole

CompletedParts ==
    /\ LateTasksMade /\ NoReportNothing /\ FreshReport /\ InstallDone /\ ResumeOrder
    /\ Synced /\ ProgressSynced /\ TlsLast /\ TlsInPlace /\ AppInPlace /\ VhostInPlace
    /\ VhostOpen /\ Completing

CompletedInv == RecordedInv /\ CompletedParts

\* None of it at the start.
LEMMA CompletedInit == Init => CompletedInv
BY RecordedInit DEF Init, CompletedInv, CompletedParts, LateTasksMade,
    NoReportNothing,
   FreshReport, InstallDone, ResumeOrder, Synced, ProgressSynced, TlsLast, TlsInPlace,
   AppInPlace, VhostInPlace, VhostOpen, Completing, At, AtWork, Running, UnderWay, NoState,
   NoReport, NoJournal, Txn

\* install and resume preserve it.
LEMMA CompletedOrchestrator ==
    ASSUME ~(LocalTest /\ Faults), CompletedInv, OrchestratorStep
    PROVE  CompletedParts'
<1> USE DEF CompletedInv, CompletedParts, LateTasksMade, NoReportNothing,
    FreshReport,
        InstallDone, ResumeOrder, Synced, ProgressSynced, TlsLast, TlsInPlace,
        AppInPlace, VhostInPlace, VhostOpen, Completing, Whole, GoesOn,
        RecordedInv, RecordedParts, TasksMade, FirstTask, InOrder, NotYetDone,
        Restoring, NoStateNothing, TornFirst, RecordedApplied,
        RememberedApplied, Applied, AtWork, Persisting, UnderWay, Running, Early,
        RollbackInv, SafetyParts, EarlyShallow, FilesThere, MemoryKeepsProgress,
        server, disk, process, At,
        TypeOK, TypeServer, TypeDisk, TypeControl, TypeMemory, StateRecord,
        ReportRecord, MemoryRecord, JournalRecord
<1>1. CASE MakeLibDir BY <1>1 DEF MakeLibDir
<1>2. CASE ReserveOwnedFiles BY <1>2 DEF ReserveOwnedFiles
<1>3. CASE WriteConfigAndReport BY <1>3 DEF WriteConfigAndReport
<1>4. CASE WritePreparedState BY <1>4 DEF WritePreparedState, NoState, NoReport,
    Blank, Before
<1>5. CASE RestoreUnfinished BY <1>5 DEF RestoreUnfinished, RestoreFiles, Covers,
    Loaded
<1>6. CASE BeginPackages BY <1>6 DEF BeginPackages
<1>7. CASE BeginTransaction
  <2> USE <1>7 DEF BeginTransaction, Covers, Before, PreTls, Step, Txn
  <2> QED OBVIOUS
<1>8. CASE PersistOwned BY <1>8 DEF PersistOwned
<1>9. CASE PersistState
  <2> USE <1>9 DEF PersistState
  <2>9. TlsInPlace'
    <3>1. journal["vhost"].status = "started" /\ report.tls => mem.current # "vhost"
      <4> SUFFICES ASSUME journal["vhost"].status = "started", report.tls,
                          mem.current = "vhost"
                   PROVE  FALSE
          OBVIOUS
      <4>1. PreTls \subseteq mem.done OBVIOUS
      <4>2. "vhost" \in mem.done /\ "database" \in mem.done
            BY <4>1 DEF PreTls, Step, Txn
      <4>3. op = "install" /\ step = "vhost" BY <4>2
      <4>4. mem.done \subseteq Before["vhost"] \cup {"vhost"} BY <4>3
      <4> QED BY <4>2, <4>4 DEF Before
    <3>2. state'.current = mem.current /\ UNCHANGED <<report, journal, live, meta, torn,
             op, step, mem>>
          OBVIOUS
    <3> QED BY <3>1, <3>2
  <2> QED BY <2>9
<1>10. CASE PersistReport
  <2> USE <1>10 DEF PersistReport
  <2> QED OBVIOUS
<1>11. CASE InspectPackages BY <1>11, TaskPlace DEF InspectPackages, Task
<1>12. CASE AptInstall BY <1>12, TaskPlace DEF AptInstall, Task
<1>13. CASE MakeEffect BY <1>13, TaskPlace DEF MakeEffect, Task, EffectOf
<1>14. CASE WriteConf BY <1>14, TaskPlace DEF WriteConf, Task
<1>15. CASE WriteSide BY <1>15, TaskPlace DEF WriteSide, Task
<1>16. CASE SmokeAndRemoveProbe BY <1>16, TaskPlace DEF SmokeAndRemoveProbe, Task
<1>17. CASE StepFails BY <1>17 DEF StepFails
<1>18. CASE PackagesDone BY <1>18 DEF PackagesDone, Before
<1>19. CASE PackagesFailed BY <1>19 DEF PackagesFailed
<1>20. CASE StepApplied
  <2> USE <1>20 DEF StepApplied, PhaseAfter, Before, PreTls, Txn, Step
  <2>14. at = IF step \in {"site", "database"} THEN 4 ELSE 3
    <3>1. step \in Step /\ at = Len(Tasks[step]) + 1 OBVIOUS
    <3> QED BY <3>1, AllTasksMade
  <2>1. LateTasksMade' OBVIOUS
  <2>2. NoReportNothing' OBVIOUS
  <2>3. FreshReport' OBVIOUS
  <2>4. InstallDone' OBVIOUS
  <2>5. ResumeOrder' OBVIOUS
  <2>6. Synced' OBVIOUS
  <2>7. ProgressSynced' OBVIOUS
  <2>8. TlsLast' OBVIOUS
  <2>9. TlsInPlace' BY <2>14
  <2>10. AppInPlace' BY <2>14
  <2>11. VhostInPlace' BY <2>14
  <2>12. Completing' OBVIOUS
  <2>13. VhostOpen' OBVIOUS
  <2> QED BY <2>1, <2>2, <2>3, <2>4, <2>5, <2>6, <2>7, <2>8, <2>9, <2>10, <2>11, <2>12, <2>13
<1>21. CASE TlsNotAttempted
  <2> USE <1>21 DEF TlsNotAttempted, Before, PreTls, Step, Txn
  <2> QED OBVIOUS
<1>22. CASE Seal
  <2> USE <1>22 DEF Seal, Txn
  <2> QED OBVIOUS
<1>23. CASE UndoStep BY <1>23 DEF UndoStep, RestoreFiles, Covers, PreTls, Step, Txn
<1>24. CASE NextInstallStep
  <2> USE <1>24 DEF NextInstallStep, Before, Step, Txn
  <2>14. step' = "tls" => step \in PreTls /\ step # "app" BY DEF PreTls, Step, Txn
  <2>9. TlsInPlace'
    <3>1. step' = "tls" => ~mem.tls /\ ~report.tls BY <2>14
    <3> QED BY <3>1
  <2> QED BY <2>9
<1>25. CASE NextResumeStep BY <1>25 DEF NextResumeStep, ResumeStep, PreTls, AppReady
<1>26. CASE Finish BY <1>26 DEF Finish, Completes, AppReady, ResumeStep, PreTls,
    Step, Txn
<1> QED
  BY <1>1, <1>2, <1>3, <1>4, <1>5, <1>6, <1>7, <1>8, <1>9, <1>10, <1>11, <1>12,
    <1>13, <1>14, <1>15, <1>16, <1>17, <1>18, <1>19, <1>20, <1>21, <1>22, <1>23,
    <1>24, <1>25, <1>26 DEF OrchestratorStep

\* rollback and reset do.
LEMMA CompletedTeardown == CompletedInv /\ TeardownStep => CompletedParts'
<1> SUFFICES ASSUME CompletedInv, TeardownStep PROVE CompletedParts'
    OBVIOUS
<1> USE DEF CompletedInv, CompletedParts, LateTasksMade, NoReportNothing,
    FreshReport,
        InstallDone, ResumeOrder, Synced, ProgressSynced, TlsLast, TlsInPlace,
        AppInPlace, VhostInPlace, VhostOpen, Completing, Whole, GoesOn,
        RecordedInv, RecordedParts, TasksMade, FirstTask, InOrder, NotYetDone,
        Restoring, NoStateNothing, TornFirst, RecordedApplied,
        RememberedApplied, Applied, AtWork, Persisting, UnderWay, Running, Early,
        RollbackInv, SafetyParts, EarlyShallow, StateHasJournal, WipeOrder, NoState,
        server, disk, process, At,
        TypeOK, TypeServer, TypeDisk, TypeControl, TypeMemory, StateRecord,
        ReportRecord, MemoryRecord, JournalRecord
<1>1. CASE DropDatabase
  <2>1. torn' <=> "state" \in meta BY <1>1 DEF DropDatabase
  <2>2. /\ op = "reset" /\ op' = op /\ pc' \in {"account", "return"}
        /\ UNCHANGED <<disk, after, mem, pkgs, live, side>>
        BY <1>1 DEF DropDatabase
  <2> HIDE DEF TypeOK
  <2> QED BY <2>1, <2>2
<1>2. CASE DeleteAccount BY <1>2 DEF DeleteAccount
<1>3. CASE PurgeBegins
  <2>1. torn' <=> "state" \in meta BY <1>3 DEF PurgeBegins
  <2>2. /\ op \in {"rollback", "reset"} /\ op' = op /\ pc' = "purging"
        /\ UNCHANGED <<disk, after, mem, live, side, effects>>
        BY <1>3 DEF PurgeBegins
  <2> HIDE DEF TypeOK
  <2> QED BY <2>1, <2>2
<1>4. CASE PurgeEnds BY <1>4 DEF PurgeEnds, ResetFileList
<1>5. CASE PurgeFails BY <1>5 DEF PurgeFails
<1>6. CASE RemoveResetFile
  <2>1. PICK i \in 1..Len(RemovalOrder) :
          RemovalOrder[i] \in wipe /\ RemoveFile(RemovalOrder[i])
        BY <1>6 DEF RemoveResetFile
  <2>2. /\ op \in {"rollback", "reset"} /\ op' = op /\ pc = "wipe"
        /\ UNCHANGED <<after, mem, effects, pkgs>>
        BY <1>6 DEF RemoveResetFile
  <2>3. "state" \in meta' => state' = state /\ torn'
    <3>1. "state" \in meta' => "state" \in meta /\ RemovalOrder[i] # <<"state", "meta">>
          BY <2>1 DEF RemoveFile
    <3> QED BY <2>1, <2>2, <3>1 DEF RemoveFile
  <2>4. state' = state \/ state' = NoState BY <2>1 DEF RemoveFile
  <2>5. "state" \notin meta' => state'.done = {} /\ state'.phase = "prepared"
    <3>1. "state" \in meta \ meta' => state' = NoState
      <4>1. RemovalOrder[i] \in Token BY <2>1
      <4> QED BY <2>1, <4>1 DEF RemoveFile, Token
    <3> QED BY <2>4, <3>1
  <2>6. report' = report \/ report' = NoReport BY <2>1 DEF RemoveFile
  <2>7. "report" \notin meta' => report' = NoReport
    <3>1. "report" \in meta \ meta' => report' = NoReport
      <4>1. RemovalOrder[i] \in Token BY <2>1
      <4> QED BY <2>1, <4>1 DEF RemoveFile, Token
    <3> QED BY <2>6, <3>1
  <2>8. \A s \in Txn : journal'[s].status = "started" => journal[s].status = "started"
        BY <2>1 DEF RemoveFile, NoJournal
  <2>9. NoReportNothing' BY <2>2, <2>7
  <2>15. (report'.tls => report.tls) /\ (report'.app => report.app)
         BY <2>6 DEF NoReport
  <2>16. "state" \in meta' => "state" \in meta BY <2>1 DEF RemoveFile
  <2>10. TlsLast' BY <2>2, <2>3, <2>15, <2>16
  <2>14. AppInPlace' BY <2>2, <2>3, <2>8, <2>15, <2>16 DEF Txn
  <2>11. TlsInPlace' BY <2>2, <2>3, <2>4, <2>6, <2>8 DEF NoReport, Txn
  <2>12. VhostInPlace' BY <2>2, <2>3, <2>4, <2>5, <2>8 DEF Txn
  <2>13. Completing' BY <2>2, <2>3, <2>5
  <2> QED BY <2>2, <2>9, <2>10, <2>11, <2>12, <2>13, <2>14
<1>7. CASE NothingToRemove BY <1>7 DEF NothingToRemove
<1> QED
  BY <1>1, <1>2, <1>3, <1>4, <1>5, <1>6, <1>7 DEF TeardownStep

\* finalize does, and the end of any command.
LEMMA CompletedEnds == CompletedInv /\ (FinalizeStep \/ Return \/ Interrupt) => CompletedParts'
<1> SUFFICES ASSUME CompletedInv, FinalizeStep \/ Return \/ Interrupt PROVE CompletedParts'
    OBVIOUS
<1> USE DEF CompletedInv, CompletedParts, LateTasksMade, NoReportNothing,
    FreshReport,
        InstallDone, ResumeOrder, Synced, ProgressSynced, TlsLast, TlsInPlace,
        AppInPlace, VhostInPlace, VhostOpen, Completing, Whole, GoesOn,
        RecordedInv, RecordedParts, TasksMade, FirstTask, InOrder, NotYetDone,
        Restoring, NoStateNothing, TornFirst, RecordedApplied,
        RememberedApplied, Applied, AtWork, Persisting, UnderWay, Running, Early,
        RollbackInv, SafetyParts, EarlyShallow, StateHasJournal, WipeOrder, NoState,
        server, disk, process, At,
        TypeOK, TypeServer, TypeDisk, TypeControl, TypeMemory, StateRecord,
        ReportRecord, MemoryRecord, JournalRecord
<1>1. CASE FinalizeOk BY <1>1 DEF FinalizeOk
<1>2. CASE FinalizeFails BY <1>2 DEF FinalizeFails
<1>3. CASE Return BY <1>3 DEF Return, Stopped, Blank
<1>4. CASE Interrupt BY <1>4 DEF Interrupt, Stopped
<1> QED
  BY <1>1, <1>2, <1>3, <1>4 DEF FinalizeStep

\* So does the start of one.
LEMMA CompletedStart == CompletedInv /\ Start => CompletedParts'
<1> SUFFICES ASSUME CompletedInv, Start PROVE CompletedParts'
    OBVIOUS
<1> USE DEF CompletedInv, CompletedParts, LateTasksMade, NoReportNothing,
    FreshReport,
        InstallDone, ResumeOrder, Synced, ProgressSynced, TlsLast, TlsInPlace,
        AppInPlace, VhostInPlace, VhostOpen, Completing, Whole, GoesOn,
        RecordedInv, RecordedParts, TasksMade, FirstTask, InOrder, NotYetDone,
        Restoring, NoStateNothing, TornFirst, RecordedApplied,
        RememberedApplied, Applied, AtWork, Persisting, UnderWay, Running, Early,
        RollbackInv, SafetyParts, EarlyShallow, StateHasJournal, WipeOrder, NoState,
        server, disk, process, At,
        TypeOK, TypeServer, TypeDisk, TypeControl, TypeMemory, StateRecord,
        ReportRecord, MemoryRecord, JournalRecord
<1>1. CASE StartInstall BY <1>1 DEF StartInstall, Lock, InstallAllowed, Blank
<1>2. CASE StartResume
  <2> USE <1>2 DEF StartResume, Loaded, Txn
  <2> QED OBVIOUS
<1>3. CASE StartRollback BY <1>3 DEF StartRollback, Lock
<1>4. CASE StartReset BY <1>4 DEF StartReset, Lock
<1>5. CASE StartFinalize BY <1>5 DEF StartFinalize, Lock
<1> QED
  BY <1>1, <1>2, <1>3, <1>4, <1>5 DEF Start

\* Every step of the specification preserves it.
LEMMA CompletedStep ==
    ASSUME ~(LocalTest /\ Faults)
    PROVE  CompletedInv /\ [Next]_vars => CompletedInv'
<1> SUFFICES ASSUME CompletedInv, [Next]_vars PROVE CompletedInv'
    OBVIOUS
<1>1. RecordedInv' BY RecordedStep DEF CompletedInv
<1>2. CompletedParts'
  <2>1. CASE Start BY <2>1, CompletedStart
  <2>2. CASE OrchestratorStep BY <2>2, CompletedOrchestrator
  <2>3. CASE TeardownStep BY <2>3, CompletedTeardown
  <2>4. CASE FinalizeStep \/ Return \/ Interrupt BY <2>4, CompletedEnds
  <2>5. CASE UNCHANGED vars
        BY <2>5 DEF vars, server, disk, process, CompletedInv, CompletedParts,
           LateTasksMade, NoReportNothing, FreshReport, InstallDone, ResumeOrder,
               Synced,
           ProgressSynced, TlsLast, TlsInPlace, AppInPlace, VhostInPlace, VhostOpen,
           Completing, Whole, GoesOn, AtWork, Persisting, At, UnderWay, Running
  <2> QED BY <2>1, <2>2, <2>3, <2>4, <2>5 DEF Next, Work
<1> QED BY <1>1, <1>2 DEF CompletedInv

\* A server whose state.json says completed has the whole installation, whatever
\* went wrong before.  For a local test this needs that no process dies between the
\* vhost's marker and the end of its journal: without HTTPS nothing asks for the
\* vhost after that.
THEOREM CompletedInstallationIsWhole ==
    ASSUME ~(LocalTest /\ Faults)
    PROVE  Spec => []CompletedIsWhole
<1>1. CompletedInv => CompletedIsWhole
      BY DEF CompletedInv, CompletedParts, Completing, Whole, CompletedIsWhole
<1>2. CompletedInv /\ [Next]_vars => CompletedInv' BY CompletedStep
<1> QED BY CompletedInit, <1>2, <1>1, PTL DEF Spec

---------------------------------------------------------------------------
\* The installation implements what its record promises

\* A completed installation has every step before TLS on record.
CompletedRecorded ==
    /\ state.phase = "completed" => PreTls \subseteq state.done
    /\ UnderWay /\ mem.phase = "completed" => PreTls \subseteq mem.done

PromiseInv == CompletedInv /\ CompletedRecorded

LEMMA PromiseInit == Init => PromiseInv
BY CompletedInit DEF Init, PromiseInv, CompletedRecorded, NoState, UnderWay, Running

\* Completion is decided with all of them in memory.
LEMMA PromiseStep ==
    ASSUME ~(LocalTest /\ Faults)
    PROVE  PromiseInv /\ [Next]_vars => PromiseInv'
<1> SUFFICES ASSUME PromiseInv, [Next]_vars PROVE PromiseInv'
    OBVIOUS
<1>1. CompletedInv' BY CompletedStep DEF PromiseInv
<1>2. CompletedRecorded'
  <2> USE DEF PromiseInv, CompletedRecorded, UnderWay, Running, Early, server, disk, process
  <2>1. TypeOK BY DEF CompletedInv, RecordedInv, RollbackInv
  <2>2. /\ UnderWay /\ mem.tls => PreTls \subseteq mem.done
        /\ UnderWay /\ mem.phase = "completed" =>
              pc = "return" \/ pc \in {"persist-owned", "persist-state", "persist-report"}
        /\ op = "install" /\ UnderWay => Before[step] \ {"tls"} \subseteq mem.done
        BY DEF CompletedInv, CompletedParts, TlsLast, Completing, Persisting, InstallDone
  <2>3. CASE Finish
    <3>1. mem'.done = mem.done /\ state' = state /\ UnderWay
          BY <2>1, <2>3 DEF Finish, At, TypeOK, TypeMemory, MemoryRecord
    <3>2. mem'.phase = "completed" => mem.phase = "completed" \/ Completes
          BY <2>1, <2>3 DEF Finish, At, TypeOK, TypeMemory, MemoryRecord
    <3>3. Completes => PreTls \subseteq mem.done
      <4>1. CASE op = "install"
        <5>1. step = "app" BY <2>3, <4>1 DEF Finish
        <5>2. Before["app"] \ {"tls"} \subseteq mem.done BY <2>2, <3>1, <4>1, <5>1
        <5> QED BY <5>2 DEF Before, PreTls, Step, Txn
      <4>2. CASE op # "install" BY <2>2, <3>1, <4>2 DEF Completes
      <4> QED BY <4>1, <4>2
    <3> QED BY <3>1, <3>2, <3>3
  <2>4. CASE PersistState BY <2>1, <2>2, <2>4 DEF PersistState, At, TypeOK, TypeMemory, MemoryRecord
  <2>5. CASE OrchestratorStep /\ ~Finish /\ ~PersistState
    <3> USE <2>1, <2>2, <2>5 DEF TypeOK, TypeMemory, MemoryRecord, TypeDisk, StateRecord, At, Task
    <3>1. CASE MakeLibDir \/ ReserveOwnedFiles \/ WriteConfigAndReport \/ WritePreparedState
          BY <3>1 DEF MakeLibDir, ReserveOwnedFiles, WriteConfigAndReport,
             WritePreparedState, NoState, CompletedInv, RecordedInv, RollbackInv,
             SafetyParts, EarlyShallow, Blank
    <3>2. CASE RestoreUnfinished BY <3>2 DEF RestoreUnfinished
    <3>3. CASE BeginPackages \/ BeginTransaction BY <3>3 DEF BeginPackages, BeginTransaction
    <3>4. CASE PersistOwned \/ PersistReport BY <3>4 DEF PersistOwned, PersistReport
    <3>5. CASE InspectPackages \/ AptInstall \/ MakeEffect
          BY <3>5 DEF InspectPackages, AptInstall, MakeEffect
    <3>6. CASE WriteConf \/ WriteSide \/ SmokeAndRemoveProbe \/ StepFails
          BY <3>6 DEF WriteConf, WriteSide, SmokeAndRemoveProbe, StepFails
    <3>7. CASE PackagesDone \/ PackagesFailed BY <3>7 DEF PackagesDone, PackagesFailed
    <3>8. CASE StepApplied BY <3>8 DEF StepApplied, PhaseAfter
    <3>9. CASE TlsNotAttempted \/ Seal \/ UndoStep
          BY <3>9 DEF TlsNotAttempted, Seal, UndoStep
    <3>10. CASE NextInstallStep \/ NextResumeStep
           BY <3>10 DEF NextInstallStep, NextResumeStep
    <3> QED BY <3>1, <3>2, <3>3, <3>4, <3>5, <3>6, <3>7, <3>8, <3>9, <3>10 DEF OrchestratorStep
  <2>6. CASE TeardownStep
        BY <2>6 DEF TeardownStep, DropDatabase, DeleteAccount, PurgeBegins, PurgeEnds,
           PurgeFails, RemoveResetFile, RemoveFile, NothingToRemove, NoState
  <2>7. CASE FinalizeStep \/ Return \/ Interrupt
        BY <2>1, <2>7 DEF FinalizeStep, FinalizeOk, FinalizeFails, Return, Interrupt,
           Stopped, TypeOK, TypeDisk, StateRecord
  <2>8. CASE Start
        BY <2>1, <2>8 DEF Start, StartInstall, StartResume, StartRollback, StartReset,
           StartFinalize, Lock, Loaded, TypeOK, TypeDisk, StateRecord
  <2>9. CASE UNCHANGED vars BY <2>9 DEF vars
  <2> QED BY <2>3, <2>4, <2>5, <2>6, <2>7, <2>8, <2>9 DEF Next, Work
<1> QED BY <1>1, <1>2 DEF PromiseInv

\* The lasting parts on record are on the server.
KeptHeld == Kept \subseteq Lasting /\ Kept \subseteq There

LEMMA KeptIsThere == RecordedInv => KeptHeld
<1> USE DEF KeptHeld
<1> SUFFICES ASSUME RecordedInv, NEW s \in Kept PROVE s \in Lasting /\ s \in There
    OBVIOUS
<1>1. ~torn /\ s \in state.done /\ s \in Lasting BY DEF Kept
<1>2. Applied(state.done) BY <1>1 DEF RecordedInv, RecordedParts, RecordedApplied
<1>3. Made(s) BY <1>1, <1>2 DEF Applied, Made, Lasting, Txn
<1>4. s \in Step BY <1>1 DEF Lasting, Step, Txn
<1> QED BY <1>1, <1>3, <1>4 DEF There

\* After every step, too.
LEMMA KeptIsThereNext == RecordedInv' => KeptHeld'
BY KeptIsThere, PTL

\* An attempt at a step may change that step's part alone.
LEMMA PartBuilt ==
    ASSUME RecordedInv, RecordedInv', UNCHANGED <<meta, state, torn>>,
           Stage \in {"open", "withdrawn"}, NEW s \in Step,
           \A r \in Step \ {s} : Made(r)' <=> Made(r)
    PROVE  [Promise!Next]_<<Stage, Kept, There>>
<1>1. Stage' = Stage /\ Kept' = Kept BY DEF Stage, Kept
<1>2. \A r \in Step \ {s} : r \in There' <=> r \in There BY DEF There
<1>3. Kept \subseteq There /\ Kept \subseteq There' BY <1>1, KeptIsThere, KeptIsThereNext DEF KeptHeld
<1>4. There \subseteq Step /\ There' \subseteq Step BY DEF There
<1>5. CASE s \in There <=> s \in There'
  <2>1. There' = There BY <1>2, <1>4, <1>5
  <2> QED BY <1>1, <2>1
<1>6. CASE ~(s \in There <=> s \in There')
  <2>1. s \notin Kept BY <1>3, <1>6
  <2>2. There' = There \cup {s} \/ There' = There \ {s} BY <1>2, <1>4, <1>6
  <2>3. Promise!Build(s) BY <1>1, <2>1, <2>2 DEF Promise!Build
  <2> QED BY <2>3 DEF Promise!Next
<1> QED BY <1>5, <1>6

\* Without a record, or once it is withdrawn, parts may go.
LEMMA PartsLost ==
    ASSUME There' \subseteq There, Stage \in {"none", "withdrawn"}, Stage' = Stage,
           Kept' = Kept
    PROVE  [Promise!Next]_<<Stage, Kept, There>>
BY DEF Promise!Next, Promise!Lose

\* Where the server, the record and its withdrawal stay, the promise stutters.
LEMMA RecordStays ==
    ASSUME UNCHANGED <<server, meta, torn>>,
           state'.phase = state.phase, state'.done = state.done
    PROVE  UNCHANGED <<Stage, Kept, There>>
BY DEF server, Stage, Kept, There, Made

\* install and resume keep the promise.
LEMMA OrchestratorKeeps ==
    ASSUME PromiseInv, PromiseInv', OrchestratorStep
    PROVE  [Promise!Next]_<<Stage, Kept, There>>
<1>1. TypeOK /\ TypeOK' /\ RecordedInv /\ RecordedInv'
      BY DEF PromiseInv, CompletedInv, RecordedInv, RollbackInv
<1>2. /\ UnderWay => "state" \in meta
      /\ UnderWay /\ state.phase = "completed" =>
            pc \notin {"apply", "undo", "restore", "begin", "next", "seal"}
      BY DEF PromiseInv, CompletedInv, RecordedInv, RollbackInv, SafetyParts, FilesThere,
         CompletedParts, Completing, Persisting
<1>3. UnderWay /\ pc \in {"apply", "undo", "restore"} => Stage \in {"open", "withdrawn"}
      BY <1>1, <1>2 DEF Stage, TypeOK
<1> USE DEF UnderWay, Running, Early, At, server, disk, process
<1>4. CASE MakeLibDir \/ ReserveOwnedFiles \/ WriteConfigAndReport
  <2>1. "state" \notin meta /\ "state" \notin meta' /\ UNCHANGED <<server, state, torn>>
        BY <1>4 DEF MakeLibDir, ReserveOwnedFiles, WriteConfigAndReport, PromiseInv,
           CompletedInv, RecordedInv, RollbackInv, SafetyParts, EarlyShallow
  <2>2. UNCHANGED <<Stage, Kept, There>> BY <2>1 DEF Stage, Kept, There, Made
  <2> QED BY <2>2
<1>5. CASE WritePreparedState
  <2>1. /\ "state" \notin meta /\ meta' = meta \cup {"state"} /\ state' = NoState
        /\ UNCHANGED <<server, torn>>
        BY <1>5 DEF WritePreparedState, PromiseInv,
           CompletedInv, RecordedInv, RollbackInv, SafetyParts, EarlyShallow
  <2>2. state = NoState /\ ~torn
        BY <2>1 DEF PromiseInv, CompletedInv, RecordedInv, RecordedParts,
           NoStateNothing, TornHasState
  <2>3. Stage = "none" /\ Stage' = "open" /\ UNCHANGED <<Kept, There>>
        BY <2>1, <2>2 DEF Stage, Kept, There, Made, NoState
  <2> QED BY <2>3 DEF Promise!Next, Promise!Begin
<1>6. CASE RestoreUnfinished
  <2>1. /\ UnderWay /\ pc = "restore" /\ step \in Step
        /\ UNCHANGED <<pkgs, side, effects, meta, state, torn>>
        /\ \A r \in Txn \ {"site", step} : r \in live' <=> r \in live
        BY <1>6 DEF RestoreUnfinished, RestoreFiles, Covers, Step,
           PromiseInv, CompletedInv, RecordedInv, RollbackInv, TypeOK, TypeDisk,
           JournalRecord
  <2>2. \A r \in Step \ {step} : Made(r)' <=> Made(r) BY <2>1 DEF Made
  <2> QED BY <1>1, <1>3, <2>1, <2>2, PartBuilt
<1>7. CASE PersistState
  <2>1. /\ state' = [phase |-> mem.phase, current |-> mem.current, done |-> mem.done]
        /\ UNCHANGED <<server, meta, torn>> /\ "state" \in meta
        /\ state.done \subseteq mem.done /\ UnderWay
        BY <1>2, <1>7 DEF PersistState, PromiseInv, CompletedInv, RecordedInv,
           RollbackInv, SafetyParts, MemoryKeepsProgress
  <2>2. There' = There BY <2>1 DEF There, Made
  <2>3. CASE torn BY <2>1, <2>2, <2>3 DEF Stage, Kept
  <2>4. CASE ~torn
    <3>1. Kept \subseteq Kept' /\ Kept' \subseteq There /\ Kept' \subseteq Lasting
      <4>1. Kept \subseteq Kept' /\ Kept' \subseteq Lasting
            BY <2>1, <2>4 DEF Kept
      <4>2. Kept' \subseteq There BY <1>1, <2>2, KeptIsThereNext DEF KeptHeld
      <4> QED BY <4>1, <4>2
    <3>2. mem.phase = "completed" => Kept' = Lasting /\ Needed \subseteq There
      <4> SUFFICES ASSUME mem.phase = "completed"
                   PROVE  Kept' = Lasting /\ Needed \subseteq There
          OBVIOUS
      <4>1. PreTls \subseteq mem.done BY <2>1 DEF PromiseInv, CompletedRecorded
      <4>2. Kept' = Lasting BY <2>1, <2>4, <4>1 DEF Kept, Lasting, PreTls, Step, Txn
      <4>3. Whole BY <2>1, <2>4 DEF PromiseInv, CompletedInv, CompletedParts, Completing
      <4>4. "site" \in There BY <3>1, <4>2 DEF Lasting
      <4> QED BY <4>2, <4>3, <4>4 DEF Whole, Needed, There, Made, Step, Txn
    <3>3. CASE state.phase = "completed"
      <4>1. mem.phase = "completed" /\ PreTls \subseteq state.done
            BY <2>1, <3>3 DEF PromiseInv, CompletedRecorded, CompletedInv,
               CompletedParts, Completing
      <4>2. Kept = Lasting BY <2>4, <4>1 DEF Kept, Lasting, PreTls, Step, Txn
      <4>3. Stage' = Stage BY <2>1, <2>4, <3>3, <4>1 DEF Stage
      <4> QED BY <2>2, <3>2, <4>1, <4>2, <4>3
    <3>4. CASE state.phase # "completed"
      <4>1. Stage = "open" /\ Stage' = IF mem.phase = "completed" THEN "completed" ELSE "open"
            BY <2>1, <2>4, <3>4 DEF Stage
      <4>2. Promise!Record BY <2>2, <3>1, <3>2, <4>1 DEF Promise!Record
      <4> QED BY <4>2 DEF Promise!Next
    <3> QED BY <3>3, <3>4
  <2> QED BY <2>3, <2>4
<1>8. CASE AptInstall \/ StepFails \/ PackagesDone
  <2>1. /\ UnderWay /\ pc = "apply" /\ UNCHANGED <<live, side, effects, meta, state, torn>>
        BY <1>8 DEF AptInstall, StepFails, PackagesDone, Task
  <2>2. \A r \in Step \ {"packages"} : Made(r)' <=> Made(r) BY <2>1 DEF Made
  <2>3. "packages" \in Step BY DEF Step
  <2> QED BY <1>1, <1>3, <2>1, <2>2, <2>3, PartBuilt
<1>9. CASE MakeEffect \/ WriteConf \/ WriteSide \/ SmokeAndRemoveProbe
  <2>1. /\ UnderWay /\ pc = "apply" /\ step \in Step
        /\ UNCHANGED <<pkgs, meta, state, torn>>
        BY <1>1, <1>9 DEF MakeEffect, WriteConf, WriteSide, SmokeAndRemoveProbe, Task,
           TypeOK, TypeControl
  <2>2. \A r \in Step \ {step} : Made(r)' <=> Made(r)
    <3>1. CASE MakeEffect
      <4>1. PICK t \in {"account", "sql", "certificate", "source"} :
               Task(t) /\ effects' = effects \cup {EffectOf(t)}
            BY <3>1 DEF MakeEffect
      <4>2. UNCHANGED <<live, side>> BY <3>1 DEF MakeEffect
      <4>3. /\ t = "account" => step = "site"
            /\ t = "sql" => step = "database"
            /\ t = "source" => step = "app"
            BY <1>1, <4>1, TaskPlace DEF Step, Txn
      <4> DEFINE e == EffectOf(t)
      <4>4. /\ e = "account" => step = "site"
            /\ e = "database" => step = "database"
            /\ e = "source" => step = "app"
            BY <4>3 DEF EffectOf
      <4>5. effects' = effects \cup {e} BY <4>1
      <4> HIDE DEF e
      <4> QED BY <2>1, <4>2, <4>4, <4>5 DEF Made
    <3>2. CASE WriteConf BY <3>2 DEF WriteConf, Made
    <3>3. CASE WriteSide BY <3>3 DEF WriteSide, Made
    <3>4. CASE SmokeAndRemoveProbe BY <3>4 DEF SmokeAndRemoveProbe, Made
    <3> QED BY <1>9, <3>1, <3>2, <3>3, <3>4
  <2> QED BY <1>1, <1>3, <2>1, <2>2, PartBuilt
<1>10. CASE UndoStep
  <2>1. /\ UnderWay /\ pc = "undo" /\ step \in Step
        /\ UNCHANGED <<pkgs, side, effects, meta, state, torn>>
        /\ \A r \in Txn \ {"site", step} : r \in live' <=> r \in live
        BY <1>10 DEF UndoStep, RestoreFiles, Covers, Step,
           PromiseInv, CompletedInv, RecordedInv, RollbackInv, TypeOK, TypeDisk,
           JournalRecord
  <2>2. \A r \in Step \ {step} : Made(r)' <=> Made(r) BY <2>1 DEF Made
  <2> QED BY <1>1, <1>3, <2>1, <2>2, PartBuilt
<1>11. CASE \/ BeginPackages \/ BeginTransaction \/ PersistOwned \/ PersistReport
            \/ InspectPackages \/ PackagesFailed \/ StepApplied \/ TlsNotAttempted
            \/ Seal \/ NextInstallStep \/ NextResumeStep \/ Finish
  <2>1. UNCHANGED <<server, meta, state, torn>>
        BY <1>11 DEF BeginPackages, BeginTransaction, PersistOwned, PersistReport,
           InspectPackages, Task, PackagesFailed, StepApplied, TlsNotAttempted, Seal,
           NextInstallStep, NextResumeStep, Finish
  <2> QED BY <2>1, RecordStays
<1> QED
  BY <1>4, <1>5, <1>6, <1>7, <1>8, <1>9, <1>10, <1>11 DEF OrchestratorStep

\* rollback and reset withdraw it before they take anything away.
LEMMA TeardownKeeps ==
    ASSUME PromiseInv, PromiseInv', TeardownStep
    PROVE  [Promise!Next]_<<Stage, Kept, There>>
<1>1. /\ torn => "state" \in meta
      /\ "state" \notin meta => state = NoState
      /\ op = "reset" /\ pc \in {"account", "purge", "purging", "wipe"} =>
            ("state" \in meta => torn)
      /\ op = "rollback" /\ pc \in {"purging", "wipe"} => ("state" \in meta => torn)
      BY DEF PromiseInv, CompletedInv, RecordedInv, RecordedParts, TornHasState,
         NoStateNothing, TornFirst
<1> USE DEF server, disk, process
\* The first step of a teardown, and a reset's purge.
<1>2. CASE DropDatabase \/ PurgeBegins
  <2>1. UNCHANGED <<live, side, meta, state>> /\ torn' = ("state" \in meta)
        BY <1>2 DEF DropDatabase, PurgeBegins
  <2>2. There' \subseteq There
        BY <1>2 DEF DropDatabase, PurgeBegins, There, Made
  <2>3. CASE "state" \in meta /\ ~torn
    <3>1. Stage \in {"open", "completed"} /\ Stage' = "withdrawn" /\ Kept' = {}
          BY <2>1, <2>3 DEF Stage, Kept
    <3> QED BY <2>2, <3>1 DEF Promise!Next, Promise!Withdraw
  <2>4. CASE ~("state" \in meta /\ ~torn)
    <3>1. torn' <=> torn BY <1>1, <2>1, <2>4
    <3>2. Stage \in {"none", "withdrawn"} /\ Stage' = Stage /\ Kept' = Kept
          BY <2>1, <2>4, <3>1 DEF Stage, Kept
    <3> QED BY <2>2, <3>2, PartsLost
  <2> QED BY <2>3, <2>4
<1>3. CASE DeleteAccount \/ PurgeEnds
  <2>1. UNCHANGED <<meta, state, torn>> /\ ("state" \in meta => torn)
        BY <1>1, <1>3 DEF DeleteAccount, PurgeEnds
  <2>2. There' \subseteq There
        BY <1>3 DEF DeleteAccount, PurgeEnds, There, Made
  <2>3. Stage \in {"none", "withdrawn"} /\ Stage' = Stage /\ Kept' = Kept
        BY <2>1 DEF Stage, Kept
  <2> QED BY <2>2, <2>3, PartsLost
<1>4. CASE RemoveResetFile
  <2>1. PICK t \in Token : RemoveFile(t)
    <3>1. PICK i \in 1..Len(RemovalOrder) :
             RemovalOrder[i] \in wipe /\ RemoveFile(RemovalOrder[i])
          BY <1>4 DEF RemoveResetFile
    <3>2. RemovalOrder[i] \in Token
          BY <3>1 DEF PromiseInv, CompletedInv, RecordedInv, RollbackInv, TypeOK, TypeMemory
    <3> QED BY <3>1, <3>2
  <2>2. UNCHANGED <<pkgs, effects>> /\ ("state" \in meta => torn)
        BY <1>1, <1>4 DEF RemoveResetFile
  <2>3. live' \subseteq live /\ side' \subseteq side BY <2>1 DEF RemoveFile
  <2>4. There' \subseteq There BY <2>2, <2>3 DEF There, Made
  <2>5. CASE t = <<"state", "meta">> /\ "state" \in meta
    <3>1. live' = live /\ side' = side BY <2>1, <2>5 DEF RemoveFile, LiveUnder
    <3>2. There' = There BY <2>2, <3>1 DEF There, Made
    <3>3. "state" \notin meta' /\ ~torn' /\ state' = NoState BY <2>1, <2>5 DEF RemoveFile
    <3>4. Stage = "withdrawn" /\ Stage' = "none" /\ Kept = {} /\ Kept' = {}
          BY <2>2, <2>5, <3>3 DEF Stage, Kept, NoState
    <3> QED BY <3>2, <3>4 DEF Promise!Next, Promise!Vanish
  <2>6. CASE ~(t = <<"state", "meta">> /\ "state" \in meta)
    <3>1. /\ "state" \in meta' <=> "state" \in meta
          /\ state' = state /\ (torn' <=> torn)
      <4>1. CASE t = <<"state", "meta">>
            BY <1>1, <2>1, <2>2, <2>6, <4>1 DEF RemoveFile
      <4>2. CASE t # <<"state", "meta">>
        <5>1. t[2] = "meta" => t[1] # "state" BY <4>2 DEF Token, OwnedConf, Guarded, Meta
        <5> QED BY <2>1, <4>2, <5>1 DEF RemoveFile
      <4> QED BY <4>1, <4>2
    <3>2. Stage \in {"none", "withdrawn"} /\ Stage' = Stage /\ Kept' = Kept
          BY <2>2, <3>1 DEF Stage, Kept
    <3> QED BY <2>4, <3>2, PartsLost
  <2> QED BY <2>5, <2>6
<1>5. CASE PurgeFails \/ NothingToRemove
  <2>1. UNCHANGED <<server, meta, state, torn>> BY <1>5 DEF PurgeFails, NothingToRemove
  <2> QED BY <2>1, RecordStays
<1> QED BY <1>2, <1>3, <1>4, <1>5 DEF TeardownStep

\* So does everything else.
LEMMA StepKeeps ==
    ASSUME PromiseInv, PromiseInv', [Next]_vars
    PROVE  [Promise!Next]_<<Stage, Kept, There>>
<1> USE DEF server, disk, process
<1>1. CASE FinalizeStep \/ StartFinalize
  <2>1. /\ UNCHANGED <<server, meta, torn>>
        /\ state'.phase = state.phase /\ state'.done = state.done
        BY <1>1 DEF FinalizeStep, FinalizeOk, FinalizeFails, StartFinalize, PromiseInv,
           CompletedInv, RecordedInv, RollbackInv, TypeOK, TypeDisk, StateRecord
  <2> QED BY <2>1, RecordStays
<1>2. CASE \/ StartInstall \/ StartResume \/ StartRollback \/ StartReset
           \/ Return \/ Interrupt \/ UNCHANGED vars
  <2>1. UNCHANGED <<server, meta, state, torn>>
        BY <1>2 DEF StartInstall, StartResume, StartRollback, StartReset, Return,
           Interrupt, vars
  <2> QED BY <2>1, RecordStays
<1> QED BY <1>1, <1>2, OrchestratorKeeps, TeardownKeeps DEF Next, Start, Work

\* The commands, failing or killed anywhere, implement Installation: whatever is on
\* record stays and is there, a completed installation is whole and left alone, and a
\* teardown withdraws the record before it takes anything away.
THEOREM PromiseIsKept ==
    ASSUME ~(LocalTest /\ Faults)
    PROVE  Spec => PromiseKept
<1>1. Init => Promise!Init
      BY DEF Init, Promise!Init, Stage, Kept, There, Made, NoState, Step, Txn
<1>2. PromiseInv /\ [Next]_vars => PromiseInv' BY PromiseStep
<1>3. PromiseInv /\ PromiseInv' /\ [Next]_vars
          => [Promise!Next]_<<Stage, Kept, There>>
      BY StepKeeps
<1> QED BY <1>1, <1>2, <1>3, PromiseInit, PTL DEF Spec, PromiseKept, Promise!Spec

---------------------------------------------------------------------------
\* The order of the steps

\* install takes the steps in turn, and resume has everything behind it that comes
\* before its step (ResumesInOrder).
InTurn ==
    op = "install" /\ UnderWay =>
        /\ Before[step] \ {"tls"} \subseteq mem.done
        /\ GoesOn => step \in mem.done \cup {"tls"}

\* The memory and state.json agree on the steps before TLS, but for the moment
\* between a step's end and its record.
RecordAgrees ==
    \/ AtWork
    \/ Running /\ pc \in {"restore", "next", "persist-report"}
    \/ Running /\ pc = "seal" /\ (step \notin PreTls \/ (op = "install" /\ step = "vhost"))
    => mem.done \cap PreTls = state.done \cap PreTls

\* The step at work is the one the memory names, and state.json from its first task
\* on; install names the vhost until its journal is closed.
WorkIsNamed ==
    /\ AtWork /\ pc # "begin" => mem.current = step
    /\ Running /\ (pc \in {"apply", "undo"} \/ (pc = "persist-report" /\ after = "apply"))
         => state.current = step
    /\ op = "install" /\ step = "vhost" /\ UnderWay
         /\ (pc = "seal" \/ (pc \in Persisting /\ after = "seal")) => mem.current = "vhost"

\* The application's source is there only where everything before TLS is on record,
\* and goes before the record does.
SourceRecorded ==
    "source" \in effects =>
        /\ {"state", "report"} \subseteq meta /\ PreTls \subseteq state.done
        /\ ~(op = "reset" /\ pc \in {"purge", "purging", "wipe"})

OrderParts == InTurn /\ RecordAgrees /\ WorkIsNamed /\ SourceRecorded
OrderInv == RecordedInv /\ BaselineInv /\ InPlace /\ OrderParts

\* The invariant holds at the start.
LEMMA OrderInit == Init => OrderInv
BY RecordedInit, BaselineInit, InPlaceInit
   DEF Init, OrderInv, OrderParts, InTurn, RecordAgrees, WorkIsNamed, SourceRecorded,
       AtWork, Running, UnderWay

\* install and resume preserve it.
LEMMA OrderOrchestrator == OrderInv /\ OrchestratorStep => OrderParts'
<1> SUFFICES ASSUME OrderInv, OrchestratorStep PROVE OrderParts'
    OBVIOUS
<1> USE DEF OrderInv, OrderParts, InTurn, RecordAgrees, WorkIsNamed, SourceRecorded, GoesOn,
        InPlace, AfterWrites, ResumesInOrder, Upcoming, BaselineInv, BaselineParts, ReportThere,
        RecordedInv, RecordedParts, Restoring, AtWork, Persisting, UnderWay, Running, Early,
        RollbackInv, SafetyParts, EarlyShallow, FilesThere, MemoryKeepsProgress,
        server, disk, process, At,
        TypeOK, TypeServer, TypeDisk, TypeControl, TypeMemory, StateRecord, MemoryRecord
<1>1. CASE MakeLibDir BY <1>1 DEF MakeLibDir
<1>2. CASE ReserveOwnedFiles BY <1>2 DEF ReserveOwnedFiles
<1>3. CASE WriteConfigAndReport BY <1>3 DEF WriteConfigAndReport
<1>4. CASE WritePreparedState BY <1>4 DEF WritePreparedState, NoState, Blank, Before
<1>5. CASE RestoreUnfinished BY <1>5 DEF RestoreUnfinished, RestoreFiles, Covers
<1>6. CASE BeginPackages BY <1>6 DEF BeginPackages
<1>7. CASE BeginTransaction BY <1>7 DEF BeginTransaction, Txn
<1>8. CASE PersistOwned BY <1>8 DEF PersistOwned
<1>9. CASE PersistState BY <1>9 DEF PersistState
<1>10. CASE PersistReport BY <1>10 DEF PersistReport
<1>11. CASE InspectPackages BY <1>11, TaskPlace DEF InspectPackages, Task
<1>12. CASE AptInstall BY <1>12, TaskPlace DEF AptInstall, Task
<1>13. CASE MakeEffect
  <2>1. PICK t \in {"account", "sql", "certificate", "source"} :
          Task(t) /\ effects' = effects \cup {EffectOf(t)}
        BY <1>13 DEF MakeEffect
  <2>2. /\ At("apply") /\ pc' = "apply"
        /\ UNCHANGED <<op, step, mem, meta, state, report, after>>
        BY <1>13, <2>1 DEF MakeEffect, Task
  <2>3. "source" \in effects' \ effects => step = "app"
    <3>1. "source" \in effects' \ effects => t = "source" BY <2>1 DEF EffectOf
    <3>2. step \in Step /\ at \in 1..Len(Tasks[step]) /\ Tasks[step][at] = t
          BY <2>1, TaskCount DEF Task
    <3> QED BY <3>1, <3>2, TaskOwner
  <2>4. step = "app" => PreTls \subseteq state.done
    <3>1. step = "app" => PreTls \subseteq mem.done BY <2>2 DEF Before, PreTls, Step, Txn
    <3> QED BY <2>2, <3>1
  <2>5. SourceRecorded' BY <2>2, <2>3, <2>4
  <2> QED BY <2>2, <2>5
<1>14. CASE WriteConf BY <1>14, TaskPlace DEF WriteConf, Task
<1>15. CASE WriteSide BY <1>15, TaskPlace DEF WriteSide, Task
<1>16. CASE SmokeAndRemoveProbe BY <1>16, TaskPlace DEF SmokeAndRemoveProbe, Task
<1>17. CASE StepFails BY <1>17 DEF StepFails
<1>18. CASE PackagesDone BY <1>18 DEF PackagesDone, Before, PreTls
<1>19. CASE PackagesFailed BY <1>19 DEF PackagesFailed
<1>20. CASE StepApplied BY <1>20 DEF StepApplied, PreTls, Step, Txn
<1>21. CASE TlsNotAttempted BY <1>21 DEF TlsNotAttempted, PreTls
<1>22. CASE Seal
  <2>1. /\ pc = "seal" /\ UNCHANGED <<op, step, state, effects, meta, report, after>>
        /\ mem'.done = mem.done /\ pc' \in {"next", "persist-owned"}
        BY <1>22 DEF Seal
  <2>2. pc' = "next" => step \notin PreTls \/ (op = "install" /\ step = "vhost")
        BY <1>22 DEF Seal, PreTls
  <2>3. pc' = "persist-owned" => ~(op = "install" /\ step = "vhost")
        BY <1>22 DEF Seal
  <2> QED BY <2>1, <2>2, <2>3
<1>23. CASE UndoStep BY <1>23 DEF UndoStep, RestoreFiles, PreTls
<1>24. CASE NextInstallStep BY <1>24 DEF NextInstallStep, Before
<1>25. CASE NextResumeStep BY <1>25 DEF NextResumeStep, ResumeStep, PreTls
<1>26. CASE Finish BY <1>26 DEF Finish
<1> QED
  BY <1>1, <1>2, <1>3, <1>4, <1>5, <1>6, <1>7, <1>8, <1>9, <1>10, <1>11, <1>12,
    <1>13, <1>14, <1>15, <1>16, <1>17, <1>18, <1>19, <1>20, <1>21, <1>22, <1>23,
    <1>24, <1>25, <1>26 DEF OrchestratorStep

\* rollback and reset do.
LEMMA OrderTeardown == OrderInv /\ TeardownStep => OrderParts'
<1> SUFFICES ASSUME OrderInv, TeardownStep PROVE OrderParts'
    OBVIOUS
<1> USE DEF OrderInv, OrderParts, InTurn, RecordAgrees, WorkIsNamed, SourceRecorded,
        RecordedInv, RollbackInv, SafetyParts, RollbackSafe, AtWork, UnderWay, Running,
        server, disk
<1>1. CASE DropDatabase BY <1>1 DEF DropDatabase
<1>2. CASE DeleteAccount BY <1>2 DEF DeleteAccount, NamesKnown
<1>3. CASE PurgeBegins BY <1>3 DEF PurgeBegins
<1>4. CASE PurgeEnds BY <1>4 DEF PurgeEnds
<1>5. CASE PurgeFails BY <1>5 DEF PurgeFails
<1>6. CASE RemoveResetFile BY <1>6 DEF RemoveResetFile
<1>7. CASE NothingToRemove BY <1>7 DEF NothingToRemove
<1> QED
  BY <1>1, <1>2, <1>3, <1>4, <1>5, <1>6, <1>7 DEF TeardownStep

\* So do finalize, the end of a command and its start.
LEMMA OrderOthers ==
    OrderInv /\ (FinalizeStep \/ Return \/ Interrupt \/ Start) => OrderParts'
<1> SUFFICES ASSUME OrderInv, FinalizeStep \/ Return \/ Interrupt \/ Start PROVE OrderParts'
    OBVIOUS
<1> USE DEF OrderInv, OrderParts, InTurn, RecordAgrees, WorkIsNamed, SourceRecorded,
        RecordedInv, RollbackInv, TypeOK, TypeDisk, StateRecord,
        AtWork, UnderWay, Running, Early, Persisting, server, disk, process
<1>1. CASE FinalizeOk BY <1>1 DEF FinalizeOk
<1>2. CASE FinalizeFails BY <1>2 DEF FinalizeFails
<1>3. CASE Return BY <1>3 DEF Return, Stopped
<1>4. CASE Interrupt BY <1>4 DEF Interrupt, Stopped
<1>5. CASE StartInstall BY <1>5 DEF StartInstall, Lock
<1>6. CASE StartResume BY <1>6 DEF StartResume, Loaded
<1>7. CASE StartRollback BY <1>7 DEF StartRollback, Lock
<1>8. CASE StartReset BY <1>8 DEF StartReset, Lock
<1>9. CASE StartFinalize BY <1>9 DEF StartFinalize, Lock
<1> QED
  BY <1>1, <1>2, <1>3, <1>4, <1>5, <1>6, <1>7, <1>8, <1>9 DEF Start, FinalizeStep

---------------------------------------------------------------------------
\* A step that was cut short

\* Its journal is open, and its files are not as the journal says they were.
PlainTxn == PreTls \cap Txn
Opened(s) == journal[s].status = "started"
Changed(s) == Opened(s) /\ live \cap Covers(s) # journal[s].before

\* It is the one state.json names, and the one the process that rewrites
\* state.json names, until a resume has undone it or begun it again.
CutIsNamed ==
    ~torn =>
        \A s \in PlainTxn : Changed(s) =>
            /\ "state" \in meta /\ s \notin state.done => state.current \in {s, "finalize"}
            /\ UnderWay /\ s \notin mem.done => mem.current \in {s, "finalize"}

\* A step is begun when those before it are on record, so that of two unfinished
\* steps only one can have been begun; and an unfinished site has no vhost.
OpenInTurn ==
    \A s \in PlainTxn : Opened(s) /\ "state" \in meta => Before[s] \subseteq state.done
OpenSiteNotDone ==
    Opened("site") =>
        /\ "site" \notin state.done
        /\ UnderWay => "site" \notin mem.done \/ (pc = "seal" /\ step = "site")

\* No journal is open where there are none, nor before the first state.json.
OpenHasJournal ==
    \A s \in PlainTxn : Opened(s) => "journal" \in meta /\ ~(op = "install" /\ pc \in Early)

OpenParts == CutIsNamed /\ OpenInTurn /\ OpenSiteNotDone /\ OpenHasJournal
OpenInv == OrderInv /\ OpenParts

\* The invariant holds at the start.
LEMMA OpenInit == Init => OpenInv
BY OrderInit
   DEF Init, OpenInv, OpenParts, CutIsNamed, OpenInTurn, OpenSiteNotDone, OpenHasJournal,
       Changed, Opened, PlainTxn, NoJournal, Txn

\* A step has not itself before it, and of two steps one comes before the other.
LEMMA StepsInOrder ==
    ASSUME NEW s \in PlainTxn, NEW t \in Step
    PROVE  /\ s # t => s \in Before[t] \ {"tls"} \/ t \in Before[s] \cap PreTls
           /\ Before[s] \subseteq PreTls /\ s \in PreTls /\ s \in Txn /\ s # "packages"
BY DEF PlainTxn, PreTls, Step, Txn, Before

\* A step that is at work is the only unfinished one with an open journal.
LEMMA OneAtWork ==
    ASSUME OpenInv, AtWork, NEW s \in PlainTxn, Opened(s), s \notin state.done
    PROVE  s = step
<1>1. /\ UnderWay /\ {"state", "journal"} \subseteq meta /\ step \in Step
      /\ state.done \subseteq mem.done /\ mem.done \cap PreTls = state.done \cap PreTls
      BY DEF OpenInv, OrderInv, OrderParts, RecordAgrees, RecordedInv, RollbackInv, SafetyParts,
         FilesThere, MemoryKeepsProgress, TypeOK, TypeControl, AtWork, UnderWay, Persisting,
         Early
<1>2. Before[s] \subseteq mem.done
      BY <1>1 DEF OpenInv, OpenParts, OpenInTurn
<1>3. s \notin mem.done BY <1>1, StepsInOrder
<1>4. Before[step] \ {"tls"} \subseteq mem.done
  <2>1. CASE op = "install"
        BY <1>1, <2>1 DEF OpenInv, OrderInv, OrderParts, InTurn
  <2>2. CASE op = "resume"
    <3>1. (IF step \in PreTls THEN Before[step] ELSE PreTls) \subseteq mem.done
          BY <2>2 DEF OpenInv, OrderInv, InPlace, ResumesInOrder, AtWork, Persisting
    <3>2. step \notin PreTls => Before[step] \ {"tls"} \subseteq PreTls
          BY <1>1 DEF PreTls, Step, Txn, Before
    <3> QED BY <3>1, <3>2
  <2> QED BY <2>1, <2>2 DEF AtWork, Running
<1>5. step \in PreTls => step \notin mem.done
      BY DEF OpenInv, OrderInv, RecordedInv, RecordedParts, NotYetDone
<1> QED BY <1>1, <1>2, <1>3, <1>4, <1>5, StepsInOrder

\* install and resume preserve it.
LEMMA OpenOrchestrator == OpenInv /\ OrchestratorStep => OpenParts'
<1> SUFFICES ASSUME OpenInv, OrchestratorStep PROVE OpenParts'
    OBVIOUS
<1>a. \A s \in PlainTxn : AtWork /\ Opened(s) /\ s \notin state.done => s = step
      BY OneAtWork
<1>b. \A s \in PlainTxn : s \in PreTls /\ s \in Txn /\ s # "packages" /\ s # "tls"
                          /\ Before[s] \subseteq PreTls
      BY DEF PlainTxn, PreTls, Step, Txn, Before
<1>c. /\ "site" \in PlainTxn
      /\ \A s \in PlainTxn : Covers(s) = IF s = "vhost" THEN {"vhost", "site"} ELSE {s}
      BY DEF PlainTxn, PreTls, Step, Txn, Covers
<1> USE <1>a, <1>b, <1>c
    DEF OpenInv, OpenParts, CutIsNamed, OpenInTurn, OpenSiteNotDone, OpenHasJournal,
        Opened, Changed, OrderInv, OrderParts, RecordAgrees, WorkIsNamed, InTurn,
        InPlace, AfterWrites, ResumesInOrder, Upcoming,
        RecordedInv, RecordedParts, NotYetDone, FirstTask, Restoring, NoStateNothing,
        AtWork, Persisting, UnderWay, Running, Early,
        RollbackInv, SafetyParts, EarlyShallow, FilesThere, MemoryKeepsProgress, AfterIsOwn,
        server, disk, process, At,
        TypeOK, TypeServer, TypeDisk, TypeControl, TypeMemory, StateRecord, MemoryRecord,
        JournalRecord
<1>1. CASE MakeLibDir BY <1>1 DEF MakeLibDir
<1>2. CASE ReserveOwnedFiles BY <1>2 DEF ReserveOwnedFiles
<1>3. CASE WriteConfigAndReport BY <1>3 DEF WriteConfigAndReport
<1>4. CASE WritePreparedState BY <1>4 DEF WritePreparedState
<1>5. CASE RestoreUnfinished
  <2>1. /\ op = "resume" /\ pc = "restore" /\ step \in Txn /\ Opened(step)
        /\ step = state.current /\ mem.done = state.done /\ mem.current = state.current
        /\ {"state", "journal"} \subseteq meta /\ Running /\ UnderWay
        BY <1>5 DEF RestoreUnfinished, Loaded
  <2>2. PICK part \in SUBSET Covers(step) : RestoreFiles(step, part)
        BY <1>5 DEF RestoreUnfinished
  <2>3. UNCHANGED <<meta, state, mem, op, torn>> /\ pc' \in {"persist-owned", "return"}
        BY <1>5 DEF RestoreUnfinished
  <2>4. \A s \in Txn : /\ Opened(s)' => Opened(s)
                       /\ Opened(s)' => journal'[s] = journal[s]
        BY <2>2 DEF RestoreFiles
  <2>5. ASSUME NEW s \in PlainTxn, s # step, s \notin state.done, Opened(s)
        PROVE  live' \cap Covers(s) = live \cap Covers(s)
    <3>1. ~(s = "vhost" /\ step = "site")
      <4>1. "site" \in Before["vhost"] BY DEF Before
      <4> QED BY <2>1, <2>5, <4>1
    <3>2. ~(s = "site" /\ step = "vhost")
      <4>1. "site" \in Before["vhost"] /\ "vhost" \in PlainTxn
            BY DEF Before, PlainTxn, PreTls, Step, Txn
      <4> QED BY <2>1, <2>5, <4>1
    <3>3. Covers(s) \cap Covers(step) = {} BY <2>5, <3>1, <3>2 DEF Covers
    <3> QED BY <2>2, <3>3 DEF RestoreFiles
  <2>6. \A s \in PlainTxn : s # step /\ s \notin state.done /\ Changed(s)' => Changed(s)
        BY <2>4, <2>5
  <2>7. CutIsNamed' BY <2>1, <2>3, <2>6
  <2>8. OpenInTurn' /\ OpenSiteNotDone' /\ OpenHasJournal' BY <2>1, <2>3, <2>4
  <2> QED BY <2>7, <2>8
<1>6. CASE BeginPackages BY <1>6 DEF BeginPackages
<1>7. CASE BeginTransaction
  <2>1. /\ pc = "begin" /\ step \in Txn /\ AtWork /\ UnderWay
        /\ pc' = "persist-owned" /\ after' = "apply" /\ mem'.done = mem.done
        /\ UNCHANGED <<live, meta, state, op, step, torn>>
        BY <1>7 DEF BeginTransaction
  <2>2. /\ \A s \in PlainTxn \ {step} : journal'[s] = journal[s]
        /\ live' \cap Covers(step) = journal'[step].before
        BY <1>7 DEF BeginTransaction
  <2>3. {"state", "journal"} \subseteq meta /\ mem.done \cap PreTls = state.done \cap PreTls
        BY <2>1
  <2>4. \A s \in PlainTxn : Changed(s)' => s # step /\ Changed(s) /\ s \in state.done
        BY <2>1, <2>2
  <2>5. CutIsNamed' BY <2>1, <2>3, <2>4
  <2>6. OpenInTurn'
    <3>1. step \in PlainTxn => Before[step] \subseteq state.done
      <4>1. step \in PlainTxn => Before[step] \ {"tls"} \subseteq mem.done BY <2>1
      <4>2. step \in PlainTxn => "tls" \notin Before[step] BY DEF PreTls
      <4> QED BY <2>3, <4>1, <4>2
    <3> QED BY <2>1, <2>2, <3>1
  <2>7. OpenSiteNotDone'
    <3>1. step = "site" => "site" \notin mem.done BY <2>1
    <3> QED BY <2>1, <2>2, <2>3, <3>1
  <2>8. OpenHasJournal' BY <2>1, <2>2, <2>3
  <2> QED BY <2>5, <2>6, <2>7, <2>8
<1>8. CASE PersistOwned BY <1>8 DEF PersistOwned
<1>9. CASE PersistState BY <1>9 DEF PersistState
<1>10. CASE PersistReport BY <1>10 DEF PersistReport
<1>11. CASE InspectPackages BY <1>11, TaskPlace DEF InspectPackages, Task
<1>12. CASE AptInstall BY <1>12, TaskPlace DEF AptInstall, Task
<1>13. CASE MakeEffect BY <1>13, TaskPlace DEF MakeEffect, Task
<1>14. CASE WriteConf BY <1>14, TaskPlace DEF WriteConf, Task
<1>15. CASE WriteSide BY <1>15, TaskPlace DEF WriteSide, Task
<1>16. CASE SmokeAndRemoveProbe BY <1>16, TaskPlace DEF SmokeAndRemoveProbe, Task
<1>17. CASE StepFails BY <1>17 DEF StepFails
<1>18. CASE PackagesDone BY <1>18 DEF PackagesDone
<1>19. CASE PackagesFailed BY <1>19 DEF PackagesFailed
<1>20. CASE StepApplied BY <1>20 DEF StepApplied
<1>21. CASE TlsNotAttempted BY <1>21 DEF TlsNotAttempted
<1>22. CASE Seal BY <1>22 DEF Seal
<1>23. CASE UndoStep
  <2>1. /\ pc = "undo" /\ step \in Txn /\ AtWork /\ UnderWay /\ state.current = step
        /\ pc' = "persist-owned" /\ mem'.done = mem.done /\ mem'.current = step
        /\ after' \in {"next", "return"}
        /\ UNCHANGED <<meta, state, op, step, torn>>
        BY <1>23 DEF UndoStep
  <2>2. mem.done \cap PreTls = state.done \cap PreTls BY <2>1
  <2>3. PICK part \in SUBSET Covers(step) : RestoreFiles(step, part)
        BY <1>23 DEF UndoStep
  <2>4. \A s \in Txn : Opened(s)' => Opened(s) BY <2>3 DEF RestoreFiles
  <2>5. \A s \in PlainTxn : s \notin state.done /\ Opened(s)' => s = step
        BY <2>1, <2>4
  <2>6. CutIsNamed' BY <2>1, <2>2, <2>5
  <2>7. OpenInTurn' /\ OpenSiteNotDone' /\ OpenHasJournal' BY <2>1, <2>4
  <2> QED BY <2>6, <2>7
<1>24. CASE NextInstallStep BY <1>24 DEF NextInstallStep
<1>25. CASE NextResumeStep BY <1>25 DEF NextResumeStep
<1>26. CASE Finish BY <1>26 DEF Finish
<1> QED
  BY <1>1, <1>2, <1>3, <1>4, <1>5, <1>6, <1>7, <1>8, <1>9, <1>10, <1>11, <1>12,
    <1>13, <1>14, <1>15, <1>16, <1>17, <1>18, <1>19, <1>20, <1>21, <1>22, <1>23,
    <1>24, <1>25, <1>26 DEF OrchestratorStep

\* rollback and reset do: what they take away they take after torn says so.
LEMMA OpenTeardown == OpenInv /\ TeardownStep => OpenParts'
<1> SUFFICES ASSUME OpenInv, TeardownStep PROVE OpenParts'
    OBVIOUS
<1>0. /\ op \in {"rollback", "reset"} /\ op' = op /\ ~Running /\ ~Running'
      BY DEF TeardownStep, DropDatabase, DeleteAccount, PurgeBegins, PurgeEnds, PurgeFails,
         RemoveResetFile, NothingToRemove, Running
<1> USE <1>0 DEF OpenInv, OpenParts, CutIsNamed, OpenInTurn, OpenSiteNotDone, OpenHasJournal,
        Opened, Changed, OrderInv, RecordedInv, RecordedParts, TornFirst,
        UnderWay, server, disk
<1>1. CASE DropDatabase BY <1>1 DEF DropDatabase
<1>2. CASE DeleteAccount BY <1>2 DEF DeleteAccount
<1>3. CASE PurgeBegins BY <1>3 DEF PurgeBegins
<1>4. CASE PurgeEnds BY <1>4 DEF PurgeEnds
<1>5. CASE PurgeFails BY <1>5 DEF PurgeFails
<1>6. CASE RemoveResetFile
  <2>1. PICK t \in Token : RemoveFile(t)
    <3>1. PICK i \in 1..Len(RemovalOrder) :
             RemovalOrder[i] \in wipe /\ RemoveFile(RemovalOrder[i])
          BY <1>6 DEF RemoveResetFile
    <3>2. RemovalOrder[i] \in Token
          BY <3>1 DEF RollbackInv, TypeOK, TypeMemory
    <3> QED BY <3>1, <3>2
  <2>2. "state" \in meta => torn BY <1>6 DEF RemoveResetFile
  <2>3. \A s \in Txn : Opened(s)' => Opened(s) BY <2>1 DEF RemoveFile, NoJournal
  <2>4. "state" \in meta' => t # <<"state", "meta">> /\ "state" \in meta
        BY <2>1 DEF RemoveFile
  <2>5. CutIsNamed'
    <3>1. "state" \in meta' => torn' BY <2>1, <2>2, <2>4 DEF RemoveFile
    <3> QED BY <3>1
  <2>6. OpenInTurn'
    <3>1. "state" \in meta' => state' = state BY <2>1, <2>4 DEF RemoveFile
    <3> QED BY <2>3, <2>4, <3>1 DEF PlainTxn
  <2>7. OpenSiteNotDone'
    <3>1. state' = state \/ state' = NoState BY <2>1 DEF RemoveFile
    <3> QED BY <2>3, <3>1 DEF NoState, Txn
  <2>8. OpenHasJournal'
    <3>1. t = <<"journal", "meta">> => journal' = NoJournal BY <2>1 DEF RemoveFile
    <3>2. t # <<"journal", "meta">> /\ "journal" \in meta => "journal" \in meta'
      <4>1. t # <<"journal", "meta">> /\ t[2] = "meta" => t[1] # "journal"
            BY DEF Token, OwnedConf, Guarded, Meta
      <4> QED BY <2>1, <4>1 DEF RemoveFile
    <3> QED BY <2>3, <3>1, <3>2 DEF PlainTxn, NoJournal
  <2> QED BY <2>5, <2>6, <2>7, <2>8
<1>7. CASE NothingToRemove BY <1>7 DEF NothingToRemove
<1> QED
  BY <1>1, <1>2, <1>3, <1>4, <1>5, <1>6, <1>7 DEF TeardownStep

\* So do finalize, the end of a command and its start: finalize drops its own name
\* only where the application is there, with every step before TLS on record.
LEMMA OpenOthers ==
    OpenInv /\ (FinalizeStep \/ Return \/ Interrupt \/ Start) => OpenParts'
<1> SUFFICES ASSUME OpenInv, FinalizeStep \/ Return \/ Interrupt \/ Start PROVE OpenParts'
    OBVIOUS
<1> USE DEF OpenInv, OpenParts, CutIsNamed, OpenInTurn, OpenSiteNotDone, OpenHasJournal,
        Opened, Changed, OrderInv, OrderParts, SourceRecorded, PlainTxn,
        RecordedInv, RollbackInv, TypeOK, TypeDisk, StateRecord,
        UnderWay, Running, Early, server, disk, process
<1>1. CASE FinalizeOk BY <1>1 DEF FinalizeOk
<1>2. CASE FinalizeFails BY <1>2 DEF FinalizeFails
<1>3. CASE Return BY <1>3 DEF Return, Stopped
<1>4. CASE Interrupt BY <1>4 DEF Interrupt, Stopped
<1>5. CASE StartInstall BY <1>5 DEF StartInstall, Lock, InstallAllowed
<1>6. CASE StartResume BY <1>6 DEF StartResume, Loaded
<1>7. CASE StartRollback BY <1>7 DEF StartRollback, Lock
<1>8. CASE StartReset BY <1>8 DEF StartReset, Lock
<1>9. CASE StartFinalize BY <1>9 DEF StartFinalize, Lock
<1> QED
  BY <1>1, <1>2, <1>3, <1>4, <1>5, <1>6, <1>7, <1>8, <1>9 DEF Start, FinalizeStep

\* Every step of the specification preserves it.
LEMMA OpenStep == OpenInv /\ [Next]_vars => OpenInv'
<1> SUFFICES ASSUME OpenInv, [Next]_vars PROVE OpenInv'
    OBVIOUS
<1>1. RecordedInv' /\ BaselineInv' /\ InPlace'
      BY RecordedStep, BaselineStep, InPlaceStep DEF OpenInv, OrderInv, BaselineInv, RollbackInv
<1>2. OrderParts'
  <2>1. CASE OrchestratorStep BY <2>1, OrderOrchestrator DEF OpenInv
  <2>2. CASE TeardownStep BY <2>2, OrderTeardown DEF OpenInv
  <2>3. CASE FinalizeStep \/ Return \/ Interrupt \/ Start BY <2>3, OrderOthers DEF OpenInv
  <2>4. CASE UNCHANGED vars
        BY <2>4 DEF vars, server, disk, process, OpenInv, OrderInv, OrderParts, InTurn,
           RecordAgrees, WorkIsNamed, SourceRecorded, GoesOn, AtWork, UnderWay, Running
  <2> QED BY <2>1, <2>2, <2>3, <2>4 DEF Next, Work
<1>3. OpenParts'
  <2>1. CASE OrchestratorStep BY <2>1, OpenOrchestrator
  <2>2. CASE TeardownStep BY <2>2, OpenTeardown
  <2>3. CASE FinalizeStep \/ Return \/ Interrupt \/ Start BY <2>3, OpenOthers
  <2>4. CASE UNCHANGED vars
        BY <2>4 DEF vars, server, disk, process, OpenInv, OpenParts, CutIsNamed, OpenInTurn,
           OpenSiteNotDone, OpenHasJournal, Changed, Opened, UnderWay, Running
  <2> QED BY <2>1, <2>2, <2>3, <2>4 DEF Next, Work
<1> QED BY <1>1, <1>2, <1>3 DEF OpenInv, OrderInv

\* Whatever failed and was killed, a step before TLS that is not finished and whose
\* files differ from its open journal is the one state.json names, so that the next
\* resume undoes it; only a finalize that failed since has put its own name there.
THEOREM OpenIsCurrent == Spec => []OpenStepIsCurrent
<1>1. OpenInv => OpenStepIsCurrent
      BY DEF OpenInv, OpenParts, CutIsNamed, Changed, Opened, PlainTxn, OpenStepIsCurrent
<1> QED BY OpenInit, OpenStep, <1>1, PTL DEF Spec

---------------------------------------------------------------------------
(***************************************************************************)
(* Where only the commands a step runs may fail: the baseline is true,     *)
(* owned-files.json lists everything, no transaction is left open, every   *)
(* rerun is accepted, and a reset that ends reopens the server.            *)
(***************************************************************************)

\* A list of paths names every configuration and artefact that is in place; the
\* HTTPS vhost goes with the file the runtime step listed.
Listed(list) ==
    /\ \A s \in live \cap OwnedConf : <<s, "conf">> \in list
    /\ \A s \in side : <<s, "side">> \in list
    /\ "tls" \in live => <<"runtime", "conf">> \in list

Wiping == op \in {"rollback", "reset"} /\ pc = "wipe"

\* A step from the first entry of its journal to its end; no other has an open one,
\* so that resume has nothing to restore.
InHand ==
    \/ pc \in {"apply", "undo", "seal"}
    \/ pc \in Persisting /\ after \in {"apply", "seal"}
OpenIsAtWork ==
    /\ \A s \in Txn : journal[s].status = "started" => Running /\ step = s /\ InHand
    /\ pc # "restore"

\* The installer's files come and go together.
FilesWhole ==
    /\ op = "install" /\ pc \in Early =>
         /\ pc = "lib-dir" => meta = {}
         /\ pc = "reserve" => meta = {"dirs"}
         /\ pc = "prepare" => meta = {"dirs", "owned"}
         /\ pc = "first-state" => meta = Meta \ {"state"}
    /\ UnderWay => meta = Meta
    /\ ~Running /\ ~Wiping => meta \in {{}, Meta}
    /\ "owned" \notin meta => owned = {}
    /\ Wiping => \A m \in meta : <<m, "meta">> \in wipe
EarlyClean ==
    op = "install" /\ pc \in Early =>
        live \cap (OwnedConf \cup {"tls"}) = {} /\ side = {} /\ pkgs = "none" /\ owned = {}

\* Whoever works on the server has everything that is there on its list.
ListKept ==
    /\ UnderWay => Listed(mem.owned)
    /\ ~Running /\ ~Wiping => Listed(owned)
    /\ Wiping => Listed(wipe)
RuntimeListed ==
    /\ UnderWay /\ "runtime" \in mem.done => <<"runtime", "conf">> \in mem.owned
    /\ ~Running /\ ~Wiping /\ "runtime" \in state.done => <<"runtime", "conf">> \in owned

\* What a failed step restores is listed too.  Once the probe is removed the vhost
\* step can no longer fail.
Probed == pc = "apply" /\ step = "vhost" /\ at = 3
SnapshotListed ==
    AtWork /\ pc # "begin" /\ step \in Txn /\ ~Probed =>
        /\ \A s \in journal[step].before \cap OwnedConf : <<s, "conf">> \in mem.owned
        /\ "tls" \in journal[step].before => <<"runtime", "conf">> \in mem.owned

\* What a command leaves in its files is what it had in memory.
ListSynced ==
    Running =>
        /\ pc \in {"persist-state", "persist-report", "return"} => owned = mem.owned
        /\ pc = "return" => state.done = mem.done /\ report.baseline = mem.baseline

\* An unfinished site step that has made the web root owns the probe in it, and a
\* finished one has left the probe for the vhost step.
SiteListed ==
    /\ UnderWay /\ "site" \in side /\ "site" \notin mem.done =>
         \/ <<"site", "conf">> \in mem.owned
         \/ At("apply") /\ step = "site" /\ at = 3
    /\ ~Running /\ ~Wiping /\ "site" \in side /\ "site" \notin state.done
         => <<"site", "conf">> \in owned
    /\ UnderWay /\ step = "vhost" => "site" \in mem.done
ProbeThere ==
    ~torn =>
        /\ UnderWay /\ "site" \in mem.done /\ "vhost" \notin mem.done /\ ~Probed
             => "site" \in live
        /\ ~Running /\ "site" \in state.done /\ "vhost" \notin state.done
             => "site" \in live
        /\ AtWork /\ pc # "begin" /\ step = "vhost" /\ "site" \in mem.done
             => "site" \in journal["vhost"].before
        /\ At("apply") /\ step = "site" /\ at > 3 => "site" \in live

\* Where packages are installed, a clean baseline is on record.
BaselineClean ==
    /\ report.baseline # "dirty" /\ mem.baseline # "dirty"
    /\ pkgs # "none" => report.baseline = "clean" \/ (UnderWay /\ mem.baseline = "clean")
    /\ At("apply") /\ step = "packages" /\ at > 1 => mem.baseline = "clean"
    /\ Wiping => pkgs = "none"

\* A database that no purge will take away is dropped first.
DatabaseGone ==
    /\ Wiping => "database" \notin effects
    /\ ~Running /\ meta = {} => "database" \notin effects
    /\ op = "reset" /\ pc \in {"account", "purge", "purging"} /\ report.baseline # "clean"
         => "database" \notin effects

CalmParts ==
    /\ OpenIsAtWork /\ FilesWhole /\ EarlyClean /\ ListKept /\ RuntimeListed
    /\ SnapshotListed /\ ListSynced /\ SiteListed /\ ProbeThere
    /\ BaselineClean /\ DatabaseGone

CalmInv == CompletedInv /\ BaselineInv /\ CalmParts

---------------------------------------------------------------------------
\* The invariant is inductive

\* It holds at the start.
LEMMA CalmInit == Init => CalmInv
BY CompletedInit, BaselineInit
   DEF Init, CalmInv, CalmParts, OpenIsAtWork, FilesWhole, EarlyClean, ListKept,
       RuntimeListed, SnapshotListed, ListSynced, SiteListed, ProbeThere,
       BaselineClean, DatabaseGone, Listed, Wiping, AtWork, At, Running, UnderWay,
       NoState, NoReport, NoJournal, Blank, Txn, Early

\* install and resume preserve it.
LEMMA CalmOrchestrator ==
    ASSUME ~Faults, CalmInv, OrchestratorStep
    PROVE  CalmParts'
<1> USE DEF CalmInv, CalmParts, OpenIsAtWork, FilesWhole, EarlyClean, ListKept,
        RuntimeListed, SnapshotListed, ListSynced, SiteListed, ProbeThere,
        BaselineClean, DatabaseGone, Listed, Wiping, InHand, Probed,
        CompletedInv, CompletedParts, ProgressSynced,
        BaselineInv, BaselineParts, BaselineRemembered,
        RecordedInv, RecordedParts, TasksMade, FirstTask, NotYetDone,
        AtWork, Persisting, UnderWay, Running, Early,
        RollbackInv, SafetyParts, EarlyShallow, MemoryKeepsProgress,
        server, disk, process, At,
        TypeOK, TypeServer, TypeDisk, TypeControl, TypeMemory, StateRecord,
        ReportRecord, MemoryRecord, JournalRecord
<1>1. CASE MakeLibDir BY <1>1 DEF MakeLibDir
<1>2. CASE ReserveOwnedFiles BY <1>2 DEF ReserveOwnedFiles
<1>3. CASE WriteConfigAndReport BY <1>3 DEF WriteConfigAndReport, NoReport, Meta
<1>4. CASE WritePreparedState BY <1>4 DEF WritePreparedState, NoState, Blank, Meta
<1>5. CASE RestoreUnfinished BY <1>5 DEF RestoreUnfinished
<1>6. CASE BeginPackages BY <1>6 DEF BeginPackages, Txn
<1>7. CASE BeginTransaction
  <2> USE <1>7 DEF BeginTransaction, Covers, OwnedConf
  <2>9. ProbeThere' BY DEF PreTls, Step, Txn
  <2> QED BY <2>9
<1>8. CASE PersistOwned
  <2> USE <1>8 DEF PersistOwned
  <2>2. FilesWhole' BY DEF Meta
  <2> QED BY <2>2
<1>9. CASE PersistState BY <1>9 DEF PersistState
<1>10. CASE PersistReport BY <1>10 DEF PersistReport
<1>11. CASE InspectPackages
  <2> USE <1>11, TaskPlace DEF InspectPackages, Task
  <2>10. BaselineClean' BY DEF Baseline
  <2> QED BY <2>10
<1>12. CASE AptInstall
  <2> USE <1>12, TaskPlace DEF AptInstall, Task
  <2>10. BaselineClean'
    <3>1. step = "packages" /\ at = 2 BY DEF Step, Txn
    <3> QED BY <3>1
  <2> QED BY <2>10
<1>13. CASE MakeEffect BY <1>13, TaskPlace DEF MakeEffect, Task
<1>14. CASE WriteConf
  <2> USE <1>14, TaskPlace DEF WriteConf, Task, OwnedConf
  <2>4. ListKept'
    <3>1. step = "tls" => "runtime" \in mem.done BY DEF RuntimeFirst, PastRuntime
    <3> QED BY <3>1
  <2> QED BY <2>4
<1>15. CASE WriteSide BY <1>15, TaskPlace DEF WriteSide, Task, Guarded
<1>16. CASE SmokeAndRemoveProbe
  <2> USE <1>16, TaskPlace DEF SmokeAndRemoveProbe, Task
  <2>12. step = "vhost" /\ at = 2 BY DEF Step, Txn
  <2>6. SnapshotListed' BY <2>12
  <2>8. SiteListed' BY <2>12
  <2>9. ProbeThere' BY <2>12
  <2> QED BY <2>6, <2>8, <2>9
<1>17. CASE StepFails
  <2> USE <1>17 DEF StepFails
  <2>12. ~Probed
    <3> SUFFICES ASSUME step = "vhost", at = 3 PROVE FALSE
        OBVIOUS
    <3>1. Len(Tasks["vhost"]) = 2 BY TaskTotal DEF Step, Txn
    <3>2. at <= Len(Tasks["vhost"]) BY DEF CommandsAt, TaskRefused
    <3> QED BY <3>1, <3>2
  <2>13. ~(step = "site" /\ at = 3)
    <3> SUFFICES ASSUME step = "site", at = 3 PROVE FALSE
        OBVIOUS
    <3>1. Tasks["site"][3] = "conf" BY DEF Tasks
    <3>2. ConfRefused("site", mem.owned) BY <3>1 DEF CommandsAt, TaskRefused
    <3> QED BY <3>2 DEF ConfRefused
  <2>6. SnapshotListed' BY <2>12
  <2>8. SiteListed' BY <2>13
  <2>9. ProbeThere' BY <2>12
  <2> QED BY <2>6, <2>8, <2>9
<1>18. CASE PackagesDone BY <1>18 DEF PackagesDone, Txn
<1>19. CASE PackagesFailed BY <1>19 DEF PackagesFailed, Txn
<1>20. CASE StepApplied
  <2> USE <1>20 DEF StepApplied, Txn, Step
  <2>12. at = IF step \in {"site", "database"} THEN 4 ELSE 3
    <3>1. step \in Step /\ at = Len(Tasks[step]) + 1 OBVIOUS
    <3> QED BY <3>1, AllTasksMade
  <2>5. RuntimeListed' BY <2>12 DEF OwnedConf
  <2>9. ProbeThere' BY <2>12
  <2> QED BY <2>5, <2>9
<1>21. CASE TlsNotAttempted BY <1>21 DEF TlsNotAttempted
<1>22. CASE Seal BY <1>22 DEF Seal, Txn
<1>23. CASE UndoStep
  <2> USE <1>23 DEF UndoStep, RestoreFiles, Covers, OwnedConf, Txn
  <2>9. ProbeThere' BY DEF PreTls, Step
  <2> QED BY <2>9
<1>24. CASE NextInstallStep
  <2> USE <1>24 DEF NextInstallStep
  <2>8. SiteListed' BY DEF InstallDone, GoesOn, Before, Step, Txn
  <2> QED BY <2>8
<1>25. CASE NextResumeStep
  <2> USE <1>25 DEF NextResumeStep
  <2>8. SiteListed' BY DEF ResumeStep, Before, PreTls, Step, Txn
  <2> QED BY <2>8
<1>26. CASE Finish BY <1>26 DEF Finish
<1> QED
  BY <1>1, <1>2, <1>3, <1>4, <1>5, <1>6, <1>7, <1>8, <1>9, <1>10, <1>11, <1>12,
    <1>13, <1>14, <1>15, <1>16, <1>17, <1>18, <1>19, <1>20, <1>21, <1>22, <1>23,
    <1>24, <1>25, <1>26 DEF OrchestratorStep

\* rollback and reset do.
LEMMA CalmTeardown ==
    ASSUME ~Faults, CalmInv, TeardownStep
    PROVE  CalmParts'
<1> USE DEF CalmInv, CalmParts, OpenIsAtWork, FilesWhole, EarlyClean, ListKept,
        RuntimeListed, SnapshotListed, ListSynced, SiteListed, ProbeThere,
        BaselineClean, DatabaseGone, Listed, Wiping, InHand, Probed,
        CompletedInv, CompletedParts, ProgressSynced,
        BaselineInv, BaselineParts, BaselineRemembered,
        RecordedInv, RecordedParts, TasksMade, FirstTask, NotYetDone,
        AtWork, Persisting, UnderWay, Running, Early,
        NoStateNothing, TornFirst, NoReportNoBaseline, NoState,
        RollbackInv, SafetyParts, EarlyShallow, RollbackSafe,
        server, disk, process, At,
        TypeOK, TypeServer, TypeDisk, TypeControl, TypeMemory, StateRecord,
        ReportRecord, MemoryRecord, JournalRecord
<1>1. CASE DropDatabase
  <2> USE <1>1 DEF DropDatabase, NamesKnown, Meta
  <2>1. OpenIsAtWork' OBVIOUS
  <2>2. FilesWhole' OBVIOUS
  <2>3. EarlyClean' OBVIOUS
  <2>4. ListKept' OBVIOUS
  <2>5. RuntimeListed' OBVIOUS
  <2>6. SnapshotListed' OBVIOUS
  <2>7. ListSynced' OBVIOUS
  <2>8. SiteListed' OBVIOUS
  <2>9. ProbeThere' OBVIOUS
  <2>10. BaselineClean' OBVIOUS
  <2>11. DatabaseGone' OBVIOUS
  <2> QED BY <2>1, <2>2, <2>3, <2>4, <2>5, <2>6, <2>7, <2>8, <2>9, <2>10, <2>11
<1>2. CASE DeleteAccount BY <1>2 DEF DeleteAccount
<1>3. CASE PurgeBegins BY <1>3 DEF PurgeBegins, ToPurge
<1>4. CASE PurgeEnds
  <2> USE <1>4 DEF PurgeEnds, ToPurge, ResetFileList, Baseline
  <2>2. FilesWhole'
    <3>1. meta = {} \/ (meta = Meta /\ "owned" \in meta) BY DEF Meta
    <3> QED BY <3>1
  <2> QED BY <2>2
<1>5. CASE PurgeFails BY <1>5 DEF PurgeFails
<1>6. CASE RemoveResetFile
  <2>1. PICK i \in 1..Len(RemovalOrder) :
          RemovalOrder[i] \in wipe /\ RemoveFile(RemovalOrder[i])
        BY <1>6 DEF RemoveResetFile
  <2> DEFINE t == RemovalOrder[i]
  <2> HIDE DEF t
  <2>2. /\ op \in {"rollback", "reset"} /\ op' = op /\ Wiping
        /\ UNCHANGED <<after, mem, effects, pkgs>>
        BY <1>6 DEF RemoveResetFile
  <2>3. t \in wipe /\ t \in Token /\ RemoveFile(t) BY <2>1 DEF t
  <2>4. pc' \in {"return", "wipe"} /\ (pc' = "return" => wipe' = {})
        BY <2>3 DEF RemoveFile
  <2>5. Listed(wipe)'
    <3>1. ASSUME NEW s \in live' \cap OwnedConf PROVE <<s, "conf">> \in wipe'
      <4>1. t # <<s, "conf">> BY <2>3, <3>1 DEF RemoveFile, LiveUnder, OwnedConf
      <4> QED BY <2>2, <2>3, <3>1, <4>1 DEF RemoveFile
    <3>2. ASSUME NEW s \in side' PROVE <<s, "side">> \in wipe'
      <4>1. t # <<s, "side">> BY <2>3, <3>2 DEF RemoveFile
      <4> QED BY <2>2, <2>3, <3>2, <4>1 DEF RemoveFile
    <3>3. "tls" \in live' => <<"runtime", "conf">> \in wipe'
      <4>1. "tls" \in live' => t # <<"runtime", "conf">> BY <2>3 DEF RemoveFile, LiveUnder
      <4> QED BY <2>2, <2>3, <4>1 DEF RemoveFile
    <3> QED BY <3>1, <3>2, <3>3
  <2>6. \A m \in meta' : <<m, "meta">> \in wipe'
    <3>1. ASSUME NEW m \in meta' PROVE <<m, "meta">> \in wipe'
      <4>1. t # <<m, "meta">> BY <2>3, <3>1 DEF RemoveFile
      <4> QED BY <2>2, <2>3, <3>1, <4>1 DEF RemoveFile
    <3> QED BY <3>1
  <2>7. "owned" \notin meta' => owned' = {}
    <3>1. "owned" \in meta \ meta' => t = <<"owned", "meta">>
          BY <2>3 DEF RemoveFile, Token
    <3> QED BY <2>3, <3>1 DEF RemoveFile
  <2>8. pc' = "return" => /\ meta' = {} /\ owned' = {} /\ side' = {}
                          /\ live' \cap OwnedConf = {} /\ "tls" \notin live'
        BY <2>4, <2>5, <2>6, <2>7
  <2>9. \A s \in Txn : journal'[s].status = "started" => journal[s].status = "started"
        BY <2>3 DEF RemoveFile, NoJournal
  <2>10. state' = state \/ state' = NoState BY <2>3 DEF RemoveFile
  <2>11. report' = report \/ report' = NoReport BY <2>3 DEF RemoveFile
  <2>12. "state" \in meta' => torn'
    <3>1. "state" \in meta' => "state" \in meta /\ t # <<"state", "meta">>
          BY <2>3 DEF RemoveFile
    <3> QED BY <2>2, <2>3, <3>1 DEF RemoveFile
  <2>13. "state" \notin meta' => state'.done = {}
    <3>1. "state" \in meta \ meta' => state' = NoState
          BY <2>3 DEF RemoveFile, Token
    <3> QED BY <2>10, <3>1
  <2>14. OpenIsAtWork' BY <2>2, <2>4, <2>9
  <2>15. FilesWhole' BY <2>2, <2>4, <2>6, <2>7, <2>8
  <2>16. ListKept' BY <2>2, <2>4, <2>5, <2>8
  <2>17. RuntimeListed' /\ SiteListed'
         BY <2>2, <2>4, <2>8, <2>13
  <2>18. ProbeThere' BY <2>2, <2>4, <2>12, <2>13
  <2>19. BaselineClean' BY <2>2, <2>4, <2>11 DEF NoReport
  <2>20. DatabaseGone' BY <2>2, <2>4
  <2> QED BY <2>2, <2>14, <2>15, <2>16, <2>17, <2>18, <2>19, <2>20
<1>7. CASE NothingToRemove BY <1>7 DEF NothingToRemove
<1> QED
  BY <1>1, <1>2, <1>3, <1>4, <1>5, <1>6, <1>7 DEF TeardownStep

\* finalize does, and the end of any command; none is interrupted.
LEMMA CalmEnds ==
    ASSUME ~Faults, CalmInv, FinalizeStep \/ Return \/ Interrupt
    PROVE  CalmParts'
<1> USE DEF CalmInv, CalmParts, OpenIsAtWork, FilesWhole, EarlyClean, ListKept,
        RuntimeListed, SnapshotListed, ListSynced, SiteListed, ProbeThere,
        BaselineClean, DatabaseGone, Listed, Wiping, InHand, Probed,
        CompletedInv, CompletedParts, ProgressSynced,
        BaselineInv, BaselineParts, BaselineRemembered,
        RecordedInv, RecordedParts, TasksMade, FirstTask, NotYetDone,
        AtWork, Persisting, UnderWay, Running, Early,
        NoStateNothing, TornFirst, NoReportNoBaseline, NoState,
        RollbackInv, SafetyParts, EarlyShallow, RollbackSafe,
        server, disk, process, At,
        TypeOK, TypeServer, TypeDisk, TypeControl, TypeMemory, StateRecord,
        ReportRecord, MemoryRecord, JournalRecord
<1>1. CASE FinalizeOk BY <1>1 DEF FinalizeOk
<1>2. CASE FinalizeFails BY <1>2 DEF FinalizeFails
<1>3. CASE Return
  <2> USE <1>3 DEF Return, Stopped, Blank
  <2>11. DatabaseGone' BY DEF Meta
  <2> QED BY <2>11
<1>4. CASE Interrupt BY <1>4 DEF Interrupt
<1> QED
  BY <1>1, <1>2, <1>3, <1>4 DEF FinalizeStep

\* A first installation finds nothing of an earlier one.
LEMMA FirstIsClean ==
    ASSUME CalmInv, StartInstall
    PROVE  EarlyClean'
<1>1. /\ ~Running /\ ~Wiping /\ ~UnderWay /\ meta = {}
      /\ UNCHANGED <<live, side, pkgs, owned>>
      BY DEF StartInstall, InstallAllowed, Lock, server, disk, Running, UnderWay, Wiping
<1>2. owned = {} /\ Listed(owned)
      BY <1>1 DEF CalmInv, CalmParts, FilesWhole, ListKept
<1>3. live \cap (OwnedConf \cup {"tls"}) = {} /\ side = {}
      BY <1>2 DEF Listed
<1>4. report.baseline = "none"
      BY <1>1 DEF CalmInv, BaselineInv, BaselineParts, NoReportNoBaseline
<1>5. pkgs = "none"
      BY <1>1, <1>4 DEF CalmInv, CalmParts, BaselineClean
<1> QED BY <1>1, <1>2, <1>3, <1>5 DEF EarlyClean

\* So does the start of one.
LEMMA CalmStart ==
    ASSUME ~Faults, CalmInv, Start
    PROVE  CalmParts'
<1> USE DEF CalmInv, CalmParts, OpenIsAtWork, FilesWhole, EarlyClean, ListKept,
        RuntimeListed, SnapshotListed, ListSynced, SiteListed, ProbeThere,
        BaselineClean, DatabaseGone, Listed, Wiping, InHand, Probed,
        CompletedInv, CompletedParts, ProgressSynced,
        BaselineInv, BaselineParts, BaselineRemembered,
        RecordedInv, RecordedParts, TasksMade, FirstTask, NotYetDone,
        AtWork, Persisting, UnderWay, Running, Early,
        NoStateNothing, TornFirst, NoReportNoBaseline, NoState,
        RollbackInv, SafetyParts, EarlyShallow, RollbackSafe,
        server, disk, process, At,
        TypeOK, TypeServer, TypeDisk, TypeControl, TypeMemory, StateRecord,
        ReportRecord, MemoryRecord, JournalRecord
<1>1. CASE StartInstall
  <2> USE <1>1 DEF StartInstall, Lock, InstallAllowed, Blank, Meta
  <2>1. OpenIsAtWork' OBVIOUS
  <2>2. FilesWhole' OBVIOUS
  <2>3. EarlyClean' BY FirstIsClean
  <2>4. ListKept' OBVIOUS
  <2>5. RuntimeListed' OBVIOUS
  <2>6. SnapshotListed' OBVIOUS
  <2>7. ListSynced' OBVIOUS
  <2>8. SiteListed' OBVIOUS
  <2>9. ProbeThere' OBVIOUS
  <2>10. BaselineClean' OBVIOUS
  <2>11. DatabaseGone' OBVIOUS
  <2> QED BY <2>1, <2>2, <2>3, <2>4, <2>5, <2>6, <2>7, <2>8, <2>9, <2>10, <2>11
<1>2. CASE StartResume BY <1>2 DEF StartResume, Loaded
<1>3. CASE StartRollback BY <1>3 DEF StartRollback, Lock
<1>4. CASE StartReset BY <1>4 DEF StartReset, Lock
<1>5. CASE StartFinalize BY <1>5 DEF StartFinalize, Lock
<1> QED
  BY <1>1, <1>2, <1>3, <1>4, <1>5 DEF Start

\* Every step of the specification preserves it.
LEMMA CalmStep ==
    ASSUME ~Faults
    PROVE  CalmInv /\ [Next]_vars => CalmInv'
<1> SUFFICES ASSUME CalmInv, [Next]_vars PROVE CalmInv'
    OBVIOUS
<1>1. CompletedInv' /\ BaselineInv' BY CompletedStep, BaselineStep DEF CalmInv
<1>2. CalmParts'
  <2>1. CASE Start BY <2>1, CalmStart
  <2>2. CASE OrchestratorStep BY <2>2, CalmOrchestrator
  <2>3. CASE TeardownStep BY <2>3, CalmTeardown
  <2>4. CASE FinalizeStep \/ Return \/ Interrupt BY <2>4, CalmEnds
  <2>5. CASE UNCHANGED vars
        BY <2>5 DEF vars, server, disk, process, CalmInv, CalmParts, OpenIsAtWork,
           FilesWhole, EarlyClean, ListKept, RuntimeListed, SnapshotListed, ListSynced,
           SiteListed, ProbeThere, BaselineClean, DatabaseGone, Listed, Wiping, InHand,
           Probed, AtWork, Persisting, At, UnderWay, Running
  <2> QED BY <2>1, <2>2, <2>3, <2>4, <2>5 DEF Next, Work
<1> QED BY <1>1, <1>2 DEF CalmInv

---------------------------------------------------------------------------
\* What follows where only commands fail

\* The baseline in the report tells what was on the server before the first attempt:
\* a purge that goes by it takes away what the installer added.
THEOREM BaselineIsTrue ==
    ASSUME ~Faults
    PROVE  Spec => []BaselineTrue
<1>1. CalmInv => BaselineTrue BY DEF CalmInv, CalmParts, BaselineClean, BaselineTrue
<1>2. CalmInv /\ [Next]_vars => CalmInv' BY CalmStep
<1> QED BY CalmInit, <1>1, <1>2, PTL DEF Spec

\* Between commands owned-files.json lists every configuration and every artefact
\* the steps have put in place.
THEOREM OwnedIsComplete ==
    ASSUME ~Faults
    PROVE  Spec => []OwnedComplete
<1>1. CalmInv => OwnedComplete
      BY DEF CalmInv, CalmParts, ListKept, Listed, Running, Wiping, OwnedComplete
<1>2. CalmInv /\ [Next]_vars => CalmInv' BY CalmStep
<1> QED BY CalmInit, <1>1, <1>2, PTL DEF Spec

\* Running resume again is never refused because of what an earlier attempt left:
\* not by an unlisted file, not by a web root that is not empty, not for want of the
\* probe.
THEOREM RerunIsAccepted ==
    ASSUME ~Faults
    PROVE  Spec => []RerunAccepted
<1>1. ASSUME CalmInv PROVE RerunAccepted
  <2> SUFFICES ASSUME Resumable, NEW s \in PreTls \ state.done
               PROVE  ~Refused(s)
      BY DEF RerunAccepted
  <2>1. op = "none" /\ ~torn BY DEF Resumable
  <2>2. LiveAfterRestore = live
        BY <1>1, <2>1 DEF LiveAfterRestore, CalmInv, CalmParts, OpenIsAtWork, Running
  <2>3. Listed(owned)
        BY <1>1, <2>1 DEF CalmInv, CalmParts, ListKept, Running, Wiping
  <2>4. ~(s \in OwnedConf /\ s \in LiveAfterRestore /\ <<s, "conf">> \notin owned)
        BY <2>2, <2>3 DEF Listed
  <2>5. ~(s \in Guarded /\ SideRefused(s, owned))
        BY <1>1, <2>1, <2>3 DEF SideRefused, Listed, CalmInv, CalmParts, SiteListed,
           Running, Wiping
  <2>6. ~(s = "vhost" /\ "site" \notin LiveAfterRestore /\ "site" \in state.done)
        BY <1>1, <2>1, <2>2 DEF CalmInv, CalmParts, ProbeThere, Running
  <2> QED BY <2>4, <2>5, <2>6 DEF Refused
<1>2. CalmInv /\ [Next]_vars => CalmInv' BY CalmStep
<1> QED BY CalmInit, <1>1, <1>2, PTL DEF Spec

\* A reset that gets to its end leaves nothing that install refuses: none of the
\* installer's files, no packages and no site of it, no database.
THEOREM ResetReopensServer ==
    ASSUME ~Faults
    PROVE  Spec => ResetReopens
<1>1. CalmInv /\ [Next]_vars
        => [op = "reset" /\ pc = "wipe" /\ pc' = "return" => InstallAllowed']_vars
  <2> SUFFICES ASSUME CalmInv, [Next]_vars, op = "reset", pc = "wipe", pc' = "return"
               PROVE  InstallAllowed'
      OBVIOUS
  <2>1. CalmInv' BY CalmStep
  <2>2. RemoveResetFile \/ NothingToRemove
        BY DEF Next, Start, Work, StartInstall, StartResume, StartRollback, StartReset,
           StartFinalize, Lock, OrchestratorStep, TeardownStep, FinalizeStep, Return,
           Interrupt, Stopped, vars, process, FinalizeOk, FinalizeFails, At, Running,
           Task, MakeLibDir, ReserveOwnedFiles, WriteConfigAndReport,
           WritePreparedState, RestoreUnfinished, BeginPackages, BeginTransaction,
           PersistOwned, PersistState, PersistReport, InspectPackages, AptInstall,
           MakeEffect, WriteConf, WriteSide, SmokeAndRemoveProbe, StepFails,
           PackagesDone, PackagesFailed, StepApplied, TlsNotAttempted, Seal, UndoStep,
           NextInstallStep, NextResumeStep, Finish, DropDatabase, DeleteAccount,
           PurgeBegins, PurgeEnds, PurgeFails
  <2>3. wipe' = {}
        BY <2>2 DEF RemoveResetFile, RemoveFile, NothingToRemove
  <2>4. meta' = {}
    <3>1. ASSUME NEW m \in meta' PROVE FALSE
      <4>1. CASE NothingToRemove
            BY <2>3, <3>1, <4>1
            DEF NothingToRemove, disk, CalmInv, CalmParts, FilesWhole, Wiping
      <4>2. CASE RemoveResetFile
        <5>1. PICK i \in 1..Len(RemovalOrder) : RemoveFile(RemovalOrder[i])
              BY <4>2 DEF RemoveResetFile
        <5>2. m \in meta /\ RemovalOrder[i] # <<m, "meta">>
              BY <3>1, <5>1 DEF RemoveFile
        <5>3. <<m, "meta">> \in wipe
              BY <5>2 DEF CalmInv, CalmParts, FilesWhole, Wiping
        <5> QED BY <2>3, <5>1, <5>2, <5>3 DEF RemoveFile
      <4> QED BY <2>2, <4>1, <4>2
    <3> QED BY <3>1
  <2>5. op' = "reset" BY <2>2 DEF RemoveResetFile, NothingToRemove
  <2>6. /\ Listed(owned)' /\ owned' = {} /\ "database" \notin effects'
        BY <2>1, <2>4, <2>5
        DEF CalmInv, CalmParts, ListKept, FilesWhole, DatabaseGone, Running, Wiping
  <2>7. pkgs' = "none"
        BY <2>2 DEF CalmInv, CalmParts, BaselineClean, Wiping, RemoveResetFile,
           NothingToRemove, server
  <2> QED BY <2>4, <2>6, <2>7 DEF InstallAllowed, Listed, OwnedConf
<1>2. CalmInv /\ [Next]_vars => CalmInv' BY CalmStep
<1> QED BY CalmInit, <1>1, <1>2, PTL DEF Spec, ResetReopens

===============================================================================
