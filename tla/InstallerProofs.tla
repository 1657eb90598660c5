---- MODULE InstallerProofs ----
(***************************************************************************)
(* The installer, with faults and without, for both deployment modes: the  *)
(* types; rollback never runs on a server past the point it is meant for;  *)
(* no write of state.json forgets a finished step; the first package       *)
(* baseline stays in the report until the report is deleted; a command     *)
(* always has a next step, and only so many of them.                       *)
(***************************************************************************)
EXTENDS Installer, FiniteSetTheorems, WellFoundedInduction, TLAPS

\* How many tasks each step has.
LEMMA TaskTotal ==
    ASSUME NEW s \in Step
    PROVE  Len(Tasks[s]) = IF s \in {"site", "database"} THEN 3 ELSE 2
<1>1. Tasks["packages"] = <<"inspect", "apt">> BY DEF Tasks
<1>2. Tasks["site"] = <<"account", "side", "conf">> BY DEF Tasks
<1>3. Tasks["runtime"] = <<"conf", "side">> BY DEF Tasks
<1>4. Tasks["vhost"] = <<"conf", "smoke">> BY DEF Tasks
<1>5. Tasks["database"] = <<"conf", "side", "sql">> BY DEF Tasks
<1>6. Tasks["tls"] = <<"certificate", "conf">> BY DEF Tasks
<1>7. Tasks["app"] = <<"source", "conf">> BY DEF Tasks
<1>8. \A a, b : Len(<<a, b>>) = 2 OBVIOUS
<1>9. \A a, b, c : Len(<<a, b, c>>) = 3 OBVIOUS
<1>10. CASE s = "site" BY <1>2, <1>9, <1>10
<1>11. CASE s = "database" BY <1>5, <1>9, <1>11
<1>12. CASE s \in {"packages", "runtime", "vhost", "tls", "app"}
  <2>1. \A t \in {"packages", "runtime", "vhost", "tls", "app"} : Len(Tasks[t]) = 2
    BY <1>1, <1>3, <1>4, <1>6, <1>7, <1>8
  <2> QED BY <1>12, <2>1
<1> QED BY <1>10, <1>11, <1>12 DEF Step, Txn

\* Two or three.
LEMMA TaskCount ==
    ASSUME NEW s \in Step
    PROVE  Len(Tasks[s]) \in {2, 3}
BY TaskTotal

\* Only the database step runs SQL, only the application step deploys, and the
\* packages step writes no files of its own.
LEMMA TaskOwner ==
    ASSUME NEW s \in Step, NEW i \in 1..Len(Tasks[s])
    PROVE  /\ Tasks[s][i] = "sql" => s = "database"
           /\ Tasks[s][i] = "source" => s = "app"
           /\ Tasks[s][i] = "conf" => s \in Txn
           /\ Tasks[s][i] = "side" => s \in Guarded
<1>1. Tasks["packages"] = <<"inspect", "apt">> BY DEF Tasks
<1>2. Tasks["site"] = <<"account", "side", "conf">> BY DEF Tasks
<1>3. Tasks["runtime"] = <<"conf", "side">> BY DEF Tasks
<1>4. Tasks["vhost"] = <<"conf", "smoke">> BY DEF Tasks
<1>6. Tasks["tls"] = <<"certificate", "conf">> BY DEF Tasks
<1>5. Len(Tasks[s]) \in {2, 3} BY TaskCount
<1>0. \A n \in {2, 3} : \A j \in 1..n : j \in {1, 2, 3} OBVIOUS
<1>7. i \in {1, 2, 3} BY <1>5, <1>0
<1>8. s \in {"packages", "site", "runtime", "vhost", "database", "tls", "app"}
      BY DEF Step, Txn
<1>9. CASE s = "packages" BY <1>1, <1>7, <1>9 DEF Txn, Guarded
<1>10. CASE s = "site" BY <1>2, <1>7, <1>10 DEF Txn, Guarded
<1>11. CASE s = "runtime" BY <1>3, <1>7, <1>11 DEF Txn, Guarded
<1>12. CASE s = "vhost" BY <1>4, <1>7, <1>12 DEF Txn, Guarded
<1>13. CASE s = "tls" BY <1>6, <1>7, <1>13 DEF Txn, Guarded
<1>14. Tasks["database"] = <<"conf", "side", "sql">> BY DEF Tasks
<1>15. Tasks["app"] = <<"source", "conf">> BY DEF Tasks
<1>16. CASE s = "database" BY <1>7, <1>14, <1>16 DEF Txn, Guarded
<1>17. CASE s = "app" BY <1>7, <1>15, <1>17 DEF Txn, Guarded
<1> QED BY <1>8, <1>9, <1>10, <1>11, <1>12, <1>13, <1>16, <1>17

---------------------------------------------------------------------------
\* Type correctness

\* Every variable holds a value of its kind at the start.
LEMMA TypeInit == Init => TypeOK
<1> SUFFICES ASSUME Init PROVE TypeOK OBVIOUS
<1>1. TypeServer BY DEF Init, TypeServer
<1>2. TypeDisk
  <2>1. state \in StateRecord
        BY DEF Init, StateRecord, NoState, Phase, Current
  <2>2. report \in ReportRecord
        BY DEF Init, ReportRecord, NoReport, Phase, Baseline
  <2>3. journal \in [Txn -> JournalRecord]
        BY DEF Init, NoJournal, JournalRecord
  <2> QED BY <2>1, <2>2, <2>3 DEF Init, TypeDisk
<1>3. TypeControl BY DEF Init, TypeControl, Label, Step
<1>4. TypeMemory
      BY DEF Init, TypeMemory, MemoryRecord, Blank, Phase, Current, Baseline
<1>5. torn \in BOOLEAN BY DEF Init
<1> QED BY <1>1, <1>2, <1>3, <1>4, <1>5 DEF TypeOK

\* The step a task belongs to.
LEMMA TaskStep ==
    ASSUME TypeOK, NEW t, Task(t)
    PROVE  /\ t = "sql" => step = "database"
           /\ t = "source" => step = "app"
           /\ t = "conf" => step \in Txn
           /\ t = "side" => step \in Guarded
<1>1. step \in Step /\ at \in 1..Len(Tasks[step])
      BY TaskCount DEF TypeOK, TypeControl, Task
<1> QED BY <1>1, TaskOwner DEF Task

\* install and resume keep the types.
LEMMA TypeOrchestrator == TypeOK /\ OrchestratorStep => TypeOK'
<1> SUFFICES ASSUME TypeOK, OrchestratorStep PROVE TypeOK'
    OBVIOUS
<1>1. CASE MakeLibDir
  <2>1. TypeDisk'
        BY <1>1 DEF MakeLibDir, TypeDisk, disk, TypeOK, Meta
  <2>2. TypeControl'
        BY <1>1 DEF MakeLibDir, TypeControl, process, Label, Step, TypeOK
  <2> QED BY <1>1, <2>1, <2>2 DEF MakeLibDir, TypeOK, TypeServer, TypeMemory,
          server, disk, process
<1>2. CASE ReserveOwnedFiles
  <2>1. TypeDisk'
        BY <1>2 DEF ReserveOwnedFiles, TypeDisk, disk, TypeOK, Meta
  <2>2. TypeControl'
        BY <1>2 DEF ReserveOwnedFiles, TypeControl, process, Label, Step, TypeOK
  <2> QED BY <1>2, <2>1, <2>2 DEF ReserveOwnedFiles, TypeOK, TypeServer, TypeMemory,
          server, disk, process
<1>3. CASE WriteConfigAndReport
  <2>1. TypeDisk'
        BY <1>3 DEF WriteConfigAndReport, TypeDisk, disk, TypeOK, Meta,
          ReportRecord, NoReport, Phase, Baseline
  <2>2. TypeControl'
        BY <1>3 DEF WriteConfigAndReport, TypeControl, process, Label, Step, TypeOK
  <2> QED BY <1>3, <2>1, <2>2 DEF WriteConfigAndReport, TypeOK, TypeServer,
          TypeMemory, server, disk, process
<1>4. CASE WritePreparedState
  <2>1. TypeDisk'
        BY <1>4 DEF WritePreparedState, TypeDisk, disk, TypeOK, Meta, StateRecord,
          NoState, Phase, Current
  <2>2. TypeControl'
        BY <1>4 DEF WritePreparedState, TypeControl, process, Label, Step, TypeOK
  <2> QED BY <1>4, <2>1, <2>2 DEF WritePreparedState, TypeOK, TypeServer,
          TypeMemory, server, disk, process
<1>5. CASE RestoreUnfinished
  <2>1. TypeServer'
        BY <1>5 DEF RestoreUnfinished, TypeServer, server, TypeOK, RestoreFiles,
          Covers, TypeDisk, JournalRecord, Step, TypeControl
  <2>2. TypeDisk'
        BY <1>5 DEF RestoreUnfinished, TypeDisk, disk, TypeOK, RestoreFiles,
          JournalRecord, TypeControl
  <2>3. TypeControl'
        BY <1>5 DEF RestoreUnfinished, TypeControl, process, Label, Step, TypeOK
  <2> QED BY <1>5, <2>1, <2>2, <2>3 DEF RestoreUnfinished, TypeOK, TypeMemory,
          server, disk, process
<1>6. CASE BeginPackages
  <2>1. TypeControl'
        BY <1>6 DEF BeginPackages, TypeControl, process, Label, Step, TypeOK, At,
          Running
  <2>2. TypeMemory'
        BY <1>6 DEF BeginPackages, TypeMemory, process, TypeOK, MemoryRecord,
          Current, Step
  <2> QED BY <1>6, <2>1, <2>2 DEF BeginPackages, TypeOK, TypeServer, TypeDisk,
          server, disk, process
<1>7. CASE BeginTransaction
  <2>1. TypeDisk'
        BY <1>7 DEF BeginTransaction, TypeDisk, disk, TypeOK, JournalRecord, Covers,
          TypeServer
  <2>2. TypeControl'
        BY <1>7 DEF BeginTransaction, TypeControl, process, Label, Step, TypeOK, At,
          Running
  <2>3. TypeMemory'
        BY <1>7, InstallerAssumption DEF BeginTransaction, TypeMemory, process,
          TypeOK, MemoryRecord, Current, Step
  <2> QED BY <1>7, <2>1, <2>2, <2>3 DEF BeginTransaction, TypeOK, TypeServer,
          server, disk, process
<1>8. CASE PersistOwned
  <2>1. TypeDisk'
        BY <1>8 DEF PersistOwned, TypeDisk, disk, TypeOK, At, TypeMemory, MemoryRecord
  <2>2. TypeControl'
        BY <1>8 DEF PersistOwned, TypeControl, process, Label, Step, TypeOK, At,
          Running
  <2> QED BY <1>8, <2>1, <2>2 DEF PersistOwned, TypeOK, TypeServer, TypeMemory,
          server, disk, process
<1>9. CASE PersistState
  <2>1. TypeDisk'
        BY <1>9 DEF PersistState, TypeDisk, disk, TypeOK, At, TypeMemory,
          MemoryRecord, StateRecord
  <2>2. TypeControl'
        BY <1>9 DEF PersistState, TypeControl, process, Label, Step, TypeOK, At,
          Running
  <2> QED BY <1>9, <2>1, <2>2 DEF PersistState, TypeOK, TypeServer, TypeMemory,
          server, disk, process
<1>10. CASE PersistReport
  <2>1. TypeDisk'
        BY <1>10 DEF PersistReport, TypeDisk, disk, TypeOK, At, TypeMemory,
          MemoryRecord, ReportRecord
  <2>2. TypeControl'
        BY <1>10 DEF PersistReport, TypeControl, process, Label, Step, TypeOK, At,
          Running
  <2> QED BY <1>10, <2>1, <2>2 DEF PersistReport, TypeOK, TypeServer, TypeMemory,
          server, disk, process
<1>11. CASE InspectPackages
  <2>1. TypeControl'
        BY <1>11, TaskCount DEF InspectPackages, TypeControl, process, Label, Step,
          TypeOK, Task, At, Running
  <2>2. TypeMemory'
        BY <1>11 DEF InspectPackages, TypeMemory, process, TypeOK, MemoryRecord,
          Baseline, Task
  <2> QED BY <1>11, <2>1, <2>2 DEF InspectPackages, TypeOK, TypeServer, TypeDisk,
          server, disk, process, Task
<1>12. CASE AptInstall
  <2>1. TypeServer'
        BY <1>12 DEF AptInstall, TypeServer, server, TypeOK
  <2>2. TypeControl'
        BY <1>12, TaskCount DEF AptInstall, TypeControl, process, Label, Step,
          TypeOK, Task, At, Running
  <2> QED BY <1>12, <2>1, <2>2 DEF AptInstall, TypeOK, TypeDisk, TypeMemory, server,
          disk, process, Task
<1>13. CASE MakeEffect
  <2>1. TypeServer'
        BY <1>13 DEF MakeEffect, TypeServer, server, TypeOK, EffectOf, Effect
  <2>2. TypeControl'
        BY <1>13, TaskCount DEF MakeEffect, TypeControl, process, Label, Step,
          TypeOK, Task, At, Running
  <2> QED BY <1>13, <2>1, <2>2 DEF MakeEffect, TypeOK, TypeDisk, TypeMemory, server,
          disk, process, Task
<1>14. CASE WriteConf
  <2>1. TypeServer'
        BY <1>14, TaskStep DEF WriteConf, TypeServer, server, TypeOK, Task,
          TypeControl, At
  <2>2. TypeControl'
        BY <1>14, TaskCount DEF WriteConf, TypeControl, process, Label, Step,
          TypeOK, Task, At, Running
  <2>3. TypeMemory'
        BY <1>14, TaskStep DEF WriteConf, TypeMemory, process, TypeOK, MemoryRecord,
          Token, OwnedConf, Task
  <2> QED BY <1>14, <2>1, <2>2, <2>3 DEF WriteConf, TypeOK, TypeDisk, server, disk,
          process, Task
<1>15. CASE WriteSide
  <2>1. TypeServer'
        BY <1>15, TaskStep DEF WriteSide, TypeServer, server, TypeOK, Task, Token,
          Guarded, OwnedConf, MemoryRecord
  <2>2. TypeControl'
        BY <1>15, TaskCount DEF WriteSide, TypeControl, process, Label, Step,
          TypeOK, Task, At, Running
  <2>3. TypeMemory'
        BY <1>15, TaskStep DEF WriteSide, TypeMemory, process, TypeOK, Task, Token,
          Guarded, OwnedConf, MemoryRecord
  <2> QED BY <1>15, <2>1, <2>2, <2>3 DEF WriteSide, TypeOK, TypeDisk, server, disk,
          process, Task
<1>16. CASE SmokeAndRemoveProbe
  <2>1. TypeServer'
        BY <1>16 DEF SmokeAndRemoveProbe, TypeServer, server, TypeOK
  <2>2. TypeControl'
        BY <1>16, TaskCount DEF SmokeAndRemoveProbe, TypeControl, process, Label,
          Step, TypeOK, Task, At, Running
  <2>3. TypeMemory'
        BY <1>16 DEF SmokeAndRemoveProbe, TypeMemory, process, TypeOK, MemoryRecord,
          Task
  <2> QED BY <1>16, <2>1, <2>2, <2>3 DEF SmokeAndRemoveProbe, TypeOK, TypeDisk,
          server, disk, process, Task
<1>17. CASE StepFails
  <2>1. TypeServer'
        BY <1>17 DEF StepFails, TypeServer, server, TypeOK
  <2>2. TypeControl'
        BY <1>17 DEF StepFails, TypeControl, process, Label, Step, TypeOK, At, Running
  <2> QED BY <1>17, <2>1, <2>2 DEF StepFails, TypeOK, TypeDisk, TypeMemory, server,
          disk, process
<1>18. CASE PackagesDone
  <2>1. TypeServer'
        BY <1>18 DEF PackagesDone, TypeServer, server, TypeOK
  <2>2. TypeControl'
        BY <1>18 DEF PackagesDone, TypeControl, process, Label, Step, TypeOK, At,
          Running
  <2>3. TypeMemory'
        BY <1>18 DEF PackagesDone, TypeMemory, process, TypeOK, MemoryRecord, Phase,
          Current, Step
  <2> QED BY <1>18, <2>1, <2>2, <2>3 DEF PackagesDone, TypeOK, TypeDisk, server,
          disk, process
<1>19. CASE PackagesFailed
  <2>1. TypeControl'
        BY <1>19 DEF PackagesFailed, TypeControl, process, Label, Step, TypeOK, At,
          Running
  <2>2. TypeMemory'
        BY <1>19 DEF PackagesFailed, TypeMemory, process, TypeOK, MemoryRecord,
          Phase, Current, Step
  <2> QED BY <1>19, <2>1, <2>2 DEF PackagesFailed, TypeOK, TypeServer, TypeDisk,
          server, disk, process
<1>20. CASE StepApplied
  <2>1. TypeControl'
        BY <1>20 DEF StepApplied, TypeControl, process, Label, Step, TypeOK, At,
          Running
  <2>2. TypeMemory'
    <3>1. mem \in MemoryRecord /\ wipe \subseteq Token /\ step \in Step
          BY <1>20 DEF TypeOK, TypeMemory, StepApplied, Step
    <3>2. PhaseAfter(step) \in Phase
          BY <3>1 DEF PhaseAfter, Phase, MemoryRecord
    <3>3. /\ mem' \in MemoryRecord
          /\ wipe' = wipe
      <4> DEFINE f == PhaseAfter(step)
                 c == IF op = "install" /\ step = "vhost" THEN "vhost" ELSE "none"
      <4>1. c \in Current BY DEF Current, Step, Txn
      <4>2. /\ mem' = [mem EXCEPT !.phase = f, !.current = c, !.done = @ \cup {step},
                       !.tls = @ \/ step = "tls", !.app = @ \/ step = "app"]
            /\ wipe' = wipe
            BY <1>20, Zenon DEF StepApplied
      <4> HIDE DEF f, c
      <4>3. f \in Phase BY <3>2 DEF f
      <4> QED BY <3>1, <4>1, <4>2, <4>3 DEF MemoryRecord
    <3> QED BY <3>1, <3>3 DEF TypeMemory
  <2> QED BY <1>20, <2>1, <2>2 DEF StepApplied, TypeOK, TypeServer, TypeDisk,
          server, disk, process
<1>21. CASE TlsNotAttempted
  <2>1. TypeControl'
        BY <1>21 DEF TlsNotAttempted, TypeControl, process, Label, Step, TypeOK, At,
          Running
  <2>2. TypeMemory'
    <3>1. CASE LocalTest
          BY <1>21, <3>1 DEF TlsNotAttempted, TypeMemory, TypeOK, MemoryRecord,
             Current, Step, Txn
    <3>2. CASE ~LocalTest
          BY <1>21, <3>2 DEF TlsNotAttempted, TypeMemory, TypeOK, MemoryRecord,
             Current, Step, Txn
    <3> QED BY <3>1, <3>2
  <2> QED BY <1>21, <2>1, <2>2 DEF TlsNotAttempted, TypeOK, TypeServer, TypeDisk,
          server, disk, process
<1>22. CASE Seal
  <2>1. TypeDisk'
        BY <1>22 DEF Seal, TypeDisk, disk, TypeOK, JournalRecord
  <2>2. TypeControl'
        BY <1>22 DEF Seal, TypeControl, process, Label, Step, TypeOK, At, Running
  <2>3. TypeMemory'
        BY <1>22 DEF Seal, TypeMemory, process, TypeOK, MemoryRecord, Current
  <2> QED BY <1>22, <2>1, <2>2, <2>3 DEF Seal, TypeOK, TypeServer, server, disk,
          process
<1>23. CASE UndoStep
  <2>1. TypeServer'
        BY <1>23 DEF UndoStep, TypeServer, server, TypeOK, RestoreFiles, Covers,
          TypeDisk, JournalRecord, Step, TypeControl
  <2>2. TypeDisk'
        BY <1>23 DEF UndoStep, TypeDisk, disk, TypeOK, RestoreFiles, JournalRecord
  <2>3. TypeControl'
        BY <1>23 DEF UndoStep, TypeControl, process, Label, Step, TypeOK, At, Running
  <2>4. TypeMemory'
        BY <1>23 DEF UndoStep, TypeMemory, process, TypeOK, MemoryRecord, Phase,
          Current, Step
  <2> QED BY <1>23, <2>1, <2>2, <2>3, <2>4 DEF UndoStep, TypeOK, server, disk, process
<1>24. CASE NextInstallStep
  <2>1. TypeControl'
        BY <1>24 DEF NextInstallStep, TypeControl, process, Label, Step, TypeOK
  <2> QED BY <1>24, <2>1 DEF NextInstallStep, TypeOK, TypeServer, TypeDisk,
          TypeMemory, server, disk, process
<1>25. CASE NextResumeStep
  <2>1. TypeControl'
        BY <1>25 DEF NextResumeStep, TypeControl, process, Label, Step, TypeOK
  <2> QED BY <1>25, <2>1 DEF NextResumeStep, TypeOK, TypeServer, TypeDisk,
          TypeMemory, server, disk, process
<1>26. CASE Finish
  <2>1. TypeControl'
        BY <1>26 DEF Finish, TypeControl, process, Label, Step, TypeOK, At, Running
  <2>2. TypeMemory'
        BY <1>26 DEF Finish, TypeMemory, process, TypeOK, MemoryRecord, Phase, Current
  <2> QED BY <1>26, <2>1, <2>2 DEF Finish, TypeOK, TypeServer, TypeDisk, server,
          disk, process
<1> QED
  BY <1>1, <1>2, <1>3, <1>4, <1>5, <1>6, <1>7, <1>8, <1>9, <1>10, <1>11, <1>12,
    <1>13, <1>14, <1>15, <1>16, <1>17, <1>18, <1>19, <1>20, <1>21, <1>22, <1>23,
    <1>24, <1>25, <1>26 DEF OrchestratorStep

\* rollback and reset keep the types.
LEMMA TypeTeardown == TypeOK /\ (TeardownStep) => TypeOK'
<1> SUFFICES ASSUME TypeOK, TeardownStep PROVE TypeOK'
    OBVIOUS
<1>1. CASE DropDatabase
  <2>1. TypeServer'
        BY <1>1 DEF DropDatabase, TypeServer, server, TypeOK
  <2>2. TypeControl'
        BY <1>1 DEF DropDatabase, TypeControl, process, Label, Step, TypeOK
  <2> QED BY <1>1, <2>1, <2>2 DEF DropDatabase, TypeOK, TypeDisk, TypeMemory,
          server, disk, process
<1>2. CASE DeleteAccount
  <2>1. TypeServer'
        BY <1>2 DEF DeleteAccount, TypeServer, server, TypeOK
  <2>2. TypeControl'
        BY <1>2 DEF DeleteAccount, TypeControl, process, Label, Step, TypeOK
  <2> QED BY <1>2, <2>1, <2>2 DEF DeleteAccount, TypeOK, TypeDisk, TypeMemory,
          server, disk, process
<1>3. CASE PurgeBegins
  <2>1. TypeServer'
        BY <1>3 DEF PurgeBegins, TypeServer, server, TypeOK
  <2>2. TypeControl'
        BY <1>3 DEF PurgeBegins, TypeControl, process, Label, Step, TypeOK
  <2> QED BY <1>3, <2>1, <2>2 DEF PurgeBegins, TypeOK, TypeDisk, TypeMemory, server,
          disk, process
<1>4. CASE PurgeEnds
  <2>1. TypeServer'
        BY <1>4 DEF PurgeEnds, TypeServer, server, TypeOK
  <2>2. TypeControl'
        BY <1>4 DEF PurgeEnds, TypeControl, process, Label, Step, TypeOK
  <2>3. TypeMemory'
        BY <1>4 DEF PurgeEnds, TypeMemory, process, TypeOK, ResetFileList, TypeDisk,
          Token, Meta
  <2> QED BY <1>4, <2>1, <2>2, <2>3 DEF PurgeEnds, TypeOK, TypeDisk, server, disk,
          process
<1>5. CASE PurgeFails
  <2>1. TypeControl'
        BY <1>5 DEF PurgeFails, TypeControl, process, Label, Step, TypeOK
  <2> QED BY <1>5, <2>1 DEF PurgeFails, TypeOK, TypeServer, TypeDisk, TypeMemory,
          server, disk, process
<1>6. CASE RemoveResetFile
  <2>1. TypeServer'
        BY <1>6 DEF RemoveResetFile, TypeServer, server, TypeOK, RemoveFile
  <2>2. TypeDisk'
    <3>1. NoState \in StateRecord BY DEF StateRecord, NoState, Phase, Current
    <3>2. NoReport \in ReportRecord BY DEF ReportRecord, NoReport, Phase, Baseline
    <3>3. NoJournal \in [Txn -> JournalRecord] BY DEF NoJournal, JournalRecord
    <3> QED BY <1>6, <3>1, <3>2, <3>3
            DEF RemoveResetFile, RemoveFile, TypeDisk, TypeOK
  <2>3. TypeControl'
        BY <1>6 DEF RemoveResetFile, TypeControl, process, Label, Step, TypeOK,
          RemoveFile
  <2>4. TypeMemory'
        BY <1>6 DEF RemoveResetFile, TypeMemory, process, TypeOK, RemoveFile
  <2>5. torn' \in BOOLEAN
        BY <1>6 DEF RemoveResetFile, RemoveFile
  <2> QED BY <2>1, <2>2, <2>3, <2>4, <2>5 DEF TypeOK
<1>7. CASE NothingToRemove
  <2>1. TypeControl'
        BY <1>7 DEF NothingToRemove, TypeControl, process, Label, Step, TypeOK
  <2> QED BY <1>7, <2>1 DEF NothingToRemove, TypeOK, TypeServer, TypeDisk,
          TypeMemory, server, disk, process
<1> QED
  BY <1>1, <1>2, <1>3, <1>4, <1>5, <1>6, <1>7 DEF TeardownStep

\* So do finalize, and the end of any command.
LEMMA TypeEnds == TypeOK /\ (FinalizeStep \/ Return \/ Interrupt) => TypeOK'
<1> SUFFICES ASSUME TypeOK, FinalizeStep \/ Return \/ Interrupt PROVE TypeOK'
    OBVIOUS
<1>1. CASE FinalizeOk
  <2>1. TypeDisk'
        BY <1>1 DEF FinalizeOk, TypeDisk, disk, TypeOK, StateRecord, Current
  <2>2. TypeControl'
        BY <1>1 DEF FinalizeOk, TypeControl, process, Label, Step, TypeOK
  <2> QED BY <1>1, <2>1, <2>2 DEF FinalizeOk, TypeOK, TypeServer, TypeMemory,
          server, disk, process
<1>2. CASE FinalizeFails
  <2>1. TypeControl'
        BY <1>2 DEF FinalizeFails, TypeControl, process, Label, Step, TypeOK
  <2> QED BY <1>2, <2>1 DEF FinalizeFails, TypeOK, TypeServer, TypeDisk, TypeMemory,
          server, disk, process
<1>3. CASE Return
  <2>1. TypeControl'
        BY <1>3 DEF Return, TypeControl, process, Label, Step, TypeOK, Stopped
  <2>2. TypeMemory'
        BY <1>3 DEF Return, TypeMemory, process, TypeOK, Stopped, MemoryRecord,
          Blank, Phase, Current, Baseline
  <2> QED BY <1>3, <2>1, <2>2 DEF Return, TypeOK, TypeServer, TypeDisk, server,
          disk, process
<1>4. CASE Interrupt
  <2>1. TypeControl'
        BY <1>4 DEF Interrupt, TypeControl, process, Label, Step, TypeOK, Stopped
  <2>2. TypeMemory'
        BY <1>4 DEF Interrupt, TypeMemory, process, TypeOK, Stopped, MemoryRecord,
          Blank, Phase, Current, Baseline
  <2> QED BY <1>4, <2>1, <2>2 DEF Interrupt, TypeOK, TypeServer, TypeDisk, server,
          disk, process
<1> QED
  BY <1>1, <1>2, <1>3, <1>4 DEF FinalizeStep

\* So does the start of one.
LEMMA TypeStart == TypeOK /\ (Start) => TypeOK'
<1> SUFFICES ASSUME TypeOK, Start PROVE TypeOK'
    OBVIOUS
<1>1. CASE StartInstall
  <2>1. TypeControl'
        BY <1>1 DEF StartInstall, TypeControl, process, Label, Step, TypeOK, Lock
  <2>2. TypeMemory'
        BY <1>1 DEF StartInstall, TypeMemory, process, TypeOK, MemoryRecord, Blank,
          Phase, Current, Baseline
  <2> QED BY <1>1, <2>1, <2>2 DEF StartInstall, TypeOK, TypeServer, TypeDisk,
          server, disk, process
<1>2. CASE StartResume
  <2>1. TypeControl'
        BY <1>2 DEF StartResume, TypeControl, process, Label, Step, TypeOK, Current
  <2>2. TypeMemory'
        BY <1>2 DEF StartResume, TypeMemory, process, TypeOK, MemoryRecord, Loaded,
          TypeDisk, StateRecord, ReportRecord
  <2> QED BY <1>2, <2>1, <2>2 DEF StartResume, TypeOK, TypeServer, TypeDisk, server,
          disk, process
<1>3. CASE StartRollback
  <2>1. TypeControl'
        BY <1>3 DEF StartRollback, TypeControl, process, Label, Step, TypeOK, Lock
  <2> QED BY <1>3, <2>1 DEF StartRollback, TypeOK, TypeServer, TypeDisk, TypeMemory,
          server, disk, process
<1>4. CASE StartReset
  <2>1. TypeControl'
        BY <1>4 DEF StartReset, TypeControl, process, Label, Step, TypeOK, Lock
  <2> QED BY <1>4, <2>1 DEF StartReset, TypeOK, TypeServer, TypeDisk, TypeMemory,
          server, disk, process
<1>5. CASE StartFinalize
  <2>1. TypeDisk'
        BY <1>5 DEF StartFinalize, TypeDisk, disk, TypeOK, StateRecord, Current
  <2>2. TypeControl'
        BY <1>5 DEF StartFinalize, TypeControl, process, Label, Step, TypeOK, Lock
  <2> QED BY <1>5, <2>1, <2>2 DEF StartFinalize, TypeOK, TypeServer, TypeMemory,
          server, disk, process
<1> QED
  BY <1>1, <1>2, <1>3, <1>4, <1>5 DEF Start

\* Every step of the specification keeps the types.
LEMMA TypeStep == TypeOK /\ [Next]_vars => TypeOK'
<1> SUFFICES ASSUME TypeOK, [Next]_vars PROVE TypeOK'
    OBVIOUS
<1>1. CASE Start BY <1>1, TypeStart
<1>2. CASE OrchestratorStep BY <1>2, TypeOrchestrator
<1>3. CASE TeardownStep BY <1>3, TypeTeardown
<1>4. CASE FinalizeStep \/ Return \/ Interrupt BY <1>4, TypeEnds
<1>5. CASE UNCHANGED vars
      BY <1>5 DEF vars, server, disk, process, TypeOK, TypeServer, TypeDisk,
         TypeControl, TypeMemory
<1> QED BY <1>1, <1>2, <1>3, <1>4, <1>5 DEF Next, Work

\* Every variable always holds a value of its kind, whatever fails and whenever
\* the process dies.
THEOREM TypeCorrect == Spec => []TypeOK
BY TypeInit, TypeStep, PTL DEF Spec

---------------------------------------------------------------------------
\* Rollback safety, and progress

\* The labels of install before it has written state.json.
Early == {"lib-dir", "reserve", "prepare", "first-state"}
UnderWay == Running /\ pc \notin Early

\* The steps that come after the runtime step.
PastRuntime == {"vhost", "database", "tls", "app"}

\* The site's database or its HTTPS vhost exists, or the TLS step's snapshot
\* could bring the latter back.
Deep ==
    \/ "database" \in effects
    \/ "tls" \in live
    \/ "tls" \in journal["tls"].before

\* A deep server has the runtime step on record: in state.json while there is
\* one, and in the memory of whatever rewrites state.json.
DeepRecorded ==
    Deep => /\ "state" \in meta => "runtime" \in state.done
            /\ UnderWay => "runtime" \in mem.done

\* install starts afresh: before its first state.json there is none, and the
\* server is not deep.
EarlyShallow ==
    op = "install" /\ pc \in Early => ~Deep /\ mem = Blank /\ "state" \notin meta
FirstStateReady == op = "install" /\ pc = "first-state" => "journal" \in meta
AfterIsOwn == after \notin Early \cup {"wipe"}

\* The installer's files are there while it works, and the journals outlive
\* neither state.json's removal nor a snapshot of the HTTPS vhost.
FilesThere == UnderWay => {"state", "journal"} \subseteq meta
StateHasJournal == "state" \in meta => "journal" \in meta
WipeOrder ==
    pc = "wipe" /\ <<"journal", "meta">> \in wipe /\ "state" \in meta
        => <<"state", "meta">> \in wipe
SnapshotInJournal == "tls" \in journal["tls"].before => "journal" \in meta

\* Between two rounds of writes the memory and state.json agree on whether the
\* runtime is finished; a step past it starts only when it is.
Agreed ==
    Running /\ (\/ pc \in {"restore", "begin", "apply", "undo", "next", "persist-report"}
                \/ pc = "seal" /\ step # "runtime")
        => ("runtime" \in mem.done <=> "runtime" \in state.done)
RuntimeFirst ==
    UnderWay /\ pc # "restore" /\ step \in PastRuntime
        => "runtime" \in mem.done /\ "runtime" \in state.done
NextAfterRuntime ==
    /\ op = "install" /\ step = "runtime"
    /\ \/ pc = "next"
       \/ /\ after = "next"
          /\ pc \in {"seal", "persist-owned", "persist-state", "persist-report"}
    => "runtime" \in mem.done

\* What state.json records, the process that rewrites it knows.
MemoryKeepsProgress == UnderWay => state.done \subseteq mem.done

SafetyParts ==
    /\ DeepRecorded /\ EarlyShallow /\ FirstStateReady /\ AfterIsOwn
    /\ FilesThere /\ StateHasJournal /\ WipeOrder /\ SnapshotInJournal
    /\ Agreed /\ RuntimeFirst /\ NextAfterRuntime /\ MemoryKeepsProgress
    /\ RollbackSafe

RollbackInv == TypeOK /\ SafetyParts

---------------------------------------------------------------------------
\* The invariant is inductive

\* The steps past the runtime are those it comes before.
LEMMA RuntimeBefore ==
    ASSUME NEW s \in Step, NEW t \in Step, s \in PastRuntime,
           Before[s] = Before[t] \cup {t}
    PROVE  t = "runtime" \/ t \in PastRuntime
BY DEF Before, PastRuntime, Step, Txn

\* state.json is removed before the journals.
LEMMA JournalAfterState ==
    ASSUME NEW i \in 1..Len(RemovalOrder), RemovalOrder[i] = <<"journal", "meta">>
    PROVE  \E j \in 1..(i - 1) : RemovalOrder[j] = <<"state", "meta">>
<1>1. RemovalOrder[1] = <<"site", "conf">> BY DEF RemovalOrder
<1>2. RemovalOrder[2] = <<"owned", "meta">> BY DEF RemovalOrder
<1>3. RemovalOrder[3] = <<"state", "meta">> BY DEF RemovalOrder
<1>4. i \notin {1, 2, 3} BY <1>1, <1>2, <1>3
<1>5. Len(RemovalOrder) \in Nat BY DEF RemovalOrder
<1>6. 3 \in 1..(i - 1) BY <1>4, <1>5
<1> QED BY <1>3, <1>6

\* Nothing is there at the start, and nobody works.
LEMMA RollbackInit == Init => RollbackInv
BY TypeInit DEF Init, RollbackInv, SafetyParts, DeepRecorded, EarlyShallow, FirstStateReady, AfterIsOwn,
   FilesThere, StateHasJournal, WipeOrder, SnapshotInJournal, Agreed, RuntimeFirst,
   NextAfterRuntime, MemoryKeepsProgress, RollbackSafe, Deep, UnderWay, Running,
   Early, NoJournal, Txn

\* install and resume preserve it.
LEMMA RollbackOrchestrator == RollbackInv /\ OrchestratorStep => SafetyParts'
<1> SUFFICES ASSUME RollbackInv, OrchestratorStep PROVE SafetyParts'
    OBVIOUS
<1> USE DEF RollbackInv, SafetyParts, DeepRecorded, EarlyShallow, FirstStateReady,
        AfterIsOwn, FilesThere, StateHasJournal, WipeOrder, SnapshotInJournal,
        Agreed, RuntimeFirst, NextAfterRuntime, MemoryKeepsProgress, RollbackSafe,
        Deep, UnderWay, Running, Early, PastRuntime, server, disk, process,
        TypeOK, TypeServer, TypeDisk, TypeControl, TypeMemory, StateRecord,
        MemoryRecord, JournalRecord
<1>1. CASE MakeLibDir BY <1>1 DEF MakeLibDir
<1>2. CASE ReserveOwnedFiles BY <1>2 DEF ReserveOwnedFiles
<1>3. CASE WriteConfigAndReport BY <1>3 DEF WriteConfigAndReport
<1>4. CASE WritePreparedState BY <1>4 DEF WritePreparedState, NoState, Blank
<1>5. CASE RestoreUnfinished BY <1>5 DEF RestoreUnfinished, RestoreFiles, Covers
<1>6. CASE BeginPackages BY <1>6 DEF BeginPackages, At
<1>7. CASE BeginTransaction BY <1>7 DEF BeginTransaction, At, Covers
<1>8. CASE PersistOwned BY <1>8 DEF PersistOwned, At
<1>9. CASE PersistState BY <1>9 DEF PersistState, At
<1>10. CASE PersistReport
  <2>1. pc' = after /\ pc \notin Early /\ UnderWay
        BY <1>10 DEF PersistReport, At
  <2>2. after \notin Early \cup {"wipe"} OBVIOUS
  <2> QED BY <1>10, <2>1, <2>2 DEF PersistReport, At
<1>11. CASE InspectPackages BY <1>11 DEF InspectPackages, At, Task
<1>12. CASE AptInstall BY <1>12 DEF AptInstall, At, Task
<1>13. CASE MakeEffect
       BY <1>13, TaskStep DEF MakeEffect, At, Task, EffectOf
<1>14. CASE WriteConf BY <1>14 DEF WriteConf, At, Task
<1>15. CASE WriteSide BY <1>15 DEF WriteSide, At, Task
<1>16. CASE SmokeAndRemoveProbe BY <1>16 DEF SmokeAndRemoveProbe, At, Task
<1>17. CASE StepFails BY <1>17 DEF StepFails, At
<1>18. CASE PackagesDone BY <1>18 DEF PackagesDone, At
<1>19. CASE PackagesFailed BY <1>19 DEF PackagesFailed, At
<1>20. CASE StepApplied BY <1>20 DEF StepApplied, At
<1>21. CASE TlsNotAttempted BY <1>21 DEF TlsNotAttempted, At
<1>22. CASE Seal BY <1>22 DEF Seal, At
<1>23. CASE UndoStep BY <1>23 DEF UndoStep, At, RestoreFiles, Covers
<1>24. CASE NextInstallStep
  <2>1. step' \in PastRuntime => step = "runtime" \/ step \in PastRuntime
        BY <1>24, RuntimeBefore DEF NextInstallStep
  <2> QED BY <1>24, <2>1 DEF NextInstallStep
<1>25. CASE NextResumeStep BY <1>25 DEF NextResumeStep, ResumeStep, Before,
        PreTls, Step, Txn, AppReady
<1>26. CASE Finish BY <1>26 DEF Finish, At
<1> QED
  BY <1>1, <1>2, <1>3, <1>4, <1>5, <1>6, <1>7, <1>8, <1>9, <1>10, <1>11, <1>12,
    <1>13, <1>14, <1>15, <1>16, <1>17, <1>18, <1>19, <1>20, <1>21, <1>22, <1>23,
    <1>24, <1>25, <1>26 DEF OrchestratorStep

LEMMA JournalAfter ==
    ASSUME NEW i \in 1..Len(RemovalOrder), \A j \in 1..(i - 1) : RemovalOrder[j] \notin wipe
    PROVE  RemovalOrder[i] = <<"journal", "meta">> => <<"state", "meta">> \notin wipe
<1> SUFFICES ASSUME RemovalOrder[i] = <<"journal", "meta">>
             PROVE  <<"state", "meta">> \notin wipe
    OBVIOUS
<1>1. PICK j \in 1..(i - 1) : RemovalOrder[j] = <<"state", "meta">>
      BY JournalAfterState
<1> QED BY <1>1

\* rollback and reset do.
LEMMA RollbackTeardown == RollbackInv /\ TeardownStep => SafetyParts'
<1> SUFFICES ASSUME RollbackInv, TeardownStep PROVE SafetyParts'
    OBVIOUS
<1> USE DEF RollbackInv, SafetyParts, DeepRecorded, EarlyShallow, FirstStateReady,
        AfterIsOwn, FilesThere, StateHasJournal, WipeOrder, SnapshotInJournal,
        Agreed, RuntimeFirst, NextAfterRuntime, MemoryKeepsProgress, RollbackSafe,
        Deep, UnderWay, Running, Early, PastRuntime, server, disk, process,
        TypeOK, TypeServer, TypeDisk, TypeControl, TypeMemory, StateRecord,
        MemoryRecord, JournalRecord
<1>1. CASE DropDatabase BY <1>1 DEF DropDatabase
<1>2. CASE DeleteAccount BY <1>2 DEF DeleteAccount
<1>3. CASE PurgeBegins BY <1>3 DEF PurgeBegins
<1>4. CASE PurgeEnds BY <1>4 DEF PurgeEnds, ResetFileList, Meta
<1>5. CASE PurgeFails BY <1>5 DEF PurgeFails
<1>6. CASE RemoveResetFile
  <2>1. PICK i \in 1..Len(RemovalOrder) :
          /\ RemovalOrder[i] \in wipe
          /\ \A j \in 1..(i - 1) : RemovalOrder[j] \notin wipe
          /\ RemoveFile(RemovalOrder[i])
        BY <1>6 DEF RemoveResetFile
  <2>2. RemovalOrder[i] = <<"journal", "meta">> => <<"state", "meta">> \notin wipe
    BY <2>1, JournalAfter
  <2>3. "state" \in meta' => "state" \in meta /\ state' = state
        BY <2>1 DEF RemoveFile
  <2>4. "journal" \in meta /\ "journal" \notin meta'
          => RemovalOrder[i] = <<"journal", "meta">>
    <3>1. RemovalOrder[i] \in Token BY <2>1
    <3> QED BY <2>1, <3>1 DEF RemoveFile, Token
  <2>5. live' \subseteq live /\ (journal' = journal \/ "tls" \notin
          journal'["tls"].before)
        BY <2>1 DEF RemoveFile, NoJournal, Txn
  <2>6. ~Running /\ ~Running' /\ op' = op /\ effects' = effects /\ op # "install"
        BY <1>6 DEF RemoveResetFile
  <2>7. DeepRecorded' /\ SnapshotInJournal'
    <3>1. "journal" \in meta \ meta' => journal' = NoJournal
          BY <2>1, <2>4 DEF RemoveFile
    <3> QED BY <2>3, <2>5, <2>6, <3>1 DEF NoJournal, Txn
  <2>8. StateHasJournal'
    <3>1. pc = "wipe" BY <1>6 DEF RemoveResetFile
    <3> QED BY <2>1, <2>2, <2>3, <2>4, <3>1
  <2>9. WipeOrder'
    <3>1. "state" \in meta' => RemovalOrder[i] # <<"state", "meta">>
          BY <2>1 DEF RemoveFile
    <3> QED BY <1>6, <2>1, <2>3, <3>1 DEF RemoveResetFile, RemoveFile
  <2>10. RollbackSafe' BY <2>5, <2>6
  <2>11. AfterIsOwn' BY <1>6 DEF RemoveResetFile
  <2> QED BY <2>6, <2>7, <2>8, <2>9, <2>10, <2>11
<1>7. CASE NothingToRemove BY <1>7 DEF NothingToRemove
<1> QED
  BY <1>1, <1>2, <1>3, <1>4, <1>5, <1>6, <1>7 DEF TeardownStep

\* finalize does, and the end of any command.
LEMMA RollbackEnds == RollbackInv /\ (FinalizeStep \/ Return \/ Interrupt) =>
  SafetyParts'
<1> SUFFICES ASSUME RollbackInv, FinalizeStep \/ Return \/ Interrupt PROVE
        SafetyParts'
    OBVIOUS
<1> USE DEF RollbackInv, SafetyParts, DeepRecorded, EarlyShallow, FirstStateReady,
        AfterIsOwn, FilesThere, StateHasJournal, WipeOrder, SnapshotInJournal,
        Agreed, RuntimeFirst, NextAfterRuntime, MemoryKeepsProgress, RollbackSafe,
        Deep, UnderWay, Running, Early, PastRuntime, server, disk, process,
        TypeOK, TypeServer, TypeDisk, TypeControl, TypeMemory, StateRecord,
        MemoryRecord, JournalRecord
<1>1. CASE FinalizeOk BY <1>1 DEF FinalizeOk
<1>2. CASE FinalizeFails BY <1>2 DEF FinalizeFails
<1>3. CASE Return BY <1>3 DEF Return, Stopped
<1>4. CASE Interrupt BY <1>4 DEF Interrupt, Stopped
<1> QED
  BY <1>1, <1>2, <1>3, <1>4 DEF FinalizeStep

\* So does the start of one.
LEMMA RollbackStart == RollbackInv /\ Start => SafetyParts'
<1> SUFFICES ASSUME RollbackInv, Start PROVE SafetyParts'
    OBVIOUS
<1> USE DEF RollbackInv, SafetyParts, DeepRecorded, EarlyShallow, FirstStateReady,
        AfterIsOwn, FilesThere, StateHasJournal, WipeOrder, SnapshotInJournal,
        Agreed, RuntimeFirst, NextAfterRuntime, MemoryKeepsProgress, RollbackSafe,
        Deep, UnderWay, Running, Early, PastRuntime, server, disk, process,
        TypeOK, TypeServer, TypeDisk, TypeControl, TypeMemory, StateRecord,
        MemoryRecord, JournalRecord
<1>1. CASE StartInstall BY <1>1 DEF StartInstall, Lock, InstallAllowed, Blank
<1>2. CASE StartResume BY <1>2 DEF StartResume, Loaded
<1>3. CASE StartRollback BY <1>3 DEF StartRollback, Lock, RollbackAllowed,
        WebRootOwnedOnly, AppMutationSteps
<1>4. CASE StartReset BY <1>4 DEF StartReset, Lock
<1>5. CASE StartFinalize BY <1>5 DEF StartFinalize, Lock
<1> QED
  BY <1>1, <1>2, <1>3, <1>4, <1>5 DEF Start


\* Every step of the specification preserves it.
LEMMA RollbackStep == RollbackInv /\ [Next]_vars => RollbackInv'
<1> SUFFICES ASSUME RollbackInv, [Next]_vars PROVE RollbackInv'
    OBVIOUS
<1>1. TypeOK' BY TypeStep DEF RollbackInv
<1>2. SafetyParts'
  <2>1. CASE Start BY <2>1, RollbackStart
  <2>2. CASE OrchestratorStep BY <2>2, RollbackOrchestrator
  <2>3. CASE TeardownStep BY <2>3, RollbackTeardown
  <2>4. CASE FinalizeStep \/ Return \/ Interrupt BY <2>4, RollbackEnds
  <2>5. CASE UNCHANGED vars
        BY <2>5 DEF vars, server, disk, process, RollbackInv, SafetyParts,
           DeepRecorded, EarlyShallow, FirstStateReady, AfterIsOwn, FilesThere,
           StateHasJournal, WipeOrder, SnapshotInJournal, Agreed, RuntimeFirst,
           NextAfterRuntime, MemoryKeepsProgress, RollbackSafe, Deep, UnderWay,
           Running
  <2> QED BY <2>1, <2>2, <2>3, <2>4, <2>5 DEF Next, Work
<1> QED BY <1>1, <1>2 DEF RollbackInv, SafetyParts

\* A rollback never starts, and never goes on, on a server that has the site's
\* database, the application or the HTTPS vhost, after any sequence of commands,
\* failures and interruptions.
THEOREM RollbackSafety == Spec => []RollbackSafe
<1>1. RollbackInv => RollbackSafe BY DEF RollbackInv, SafetyParts
<1> QED BY RollbackInit, RollbackStep, <1>1, PTL DEF Spec

\* No write of state.json forgets a finished step, in any run.
THEOREM ProgressIsKept == Spec => ProgressKept
<1>1. RollbackInv /\ [Next]_vars
        => [{"state"} \subseteq meta \cap meta' => state.done \subseteq
          state'.done]_vars
  <2> SUFFICES ASSUME RollbackInv, [Next]_vars, "state" \in meta, "state" \in meta'
               PROVE  state.done \subseteq state'.done
      OBVIOUS
  <2>1. CASE PersistState
        BY <2>1 DEF PersistState, At, RollbackInv, SafetyParts, MemoryKeepsProgress, UnderWay,
          Early
  <2>2. CASE WritePreparedState
        BY <2>2 DEF WritePreparedState, RollbackInv, SafetyParts, EarlyShallow, Early
  <2>3. CASE RemoveResetFile
        BY <2>3 DEF RemoveResetFile, RemoveFile
  <2>4. CASE StartFinalize \/ FinalizeStep
        BY <2>4 DEF StartFinalize, FinalizeStep, FinalizeOk, FinalizeFails,
           RollbackInv, TypeOK, TypeDisk, StateRecord, disk
  <2>5. CASE OrchestratorStep /\ ~PersistState /\ ~WritePreparedState
        BY <2>5 DEF OrchestratorStep, disk, Task, MakeLibDir, ReserveOwnedFiles,
          WriteConfigAndReport, RestoreUnfinished, BeginPackages,
          BeginTransaction, PersistOwned, PersistReport, InspectPackages,
          AptInstall, MakeEffect, WriteConf, WriteSide, SmokeAndRemoveProbe,
          StepFails, PackagesDone, PackagesFailed, StepApplied, TlsNotAttempted,
          Seal, UndoStep, NextInstallStep, NextResumeStep, Finish
  <2>6. CASE TeardownStep /\ ~RemoveResetFile
        BY <2>6 DEF TeardownStep, disk, DropDatabase, DeleteAccount, PurgeBegins,
           PurgeEnds, PurgeFails, NothingToRemove
  <2>7. CASE Return \/ Interrupt
        BY <2>7 DEF Return, Interrupt, disk
  <2>8. CASE StartInstall \/ StartResume \/ StartRollback \/ StartReset
        BY <2>8 DEF StartInstall, StartResume, StartRollback, StartReset, disk
  <2>9. CASE UNCHANGED vars
        BY <2>9 DEF vars, disk
  <2> QED BY <2>1, <2>2, <2>3, <2>4, <2>5, <2>6, <2>7, <2>8, <2>9
          DEF Next, Work, Start
<1>2. Init => RollbackInv BY RollbackInit
<1>3. RollbackInv /\ [Next]_vars => RollbackInv' BY RollbackStep
<1> QED BY <1>1, <1>2, <1>3, PTL DEF Spec, ProgressKept

---------------------------------------------------------------------------
\* The package baseline

\* The process that rewrites the report has the baseline it read there.
BaselineRemembered ==
    UnderWay /\ report.baseline # "none" => mem.baseline = report.baseline

\* A report that is gone has no baseline; install writes its first one only where
\* there is none.
NoReportNoBaseline == "report" \notin meta => report.baseline = "none"
FirstReport ==
    op = "install" =>
        /\ pc \in {"lib-dir", "reserve", "prepare"} => "report" \notin meta
        /\ pc = "first-state" => report.baseline = "none" /\ "report" \in meta
ReportThere == UnderWay => "report" \in meta

BaselineParts ==
    BaselineRemembered /\ NoReportNoBaseline /\ FirstReport /\ ReportThere

BaselineInv == RollbackInv /\ BaselineParts

\* There is no report at the start.
LEMMA BaselineInit == Init => BaselineInv
BY RollbackInit DEF Init, BaselineInv, BaselineParts, BaselineRemembered,
   NoReportNoBaseline, FirstReport, ReportThere, UnderWay, Running, NoReport

\* What install and resume do: the parts are preserved, and a baseline in the
\* report stays.
LEMMA BaselineOrchestrator ==
    BaselineInv /\ OrchestratorStep =>
        BaselineParts' /\ (report.baseline # "none" => report'.baseline = report.baseline)
<1> SUFFICES ASSUME BaselineInv, OrchestratorStep
             PROVE  /\ BaselineParts'
                    /\ report.baseline # "none" => report'.baseline = report.baseline
    OBVIOUS
<1> USE DEF BaselineInv, BaselineParts, BaselineRemembered, NoReportNoBaseline,
        FirstReport, ReportThere, RollbackInv, SafetyParts, AfterIsOwn, EarlyShallow,
        UnderWay, Running, Early, server, disk, process,
        TypeOK, TypeDisk, TypeMemory, TypeControl, ReportRecord, MemoryRecord
<1>1. CASE MakeLibDir BY <1>1 DEF MakeLibDir
<1>2. CASE ReserveOwnedFiles BY <1>2 DEF ReserveOwnedFiles
<1>3. CASE WriteConfigAndReport BY <1>3 DEF WriteConfigAndReport, NoReport
<1>4. CASE WritePreparedState BY <1>4 DEF WritePreparedState
<1>5. CASE RestoreUnfinished BY <1>5 DEF RestoreUnfinished
<1>6. CASE BeginPackages BY <1>6 DEF BeginPackages, At
<1>7. CASE BeginTransaction BY <1>7 DEF BeginTransaction, At
<1>8. CASE PersistOwned BY <1>8 DEF PersistOwned, At
<1>9. CASE PersistState BY <1>9 DEF PersistState, At
<1>10. CASE PersistReport
  <2>1. pc \notin Early /\ pc' \notin Early /\ op' = op /\ meta' = meta /\ mem' = mem
        BY <1>10 DEF PersistReport, At
  <2>2. report'.baseline = mem.baseline BY <1>10 DEF PersistReport
  <2>3. "report" \notin meta => report.baseline = "none" OBVIOUS
  <2> QED BY <1>10, <2>1, <2>2, <2>3 DEF PersistReport, At
<1>11. CASE InspectPackages BY <1>11 DEF InspectPackages, At, Task
<1>12. CASE AptInstall BY <1>12 DEF AptInstall, At, Task
<1>13. CASE MakeEffect BY <1>13, TaskStep DEF MakeEffect, At, Task
<1>14. CASE WriteConf BY <1>14 DEF WriteConf, At, Task
<1>15. CASE WriteSide BY <1>15 DEF WriteSide, At, Task
<1>16. CASE SmokeAndRemoveProbe BY <1>16 DEF SmokeAndRemoveProbe, At, Task
<1>17. CASE StepFails BY <1>17 DEF StepFails, At
<1>18. CASE PackagesDone BY <1>18 DEF PackagesDone, At
<1>19. CASE PackagesFailed BY <1>19 DEF PackagesFailed, At
<1>20. CASE StepApplied BY <1>20 DEF StepApplied, At
<1>21. CASE TlsNotAttempted BY <1>21 DEF TlsNotAttempted, At
<1>22. CASE Seal BY <1>22 DEF Seal, At
<1>23. CASE UndoStep BY <1>23 DEF UndoStep, At, RestoreFiles
<1>24. CASE NextInstallStep BY <1>24 DEF NextInstallStep
<1>25. CASE NextResumeStep BY <1>25 DEF NextResumeStep
<1>26. CASE Finish BY <1>26 DEF Finish, At
<1> QED
  BY <1>1, <1>2, <1>3, <1>4, <1>5, <1>6, <1>7, <1>8, <1>9, <1>10, <1>11, <1>12,
    <1>13, <1>14, <1>15, <1>16, <1>17, <1>18, <1>19, <1>20, <1>21, <1>22, <1>23,
    <1>24, <1>25, <1>26 DEF OrchestratorStep

\* rollback and reset do not write a report: they delete it.
LEMMA BaselineTeardown ==
    BaselineInv /\ TeardownStep =>
        BaselineParts' /\ (report.baseline # "none" /\ "report" \in meta'
                            => report'.baseline = report.baseline)
<1> SUFFICES ASSUME BaselineInv, TeardownStep
             PROVE  /\ BaselineParts'
                    /\ report.baseline # "none" /\ "report" \in meta'
                         => report'.baseline = report.baseline
    OBVIOUS
<1> USE DEF BaselineInv, BaselineParts, BaselineRemembered, NoReportNoBaseline,
        FirstReport, ReportThere, UnderWay, Running, server, disk, process
<1>1. CASE DropDatabase BY <1>1 DEF DropDatabase
<1>2. CASE DeleteAccount BY <1>2 DEF DeleteAccount
<1>3. CASE PurgeBegins BY <1>3 DEF PurgeBegins
<1>4. CASE PurgeEnds BY <1>4 DEF PurgeEnds
<1>5. CASE PurgeFails BY <1>5 DEF PurgeFails
<1>6. CASE RemoveResetFile
  <2>1. PICK i \in 1..Len(RemovalOrder) :
          RemovalOrder[i] \in wipe /\ RemoveFile(RemovalOrder[i])
        BY <1>6 DEF RemoveResetFile
  <2>2. RemovalOrder[i] \in Token
        BY <2>1 DEF RollbackInv, TypeOK, TypeMemory
  <2>3. CASE RemovalOrder[i] = <<"report", "meta">>
        BY <1>6, <2>1, <2>3 DEF RemoveResetFile, RemoveFile, NoReport
  <2>4. CASE RemovalOrder[i] # <<"report", "meta">>
    <3>1. report' = report BY <2>1, <2>4 DEF RemoveFile
    <3>2. "report" \in meta' <=> "report" \in meta
          BY <2>1, <2>2, <2>4 DEF RemoveFile, Token
    <3> QED BY <1>6, <3>1, <3>2 DEF RemoveResetFile
  <2> QED BY <2>3, <2>4
<1>7. CASE NothingToRemove BY <1>7 DEF NothingToRemove
<1> QED BY <1>1, <1>2, <1>3, <1>4, <1>5, <1>6, <1>7 DEF TeardownStep

\* Nothing else touches the report; a resume reads it.
LEMMA BaselineOthers ==
    BaselineInv /\ (Start \/ FinalizeStep \/ Return \/ Interrupt \/ UNCHANGED vars)
        => BaselineParts' /\ report' = report
<1> SUFFICES ASSUME BaselineInv,
                    Start \/ FinalizeStep \/ Return \/ Interrupt \/ UNCHANGED vars
             PROVE  BaselineParts' /\ report' = report
    OBVIOUS
<1> USE DEF BaselineInv, BaselineParts, BaselineRemembered, NoReportNoBaseline,
        FirstReport, ReportThere, UnderWay, Running, Early, server, disk, process
<1>1. CASE StartInstall BY <1>1 DEF StartInstall, Lock, InstallAllowed
<1>2. CASE StartResume BY <1>2 DEF StartResume, Loaded
<1>3. CASE StartRollback BY <1>3 DEF StartRollback, Lock
<1>4. CASE StartReset BY <1>4 DEF StartReset, Lock
<1>5. CASE StartFinalize BY <1>5 DEF StartFinalize, Lock
<1>6. CASE FinalizeStep BY <1>6 DEF FinalizeStep, FinalizeOk, FinalizeFails
<1>7. CASE Return \/ Interrupt BY <1>7 DEF Return, Interrupt, Stopped
<1>8. CASE UNCHANGED vars BY <1>8 DEF vars
<1> QED BY <1>1, <1>2, <1>3, <1>4, <1>5, <1>6, <1>7, <1>8 DEF Start

LEMMA BaselineStep ==
    BaselineInv /\ [Next]_vars =>
        BaselineInv' /\ (report.baseline # "none" /\ "report" \in meta'
                          => report'.baseline = report.baseline)
<1>1. BaselineInv /\ [Next]_vars => RollbackInv' BY RollbackStep DEF BaselineInv
<1> QED BY <1>1, BaselineOrchestrator, BaselineTeardown, BaselineOthers
        DEF Next, Work, BaselineInv

\* The first package baseline is kept through every failure, every retry and
\* every crash (InstallReport, persist_progress, resume).
THEOREM BaselineIsKept == Spec => FirstBaselineKept
<1>1. BaselineInv /\ [Next]_vars
        => [report.baseline # "none" /\ "report" \in meta'
              => report'.baseline = report.baseline]_vars
      BY BaselineStep
<1>2. BaselineInv /\ [Next]_vars => BaselineInv' BY BaselineStep
<1> QED BY BaselineInit, <1>1, <1>2, PTL DEF Spec, FirstBaselineKept

---------------------------------------------------------------------------
\* A command comes to an end: where each command can be

\* The writes of the progress.
Persisting == {"persist-owned", "persist-state", "persist-report"}
StepLabels == {"begin", "apply", "undo", "seal", "next", "return"} \cup Persisting

OwnLabel ==
    /\ op = "install" => pc \in Early \cup StepLabels
    /\ op = "resume" => pc \in {"restore"} \cup StepLabels
    /\ op = "rollback" => pc \in {"purge", "purging", "wipe", "return"}
    /\ op = "reset" => pc \in {"drop", "account", "purge", "purging", "wipe", "return"}
    /\ op = "finalize" => pc \in {"finalize", "return"}

\* What it does there, or once the progress is written.
Upcoming(l) == Running /\ (pc = l \/ (pc \in Persisting /\ after = l))

AfterWrites ==
    /\ Running /\ pc \in Persisting => after \in {"apply", "seal", "next", "return"}
    /\ Upcoming("seal") => \/ step = "vhost" /\ op = "install"
                           \/ pc = "seal" /\ step \in Txn /\ after = "next"
    /\ pc = "restore" => step \in Txn
TasksInOrder ==
    /\ At("apply") => at <= Len(Tasks[step]) + 1
    /\ Upcoming("apply") /\ (pc # "apply" \/ (step = "tls" /\ LocalTest)) => at = 1

\* resume has everything behind it that comes before its step, and the step
\* too once that is over: one that failed ends it, unless it was TLS.
ResumesInOrder ==
    op = "resume" /\ pc # "restore" =>
        (IF step \in PreTls THEN Before[step] ELSE PreTls) \subseteq mem.done
ResumePassed ==
    op = "resume" /\ (Upcoming("next") \/ pc = "seal") /\ step \in PreTls \ {"packages"} =>
        step \in mem.done

InPlace == OwnLabel /\ AfterWrites /\ TasksInOrder /\ ResumesInOrder /\ ResumePassed

LEMMA InPlaceInit == Init => InPlace
BY DEF Init, InPlace, OwnLabel, AfterWrites, TasksInOrder, ResumesInOrder, ResumePassed, Upcoming,
   Running, At

LEMMA InPlaceOrchestrator == TypeOK /\ InPlace /\ OrchestratorStep => InPlace'
<1> SUFFICES ASSUME TypeOK, InPlace, OrchestratorStep PROVE InPlace'
    OBVIOUS
<1>0. /\ op \in {"none", "install", "resume", "rollback", "reset", "finalize"}
      /\ step \in Step /\ at \in 1..4 /\ mem \in MemoryRecord
      /\ \A s \in Step : Len(Tasks[s]) \in {2, 3}
      BY TaskCount DEF TypeOK, TypeControl, TypeMemory
<1> USE <1>0 DEF InPlace, OwnLabel, AfterWrites, TasksInOrder, ResumesInOrder, ResumePassed,
        Upcoming, Running, At, Persisting, StepLabels, Early, MemoryRecord
<1>1. CASE MakeLibDir BY <1>1 DEF MakeLibDir
<1>2. CASE ReserveOwnedFiles BY <1>2 DEF ReserveOwnedFiles
<1>3. CASE WriteConfigAndReport BY <1>3 DEF WriteConfigAndReport
<1>4. CASE WritePreparedState BY <1>4 DEF WritePreparedState
<1>5. CASE RestoreUnfinished
      BY <1>5 DEF RestoreUnfinished, Before, PreTls, Step
<1>6. CASE BeginPackages BY <1>6 DEF BeginPackages
<1>7. CASE BeginTransaction BY <1>7 DEF BeginTransaction
<1>8. CASE PersistOwned BY <1>8 DEF PersistOwned
<1>9. CASE PersistState BY <1>9 DEF PersistState
<1>10. CASE PersistReport BY <1>10 DEF PersistReport
<1>11. CASE InspectPackages BY <1>11 DEF InspectPackages, Task
<1>12. CASE AptInstall BY <1>12 DEF AptInstall, Task
<1>13. CASE MakeEffect BY <1>13 DEF MakeEffect, Task
<1>14. CASE WriteConf BY <1>14 DEF WriteConf, Task
<1>15. CASE WriteSide BY <1>15 DEF WriteSide, Task
<1>16. CASE SmokeAndRemoveProbe BY <1>16 DEF SmokeAndRemoveProbe, Task
<1>17. CASE StepFails BY <1>17 DEF StepFails
<1>18. CASE PackagesDone BY <1>18 DEF PackagesDone
<1>19. CASE PackagesFailed BY <1>19 DEF PackagesFailed
<1>20. CASE StepApplied BY <1>20 DEF StepApplied
<1>21. CASE TlsNotAttempted BY <1>21 DEF TlsNotAttempted, PreTls, Txn
<1>22. CASE Seal BY <1>22 DEF Seal
<1>23. CASE UndoStep BY <1>23 DEF UndoStep, PreTls
<1>24. CASE NextInstallStep BY <1>24 DEF NextInstallStep
<1>25. CASE NextResumeStep
  <2>1. PICK s \in Step : ResumeStep(s) /\ step' = s
        BY <1>25 DEF NextResumeStep
  <2>2. /\ op = "resume" /\ op' = op /\ pc' = "begin" /\ mem' = mem
        BY <1>25 DEF NextResumeStep
  <2> QED BY <2>1, <2>2 DEF ResumeStep
<1>26. CASE Finish BY <1>26 DEF Finish
<1> QED
  BY <1>1, <1>2, <1>3, <1>4, <1>5, <1>6, <1>7, <1>8, <1>9, <1>10, <1>11, <1>12,
    <1>13, <1>14, <1>15, <1>16, <1>17, <1>18, <1>19, <1>20, <1>21, <1>22, <1>23,
    <1>24, <1>25, <1>26 DEF OrchestratorStep

LEMMA InPlaceOthers ==
    TypeOK /\ InPlace /\ (Start \/ TeardownStep \/ FinalizeStep \/ Return \/ Interrupt
                          \/ UNCHANGED vars)
        => InPlace'
<1> SUFFICES ASSUME TypeOK, InPlace,
                    Start \/ TeardownStep \/ FinalizeStep \/ Return \/ Interrupt
                    \/ UNCHANGED vars
             PROVE  InPlace'
    OBVIOUS
<1> USE DEF InPlace, OwnLabel, AfterWrites, TasksInOrder, ResumesInOrder, ResumePassed,
        Upcoming, Running, At, Persisting, StepLabels, Early
<1>1. CASE StartInstall BY <1>1 DEF StartInstall, Lock
<1>2. CASE StartResume
  <2>1. "packages" \in PreTls /\ Before["packages"] = {}
        BY DEF PreTls, Step, Before
  <2> QED BY <1>2, <2>1 DEF StartResume
<1>3. CASE StartRollback \/ StartReset \/ StartFinalize
      BY <1>3 DEF StartRollback, StartReset, StartFinalize, Lock
<1>4. CASE TeardownStep
  <2>1. CASE RemoveResetFile
    <3>1. /\ op \in {"rollback", "reset"} /\ op' = op /\ pc' \in {"wipe", "return"}
          BY <2>1 DEF RemoveResetFile, RemoveFile
    <3> QED BY <3>1
  <2> QED BY <1>4, <2>1 DEF TeardownStep, DropDatabase, DeleteAccount, PurgeBegins,
             PurgeEnds, PurgeFails, NothingToRemove
<1>5. CASE FinalizeStep BY <1>5 DEF FinalizeStep, FinalizeOk, FinalizeFails
<1>6. CASE Return \/ Interrupt BY <1>6 DEF Return, Interrupt, Stopped
<1>7. CASE UNCHANGED vars BY <1>7 DEF vars, process
<1> QED BY <1>1, <1>2, <1>3, <1>4, <1>5, <1>6, <1>7 DEF Start

LEMMA InPlaceStep == TypeOK /\ InPlace /\ [Next]_vars => InPlace'
BY InPlaceOrchestrator, InPlaceOthers DEF Next, Work

LEMMA InPlaceAlways == Spec => [](TypeOK /\ InPlace)
BY TypeInit, TypeStep, InPlaceInit, InPlaceStep, PTL DEF Spec

---------------------------------------------------------------------------
\* There is always a next step

\* The conditions under which a command's actions are possible: a step tries its
\* next task, fails where it runs a command or is refused, or is through.
CanTry ==
    \/ at \in CommandsAt[step] \/ TaskRefused
    \/ at <= Len(Tasks[step]) /\ Tasks[step][at] \in {"conf", "side"}
    \/ at = Len(Tasks[step]) + 1 /\ step \in Txn /\ (step = "tls" => "vhost" \in live)

CanRemove ==
    \E i \in 1..Len(RemovalOrder) :
        RemovalOrder[i] \in wipe /\ \A j \in 1..(i - 1) : RemovalOrder[j] \notin wipe

CanWork ==
    \/ op = "install" /\ pc \in Early
    \/ op = "resume" /\ pc = "restore" /\ step \in Txn
    \/ Running /\ pc \in {"begin", "undo", "seal"} \cup Persisting
    \/ At("apply") /\ (IF step = "tls" /\ LocalTest THEN at = 1 ELSE CanTry)
    \/ /\ op = "install" /\ pc = "next"
       /\ step = "app" \/ \E s \in Step : Before[s] = Before[step] \cup {step}
    \/ op = "resume" /\ pc = "next"
    \/ op = "reset" /\ pc \in {"drop", "account"}
    \/ op \in {"rollback", "reset"} /\ pc \in {"purge", "purging"}
    \/ op \in {"rollback", "reset"} /\ pc = "wipe" /\ (wipe = {} \/ CanRemove)
    \/ op = "finalize" /\ pc = "finalize"
    \/ op # "none" /\ pc = "return"

NeverStuck == op # "none" => CanWork

\* What is to be removed has its place in the order.
LEMMA RemovalPlace ==
    ASSUME NEW t \in Token
    PROVE  \E i \in 1..Len(RemovalOrder) : RemovalOrder[i] = t
<1>1. Len(RemovalOrder) = 13 BY DEF RemovalOrder
<1>2. /\ RemovalOrder[1] = <<"site", "conf">> /\ RemovalOrder[2] = <<"owned", "meta">>
      /\ RemovalOrder[3] = <<"state", "meta">> /\ RemovalOrder[4] = <<"journal", "meta">>
      /\ RemovalOrder[5] = <<"report", "meta">> /\ RemovalOrder[6] = <<"site", "side">>
      /\ RemovalOrder[7] = <<"runtime", "side">> /\ RemovalOrder[8] = <<"runtime", "conf">>
      BY DEF RemovalOrder
<1>3. /\ RemovalOrder[9] = <<"vhost", "conf">> /\ RemovalOrder[10] = <<"database", "conf">>
      /\ RemovalOrder[11] = <<"config", "meta">> /\ RemovalOrder[12] = <<"database", "side">>
      /\ RemovalOrder[13] = <<"dirs", "meta">>
      BY DEF RemovalOrder
<1>4. CASE t \in OwnedConf \X {"conf"} BY <1>1, <1>2, <1>3, <1>4 DEF OwnedConf
<1>5. CASE t \in Guarded \X {"side"} BY <1>1, <1>2, <1>3, <1>5 DEF Guarded
<1>6. CASE t \in Meta \X {"meta"} BY <1>1, <1>2, <1>3, <1>6 DEF Meta
<1> QED BY <1>4, <1>5, <1>6 DEF Token

\* The removals that are left, by their place.
Removals == {i \in 1..Len(RemovalOrder) : RemovalOrder[i] \in wipe}

LEMMA FirstRemoval ==
    ASSUME wipe \subseteq Token, wipe # {}
    PROVE  CanRemove
<1>1. Removals # {} /\ Removals \subseteq Nat
  <2>1. Len(RemovalOrder) \in Nat BY DEF RemovalOrder
  <2>2. PICK t : t \in wipe OBVIOUS
  <2>3. \E i \in 1..Len(RemovalOrder) : RemovalOrder[i] = t BY <2>2, RemovalPlace
  <2> QED BY <2>1, <2>2, <2>3 DEF Removals
<1>2. PICK i \in Removals : \A j \in Removals : ~(<<j, i>> \in OpToRel(<, Nat))
      BY <1>1, NatLessThanWellFounded, WFMin
<1>3. ASSUME NEW j \in 1..(i - 1) PROVE RemovalOrder[j] \notin wipe
  <2>1. i \in 1..Len(RemovalOrder) /\ Len(RemovalOrder) \in Nat
        BY DEF Removals, RemovalOrder
  <2>2. j \in 1..Len(RemovalOrder) /\ j < i BY <2>1
  <2>3. <<j, i>> \in OpToRel(<, Nat)
    <3>1. <<j, i>> \in Nat \X Nat /\ <<j, i>>[1] = j /\ <<j, i>>[2] = i
          BY <2>1, <2>2
    <3> QED BY <2>2, <3>1 DEF OpToRel
  <2> QED BY <1>2, <2>2, <2>3 DEF Removals
<1>4. i \in 1..Len(RemovalOrder) /\ RemovalOrder[i] \in wipe BY DEF Removals
<1> QED BY <1>3, <1>4 DEF CanRemove

\* Where no command is run a step's task writes a file, or the step is through.
LEMMA TriesAll ==
    ASSUME NEW s \in Step, NEW i \in 1..4, i <= Len(Tasks[s]) + 1
    PROVE  \/ i \in CommandsAt[s]
           \/ i <= Len(Tasks[s]) /\ Tasks[s][i] \in {"conf", "side"}
           \/ i = Len(Tasks[s]) + 1 /\ s = "vhost"
<1>1. Len(Tasks[s]) = IF s \in {"site", "database"} THEN 3 ELSE 2 BY TaskTotal
<1>0. \A n \in 1..4 : n \in {1, 2, 3, 4} OBVIOUS
<1>2. i \in {1, 2, 3, 4} /\ (i = 4 => s \in {"site", "database"})
  <2>1. i \in {1, 2, 3, 4} BY <1>0
  <2>2. ASSUME s \notin {"site", "database"} PROVE i # 4
        BY <1>1, <2>2
  <2> QED BY <2>1, <2>2
<1>3. /\ CommandsAt["packages"] = 1..3 /\ CommandsAt["site"] = {1, 2, 4}
      /\ CommandsAt["runtime"] = {1, 3} /\ CommandsAt["vhost"] = {1, 2}
      /\ CommandsAt["database"] = 1..4 /\ CommandsAt["tls"] = 1..3 /\ CommandsAt["app"] = 1..3
      BY DEF CommandsAt
<1>4. 1..3 = {1, 2, 3} /\ 1..4 = {1, 2, 3, 4} OBVIOUS
<1>5. Tasks["site"][3] = "conf" /\ Tasks["runtime"][2] = "side"
      BY DEF Tasks
<1>6. CASE s = "site" /\ i = 3 BY <1>1, <1>5, <1>6
<1>7. CASE s = "runtime" /\ i = 2 BY <1>1, <1>5, <1>7
<1>8. CASE s = "vhost" /\ i = 3 BY <1>1, <1>8
<1>9. CASE s \in {"packages", "database", "tls", "app"} BY <1>2, <1>3, <1>4, <1>9
<1>10. CASE (s = "site" /\ i # 3) \/ (s = "runtime" /\ i # 2) \/ (s = "vhost" /\ i # 3)
       BY <1>2, <1>3, <1>10
<1> QED BY <1>6, <1>7, <1>8, <1>9, <1>10 DEF Step, Txn

\* Theorem: while a command is under way it has a next step, whatever failed or
\* was found on the server: none waits for what does not come (orchestrator.rs,
\* rollback.rs, reset.rs, finalize.rs).
THEOREM NoCommandIsStuck == Spec => []NeverStuck
<1>1. TypeOK /\ InPlace => NeverStuck
  <2> SUFFICES ASSUME TypeOK, InPlace, op # "none" PROVE CanWork
      BY DEF NeverStuck
  <2>1. /\ op \in {"install", "resume", "rollback", "reset", "finalize"}
        /\ step \in Step /\ at \in 1..4 /\ wipe \subseteq Token
        BY DEF TypeOK, TypeControl, TypeMemory
  <2>2. At("apply") => (IF step = "tls" /\ LocalTest THEN at = 1 ELSE CanTry)
    <3> SUFFICES ASSUME At("apply"), ~(step = "tls" /\ LocalTest) PROVE CanTry
        BY DEF InPlace, TasksInOrder, Upcoming, At
    <3>1. at <= Len(Tasks[step]) + 1 BY DEF InPlace, TasksInOrder
    <3>2. "vhost" \in Txn /\ "vhost" # "tls" BY DEF Txn
    <3> QED BY <2>1, <3>1, <3>2, TriesAll DEF CanTry
  <2>3. step = "app" \/ \E s \in Step : Before[s] = Before[step] \cup {step}
    <3>1. CASE step = "packages" BY <3>1 DEF Before, Step, Txn
    <3>2. CASE step = "site" BY <3>2 DEF Before, Step, Txn
    <3>3. CASE step = "runtime" BY <3>3 DEF Before, Step, Txn
    <3>4. CASE step = "vhost" BY <3>4 DEF Before, Step, Txn
    <3>5. CASE step = "database" BY <3>5 DEF Before, Step, Txn
    <3>6. CASE step = "tls" BY <3>6 DEF Before, Step, Txn
    <3> QED BY <2>1, <3>1, <3>2, <3>3, <3>4, <3>5, <3>6 DEF Step, Txn
  <2>4. wipe = {} \/ CanRemove BY <2>1, FirstRemoval
  <2>5. OwnLabel /\ (pc = "restore" => step \in Txn) BY DEF InPlace, AfterWrites
  <2>6. CASE op = "install"
        BY <2>2, <2>3, <2>5, <2>6 DEF OwnLabel, CanWork, Running, At, StepLabels, Persisting
  <2>7. CASE op = "resume"
        BY <2>2, <2>5, <2>7 DEF OwnLabel, CanWork, Running, At, StepLabels, Persisting
  <2>8. CASE op \in {"rollback", "reset", "finalize"}
        BY <2>4, <2>5, <2>8 DEF OwnLabel, CanWork
  <2> QED BY <2>1, <2>6, <2>7, <2>8
<1> QED BY <1>1, InPlaceAlways, PTL

---------------------------------------------------------------------------
\* How much is left to do

\* The steps that install and resume may still begin, by their order.
Ord == [packages |-> 0, site |-> 1, runtime |-> 2, vhost |-> 3, database |-> 4,
        tls |-> 5, app |-> 6]
NothingTried ==
    op = "resume" /\ Upcoming("next") /\ step = "packages" /\ "packages" \notin mem.done
NotBegun == pc \in Early \cup {"restore"} \/ NothingTried
StepsLeft == IF NotBegun THEN 7 ELSE 6 - Ord[step]

\* What is left to do of a step.
Height(l) ==
    CASE l = "lib-dir" -> 35 [] l = "reserve" -> 34 [] l = "prepare" -> 33
      [] l = "first-state" -> 32 [] l = "restore" -> 31 [] l = "begin" -> 30
      [] l = "apply" -> 24 [] l = "undo" -> 14 [] l = "seal" -> 9 [] l = "next" -> 5
      [] OTHER -> 1
PlaceLeft ==
    CASE pc = "apply" -> Height(pc) - at
      [] pc = "persist-owned" -> Height(after) + 3
      [] pc = "persist-state" -> Height(after) + 2
      [] pc = "persist-report" -> Height(after) + 1
      [] OTHER -> Height(pc)
RunLeft == 40 * StepsLeft + PlaceLeft

TeardownLeft ==
    CASE pc = "drop" -> Len(RemovalOrder) + 6
      [] pc = "account" -> Len(RemovalOrder) + 5
      [] pc = "purge" -> Len(RemovalOrder) + 4
      [] pc = "purging" -> Len(RemovalOrder) + 3
      [] pc = "wipe" -> Cardinality(Removals) + 2
      [] OTHER -> 1

Left ==
    IF Running THEN RunLeft
    ELSE IF op \in {"rollback", "reset"} THEN TeardownLeft
    ELSE IF op = "finalize" /\ pc = "finalize" THEN 2 ELSE 1

LEMMA OrdNat == ASSUME NEW s \in Step PROVE Ord[s] \in Nat /\ Ord[s] <= 6
BY DEF Ord, Step, Txn

LEMMA HeightNat == \A l : Height(l) \in Nat /\ 1 <= Height(l) /\ Height(l) <= 35
BY DEF Height

LEMMA StepsNat == TypeOK => StepsLeft \in Nat
<1> SUFFICES ASSUME TypeOK PROVE StepsLeft \in Nat OBVIOUS
<1>1. step \in Step BY DEF TypeOK, TypeControl
<1> QED BY <1>1, OrdNat DEF StepsLeft

LEMMA PlaceNat == TypeOK => PlaceLeft \in Nat /\ PlaceLeft < 40
<1> SUFFICES ASSUME TypeOK PROVE PlaceLeft \in Nat /\ PlaceLeft < 40 OBVIOUS
<1>1. at \in Int /\ 1 <= at /\ at <= 4 BY DEF TypeOK, TypeControl
<1>2. CASE pc = "apply"
  <2>1. PlaceLeft = 24 - at BY <1>2 DEF PlaceLeft, Height
  <2> QED BY <1>1, <2>1
<1>3. CASE pc \in Persisting
  <2> DEFINE h == Height(after)
  <2>1. PlaceLeft \in {h + 1, h + 2, h + 3} BY <1>3 DEF PlaceLeft, Persisting
  <2>2. h \in Nat /\ h <= 35 BY HeightNat
  <2> HIDE DEF h
  <2> QED BY <2>1, <2>2
<1>4. CASE pc \notin {"apply"} \cup Persisting
  <2> DEFINE h == Height(pc)
  <2>1. PlaceLeft = h BY <1>4 DEF PlaceLeft, Persisting
  <2>2. h \in Nat /\ h <= 35 BY HeightNat
  <2> HIDE DEF h
  <2> QED BY <2>1, <2>2
<1> QED BY <1>2, <1>3, <1>4

\* While a step goes on no more steps are left than before.
LEMMA SameStep ==
    ASSUME TypeOK, step' = step, NotBegun' => NotBegun
    PROVE  StepsLeft' <= StepsLeft
<1>1. step \in Step BY DEF TypeOK, TypeControl
<1>2. Ord[step] \in Nat /\ Ord[step] <= 6 BY <1>1, OrdNat
<1>3. CASE NotBegun
  <2>1. StepsLeft = 7 BY <1>3 DEF StepsLeft
  <2>2. StepsLeft' = 7 \/ StepsLeft' = 6 - Ord[step] BY DEF StepsLeft
  <2> QED BY <1>2, <2>1, <2>2
<1>4. CASE ~NotBegun
  <2>1. StepsLeft = 6 - Ord[step] /\ StepsLeft' = 6 - Ord[step] BY <1>4 DEF StepsLeft
  <2> QED BY <1>2, <2>1
<1> QED BY <1>3, <1>4

\* Writing the progress leaves what is done after it.
LEMMA WritesFall ==
    ASSUME TypeOK, InPlace, PersistOwned \/ PersistState \/ PersistReport
    PROVE  Running /\ op' = op /\ StepsLeft' <= StepsLeft /\ PlaceLeft' < PlaceLeft
<1>1. /\ Running /\ UNCHANGED <<op, step, at, after, mem>> /\ pc \in Persisting
      /\ after \in {"apply", "seal", "next", "return"}
      BY DEF PersistOwned, PersistState, PersistReport, At, InPlace, AfterWrites, Persisting
<1>2. pc' \in Persisting \cup {after} /\ pc' \notin Early \cup {"restore"}
      BY <1>1 DEF PersistOwned, PersistState, PersistReport, Persisting, Early
<1>3. StepsLeft' <= StepsLeft
  <2>1. NothingTried' => NothingTried
        BY <1>1, <1>2 DEF NothingTried, Upcoming, Running, Persisting
  <2> QED BY <1>1, <1>2, <2>1, SameStep DEF NotBegun
<1>4. PlaceLeft' < PlaceLeft
  <2> DEFINE h == Height(after)
  <2>1. h \in Nat BY HeightNat
  <2>2. CASE PersistOwned
    <3>1. PlaceLeft = h + 3 /\ PlaceLeft' = h + 2
          BY <1>1, <2>2 DEF PersistOwned, At, PlaceLeft
    <3> HIDE DEF h
    <3> QED BY <2>1, <3>1
  <2>3. CASE PersistState
    <3>1. PlaceLeft = h + 2 /\ PlaceLeft' = h + 1
          BY <1>1, <2>3 DEF PersistState, At, PlaceLeft
    <3> HIDE DEF h
    <3> QED BY <2>1, <3>1
  <2>4. CASE PersistReport /\ after = "apply"
    <3>1. PlaceLeft = 25 /\ PlaceLeft' = 24 - at
          BY <1>1, <2>4 DEF PersistReport, At, PlaceLeft, Height
    <3>2. at \in Nat BY DEF TypeOK, TypeControl
    <3> QED BY <3>1, <3>2
  <2>5. CASE PersistReport /\ after # "apply"
    <3>1. PlaceLeft = h + 1 /\ PlaceLeft' = h
          BY <1>1, <2>5 DEF PersistReport, At, PlaceLeft
    <3> HIDE DEF h
    <3> QED BY <2>1, <3>1
  <2> QED BY <2>2, <2>3, <2>4, <2>5
<1> QED BY <1>1, <1>3, <1>4

\* Up to the beginning of a step.
LEMMA BeginningsFall ==
    ASSUME TypeOK, InPlace,
           \/ MakeLibDir \/ ReserveOwnedFiles \/ WriteConfigAndReport \/ WritePreparedState
           \/ RestoreUnfinished \/ BeginPackages \/ BeginTransaction
    PROVE  Running /\ op' = op /\ StepsLeft' <= StepsLeft /\ PlaceLeft' < PlaceLeft
<1>1. CASE \/ MakeLibDir \/ ReserveOwnedFiles \/ WriteConfigAndReport \/ WritePreparedState
           \/ RestoreUnfinished
  <2>1. /\ Running /\ op' = op /\ pc \in Early \cup {"restore"} /\ step' \in Step
        /\ \/ step' = step \/ pc \in {"first-state", "restore"}
        BY <1>1 DEF MakeLibDir, ReserveOwnedFiles, WriteConfigAndReport, WritePreparedState,
           RestoreUnfinished, Running, Early, Step, TypeOK, TypeControl
  <2>2. StepsLeft' <= StepsLeft
    <3>1. StepsLeft = 7 BY <2>1 DEF StepsLeft, NotBegun
    <3>2. StepsLeft' = 7 \/ StepsLeft' = 6 - Ord[step'] BY DEF StepsLeft
    <3>3. Ord[step'] \in Nat BY <2>1, OrdNat
    <3> QED BY <3>1, <3>2, <3>3
  <2>3. CASE RestoreUnfinished
    <3>1. pc = "restore" /\ pc' \in {"persist-owned", "return"} /\ after' = "next"
          BY <2>3 DEF RestoreUnfinished
    <3>2. PlaceLeft = 31 /\ PlaceLeft' \in {8, 1}
          BY <3>1 DEF PlaceLeft, Height
    <3> QED BY <2>1, <2>2, <3>2
  <2>4. CASE MakeLibDir \/ ReserveOwnedFiles \/ WriteConfigAndReport \/ WritePreparedState
    <3>1. PlaceLeft' < PlaceLeft
          BY <2>4 DEF MakeLibDir, ReserveOwnedFiles, WriteConfigAndReport,
             WritePreparedState, PlaceLeft, Height
    <3> QED BY <2>1, <2>2, <3>1
  <2> QED BY <1>1, <2>3, <2>4
<1>2. CASE BeginPackages \/ BeginTransaction
  <2>1. /\ Running /\ op' = op /\ step' = step /\ pc = "begin" /\ pc' = "persist-owned"
        /\ after' = "apply"
        BY <1>2 DEF BeginPackages, BeginTransaction, At
  <2>2. ~NotBegun'
        BY <2>1 DEF NotBegun, NothingTried, Upcoming, Early
  <2>3. PlaceLeft = 30 /\ PlaceLeft' = 27 BY <2>1 DEF PlaceLeft, Height
  <2> QED BY <2>1, <2>2, <2>3, SameStep
<1> QED BY <1>1, <1>2

\* A task, or its failure.
LEMMA TasksFall ==
    ASSUME TypeOK, InPlace,
           \/ \E t \in {"inspect", "apt", "account", "sql", "certificate", "source", "conf",
                        "side", "smoke"} : Task(t)
           \/ StepFails
    PROVE  Running /\ op' = op /\ StepsLeft' <= StepsLeft /\ PlaceLeft' < PlaceLeft
<1>1. /\ Running /\ op' = op /\ step' = step /\ after' = after /\ pc = "apply"
      /\ pc' \in {"apply", "undo"} /\ at \in Nat /\ at <= 4
      BY DEF Task, StepFails, At, TypeOK, TypeControl
<1>2. ~NotBegun'
      BY <1>1 DEF NotBegun, NothingTried, Upcoming, Early, Persisting
<1>3. PlaceLeft = 24 - at BY <1>1 DEF PlaceLeft, Height
<1>4. CASE StepFails
  <2>1. pc' = "undo" BY <1>4 DEF StepFails
  <2>2. PlaceLeft' = 14 BY <2>1 DEF PlaceLeft, Height
  <2> QED BY <1>1, <1>2, <1>3, <2>2, SameStep
<1>5. ASSUME NEW t, Task(t) PROVE PlaceLeft' < PlaceLeft
  <2>1. at' = at + 1 /\ pc' = "apply" BY <1>1, <1>5 DEF Task
  <2>2. PlaceLeft' = 24 - at' BY <2>1 DEF PlaceLeft, Height
  <2> QED BY <1>1, <1>3, <2>1, <2>2
<1> QED BY <1>1, <1>2, <1>4, <1>5, SameStep

\* The two ends of a step, and of the command.
LEMMA EndsFall ==
    ASSUME TypeOK, InPlace,
           \/ PackagesDone \/ PackagesFailed \/ StepApplied \/ TlsNotAttempted
           \/ Seal \/ UndoStep \/ Finish
    PROVE  Running /\ op' = op /\ StepsLeft' <= StepsLeft /\ PlaceLeft' < PlaceLeft
<1>1. /\ Running /\ op' = op /\ step' = step /\ at \in Nat /\ at <= 4
      /\ pc \in {"apply", "undo", "seal", "next"} /\ pc' \notin Early \cup {"restore"}
      BY DEF PackagesDone, PackagesFailed, StepApplied, TlsNotAttempted, Seal, UndoStep, Finish,
         At, TypeOK, TypeControl, Early
<1>2. NotBegun' => NotBegun
  <2> SUFFICES ASSUME NothingTried' PROVE NothingTried
      BY <1>1 DEF NotBegun
  <2>1. /\ op = "resume" /\ step = "packages" /\ "packages" \notin mem'.done
        /\ pc' = "next" \/ after' = "next"
        BY <1>1 DEF NothingTried, Upcoming
  <2>2. ASSUME PackagesDone PROVE FALSE
    <3>1. mem \in MemoryRecord BY DEF TypeOK, TypeMemory
    <3>2. mem' = [mem EXCEPT !.phase = "packages-installed", !.current = "none",
                            !.done = mem.done \cup {"packages"}, !.tls = FALSE]
          BY <2>2 DEF PackagesDone
    <3>3. "packages" \in mem'.done BY <3>1, <3>2 DEF MemoryRecord
    <3> QED BY <2>1, <3>3
  <2>3. ~PackagesFailed /\ ~Finish BY <2>1 DEF PackagesFailed, Finish
  <2>4. ~StepApplied /\ ~TlsNotAttempted /\ ~UndoStep
        BY <2>1 DEF StepApplied, TlsNotAttempted, UndoStep, Txn
  <2>5. ~Seal
        BY <2>1 DEF Seal, InPlace, AfterWrites, Upcoming, At, Txn
  <2> QED BY <2>2, <2>3, <2>4, <2>5
<1>3. PlaceLeft' < PlaceLeft
  <2>1. CASE PackagesDone \/ StepApplied \/ TlsNotAttempted
    <3>1. pc = "apply" BY <2>1 DEF PackagesDone, StepApplied, TlsNotAttempted, At
    <3>2. PlaceLeft = 24 - at BY <3>1 DEF PlaceLeft, Height
    <3>3. \/ pc' = "persist-owned" /\ after' \in {"next", "seal"}
          \/ pc' = "seal"
          BY <2>1 DEF PackagesDone, StepApplied, TlsNotAttempted
    <3>4. PlaceLeft' \in {8, 12, 9} BY <3>3 DEF PlaceLeft, Height
    <3> QED BY <1>1, <3>2, <3>4
  <2>2. CASE PackagesFailed \/ UndoStep
    <3>1. /\ pc = "undo" /\ pc' = "persist-owned" /\ after' \in {"next", "return"}
          BY <2>2 DEF PackagesFailed, UndoStep, At
    <3>2. PlaceLeft = 14 /\ PlaceLeft' \in {8, 4} BY <3>1 DEF PlaceLeft, Height
    <3> QED BY <3>2
  <2>3. CASE Seal
    <3>1. /\ pc = "seal" /\ after' = after
          /\ pc' \in {"next", "persist-owned"}
          /\ op = "install" /\ step = "vhost" => pc' = "next"
      <4>1. op = "install" /\ step = "vhost" => <<op, step>> = <<"install", "vhost">>
            OBVIOUS
      <4> QED BY <2>3, <4>1, Zenon DEF Seal, At
    <3>2. pc' = "persist-owned" => after = "next"
          BY <1>1, <3>1 DEF InPlace, AfterWrites, Upcoming
    <3>3. PlaceLeft = 9 /\ PlaceLeft' \in {5, 8} BY <3>1, <3>2 DEF PlaceLeft, Height
    <3> QED BY <3>3
  <2>4. CASE Finish
    <3>1. pc = "next" /\ pc' = "persist-owned" /\ after' = "return"
          BY <2>4 DEF Finish, At
    <3>2. PlaceLeft = 5 /\ PlaceLeft' = 4 BY <3>1 DEF PlaceLeft, Height
    <3> QED BY <3>2
  <2> QED BY <2>1, <2>2, <2>3, <2>4
<1> QED BY <1>1, <1>2, <1>3, SameStep

\* The next step comes after those that have been begun: no step is begun twice,
\* TLS neither, which resume goes on after.
LEMMA NextFalls ==
    ASSUME TypeOK, InPlace, NextInstallStep \/ NextResumeStep
    PROVE  Running /\ op' = op /\ StepsLeft' < StepsLeft
<1>1. /\ Running /\ op' = op /\ pc = "next" /\ pc' = "begin" /\ step \in Step /\ step' \in Step
      BY DEF NextInstallStep, NextResumeStep, Running, TypeOK, TypeControl
<1>2. StepsLeft' = 6 - Ord[step']
      BY <1>1 DEF StepsLeft, NotBegun, NothingTried, Upcoming, Early, Persisting
<1>3. /\ Ord[step] \in Nat /\ Ord[step] <= 6 /\ Ord[step'] \in Nat /\ Ord[step'] <= 6
      BY <1>1, OrdNat
<1>4. CASE NextInstallStep
  <2>1. op = "install" /\ Before[step'] = Before[step] \cup {step}
        BY <1>4 DEF NextInstallStep
  <2>2. Ord[step] < Ord[step']
        BY <1>1, <2>1 DEF Before, Ord, Step, Txn
  <2>3. StepsLeft = 6 - Ord[step]
        BY <1>1, <2>1 DEF StepsLeft, NotBegun, NothingTried, Early
  <2> QED BY <1>1, <1>2, <1>3, <2>2, <2>3
<1>5. CASE NextResumeStep
  <2>1. op = "resume" /\ ResumeStep(step')
        BY <1>5 DEF NextResumeStep
  <2>2. CASE NothingTried
    <3>1. StepsLeft = 7 BY <2>2 DEF StepsLeft, NotBegun
    <3> QED BY <1>1, <1>2, <1>3, <3>1
  <2>3. CASE ~NothingTried
    <3>1. StepsLeft = 6 - Ord[step]
          BY <1>1, <2>1, <2>3 DEF StepsLeft, NotBegun, Early
    <3>2. /\ step \in PreTls => step \in mem.done /\ Before[step] \subseteq mem.done
          /\ step \notin PreTls => PreTls \subseteq mem.done
          BY <1>1, <2>1, <2>3 DEF InPlace, ResumesInOrder, ResumePassed, Upcoming, NothingTried
    <3>3. CASE step' \in PreTls
      <4>1. step' \notin mem.done BY <2>1, <3>3 DEF ResumeStep
      <4>2. step \in PreTls /\ step' \notin Before[step] \cup {step}
            BY <3>2, <3>3, <4>1
      <4>3. Ord[step] < Ord[step']
            BY <3>3, <4>2 DEF Before, Ord, PreTls, Step, Txn
      <4> QED BY <1>1, <1>2, <1>3, <3>1, <4>3
    <3>4. CASE step' \notin PreTls
      <4>1. IF step' = "tls" THEN step \notin {"tls", "app"} ELSE step # "app"
            BY <2>1, <3>4 DEF ResumeStep
      <4>2. Ord[step] < Ord[step']
            BY <1>1, <3>4, <4>1 DEF Ord, PreTls, Step, Txn
      <4> QED BY <1>1, <1>2, <1>3, <3>1, <4>2
    <3> QED BY <3>3, <3>4
  <2> QED BY <2>2, <2>3
<1> QED BY <1>4, <1>5

\* A step of install or resume leaves less to do.
LEMMA Smaller ==
    \A s, p, x, y \in Nat :
        p < 40 /\ y < 40 /\ ((x <= s /\ y < p) \/ x < s) => 40 * x + y < 40 * s + p
OBVIOUS

LEMMA OrchestratorFalls ==
    ASSUME TypeOK, TypeOK', InPlace, OrchestratorStep
    PROVE  op' = op /\ Left' < Left
<1>1. /\ Running /\ op' = op
      /\ (StepsLeft' <= StepsLeft /\ PlaceLeft' < PlaceLeft) \/ StepsLeft' < StepsLeft
  <2>1. CASE \/ MakeLibDir \/ ReserveOwnedFiles \/ WriteConfigAndReport \/ WritePreparedState
             \/ RestoreUnfinished \/ BeginPackages \/ BeginTransaction
        BY <2>1, BeginningsFall
  <2>2. CASE PersistOwned \/ PersistState \/ PersistReport BY <2>2, WritesFall
  <2>3. CASE \/ InspectPackages \/ AptInstall \/ MakeEffect \/ WriteConf \/ WriteSide
             \/ SmokeAndRemoveProbe \/ StepFails
    <3>1. \/ \E t \in {"inspect", "apt", "account", "sql", "certificate", "source", "conf",
                       "side", "smoke"} : Task(t)
          \/ StepFails
          BY <2>3 DEF InspectPackages, AptInstall, MakeEffect, WriteConf, WriteSide,
             SmokeAndRemoveProbe
    <3> QED BY <3>1, TasksFall
  <2>4. CASE \/ PackagesDone \/ PackagesFailed \/ StepApplied \/ TlsNotAttempted
             \/ Seal \/ UndoStep \/ Finish
        BY <2>4, EndsFall
  <2>5. CASE NextInstallStep \/ NextResumeStep BY <2>5, NextFalls
  <2> QED BY <2>1, <2>2, <2>3, <2>4, <2>5 DEF OrchestratorStep
<1>2. StepsLeft \in Nat /\ PlaceLeft \in Nat /\ PlaceLeft < 40 BY StepsNat, PlaceNat
<1>3. /\ (TypeOK => StepsLeft \in Nat)'
      /\ (TypeOK => PlaceLeft \in Nat /\ PlaceLeft < 40)'
      BY StepsNat, PlaceNat, PTL
<1>4. 40 * StepsLeft' + PlaceLeft' < 40 * StepsLeft + PlaceLeft
      BY <1>1, <1>2, <1>3, Smaller, Zenon
<1>5. Left = 40 * StepsLeft + PlaceLeft /\ Left' = 40 * StepsLeft' + PlaceLeft'
      BY <1>1, Zenon DEF Left, RunLeft, Running
<1> QED BY <1>1, <1>4, <1>5, Zenon

---------------------------------------------------------------------------
\* What is left of a rollback, a reset or a finalize

LEMMA RemovalsFinite ==
    IsFiniteSet(Removals) /\ Cardinality(Removals) \in Nat /\ Cardinality(Removals) <= 13
<1> DEFINE All == 1..Len(RemovalOrder)
<1>1. IsFiniteSet(All) /\ Cardinality(All) = 13
  <2>1. Len(RemovalOrder) = 13 BY DEF RemovalOrder
  <2>2. ASSUME NEW n \in Nat, n > 0
        PROVE  IsFiniteSet(1..n) /\ Cardinality(1..n) = n
        BY <2>2, FS_Interval
  <2>3. Len(RemovalOrder) \in Nat /\ Len(RemovalOrder) > 0 BY <2>1
  <2> QED BY <2>1, <2>2, <2>3, Zenon
<1>2. Removals \subseteq All BY DEF Removals
<1> HIDE DEF All
<1>3. IsFiniteSet(Removals) /\ Cardinality(Removals) <= Cardinality(All)
      BY <1>1, <1>2, FS_Subset
<1>4. Cardinality(Removals) \in Nat BY <1>3, FS_CardinalityType
<1> QED BY <1>1, <1>3, <1>4

\* A file that is removed is one less to remove.
LEMMA RemovalFalls ==
    ASSUME RemoveResetFile
    PROVE  Cardinality(Removals') < Cardinality(Removals)
<1>1. PICK i \in 1..Len(RemovalOrder) :
          RemovalOrder[i] \in wipe /\ wipe' = wipe \ {RemovalOrder[i]}
      BY DEF RemoveResetFile, RemoveFile
<1>2. i \in Removals BY <1>1 DEF Removals
<1>3. Removals' \subseteq Removals \ {i} BY <1>1 DEF Removals
<1>4. IsFiniteSet(Removals) BY RemovalsFinite
<1>5. IsFiniteSet(Removals \ {i}) /\ Cardinality(Removals \ {i}) = Cardinality(Removals) - 1
      BY <1>2, <1>4, FS_RemoveElement
<1>6. IsFiniteSet(Removals') /\ Cardinality(Removals') <= Cardinality(Removals \ {i})
      BY <1>3, <1>5, FS_Subset
<1>7. Cardinality(Removals) \in Nat /\ Cardinality(Removals') \in Nat
      BY <1>4, <1>6, FS_CardinalityType
<1> QED BY <1>5, <1>6, <1>7

LEMMA TeardownFalls ==
    ASSUME InPlace, TeardownStep
    PROVE  op' = op /\ Left' < Left
<1>1. op \in {"rollback", "reset"} /\ op' = op
      BY DEF TeardownStep, DropDatabase, DeleteAccount, PurgeBegins, PurgeEnds, PurgeFails,
         RemoveResetFile, NothingToRemove
<1>2. Left = TeardownLeft /\ Left' = TeardownLeft'
      BY <1>1 DEF Left, Running
<1>3. Len(RemovalOrder) = 13 BY DEF RemovalOrder
<1> DEFINE card == Cardinality(Removals)
<1>4. card \in Nat /\ card <= 13 BY RemovalsFinite
<1>5. card' \in Nat /\ card' <= 13
  <2>1. (IsFiniteSet(Removals) /\ Cardinality(Removals) \in Nat
         /\ Cardinality(Removals) <= 13)'
        BY RemovalsFinite, PTL
  <2> QED BY <2>1
<1>6. RemoveResetFile => card' < card BY RemovalFalls
<1>7. /\ pc = "wipe" => TeardownLeft = card + 2
      /\ pc' = "wipe" => TeardownLeft' = card' + 2
      /\ pc' = "return" => TeardownLeft' = 1
      BY DEF TeardownLeft
<1> HIDE DEF card
<1>8. TeardownLeft' < TeardownLeft
  <2>1. CASE DropDatabase \/ DeleteAccount \/ PurgeBegins \/ PurgeFails
        BY <2>1, <1>3 DEF DropDatabase, DeleteAccount, PurgeBegins, PurgeFails, TeardownLeft
  <2>2. CASE PurgeEnds
    <3>1. pc = "purging" /\ pc' = "wipe" BY <2>2 DEF PurgeEnds
    <3>2. TeardownLeft = 16 BY <1>3, <3>1 DEF TeardownLeft
    <3>3. \A c \in Nat : c <= 13 => c + 2 < 16 OBVIOUS
    <3> QED BY <1>5, <1>7, <3>1, <3>2, <3>3, Zenon
  <2>3. CASE RemoveResetFile
    <3>1. pc = "wipe" /\ pc' \in {"wipe", "return"}
          BY <2>3 DEF RemoveResetFile, RemoveFile
    <3> QED BY <1>4, <1>5, <1>6, <1>7, <2>3, <3>1
  <2>4. CASE NothingToRemove
    <3>1. pc = "wipe" /\ pc' = "return" BY <2>4 DEF NothingToRemove
    <3> QED BY <1>4, <1>7, <3>1
  <2> QED BY <2>1, <2>2, <2>3, <2>4 DEF TeardownStep
<1> QED BY <1>1, <1>2, <1>8

LEMMA LeftNat == TypeOK => Left \in Nat
<1> SUFFICES ASSUME TypeOK PROVE Left \in Nat OBVIOUS
<1>1. StepsLeft \in Nat /\ PlaceLeft \in Nat BY StepsNat, PlaceNat
<1>2. RunLeft \in Nat
  <2>1. \A a, b \in Nat : 40 * a + b \in Nat OBVIOUS
  <2> QED BY <1>1, <2>1, Zenon DEF RunLeft
<1>3. TeardownLeft \in Nat
  <2>1. Len(RemovalOrder) = 13 BY DEF RemovalOrder
  <2> QED BY <2>1, RemovalsFinite DEF TeardownLeft
<1> QED BY <1>2, <1>3 DEF Left

\* Theorem: every step of a command leaves less of it to do than there was, by a
\* number that is natural in every state, until the lock is free: seven steps are
\* begun at most, none twice, TLS neither when it is put off, and a teardown
\* removes each path once (orchestrator.rs, rollback.rs, reset.rs, finalize.rs).
THEOREM CommandsRunOut ==
    Spec => /\ [](Left \in Nat)
            /\ [][op # "none" => op' = "none" \/ Left' < Left]_vars
<1>1. /\ TypeOK => Left \in Nat
      /\ TypeOK /\ TypeOK' /\ InPlace /\ [Next]_vars
         => [op # "none" => op' = "none" \/ Left' < Left]_vars
  <2>1. SUFFICES ASSUME TypeOK, TypeOK', InPlace, Next, op # "none"
                 PROVE  op' = "none" \/ Left' < Left
        BY LeftNat
  <2>2. ASSUME Start PROVE FALSE
        BY <2>1, <2>2 DEF Start, StartInstall, StartResume, StartRollback, StartReset,
           StartFinalize, Lock
  <2>3. CASE OrchestratorStep BY <2>1, <2>3, OrchestratorFalls
  <2>4. CASE TeardownStep BY <2>1, <2>4, TeardownFalls
  <2>5. CASE FinalizeStep
    <3>1. op = "finalize" /\ op' = op /\ pc = "finalize" /\ pc' = "return"
          BY <2>5 DEF FinalizeStep, FinalizeOk, FinalizeFails
    <3>2. Left = 2 /\ Left' = 1 BY <3>1 DEF Left, Running
    <3> QED BY <3>2
  <2>6. CASE Return \/ Interrupt BY <2>6 DEF Return, Interrupt, Stopped
  <2> QED BY <2>1, <2>2, <2>3, <2>4, <2>5, <2>6 DEF Next, Work
<1> QED BY <1>1, InPlaceAlways, PTL DEF Spec
====
