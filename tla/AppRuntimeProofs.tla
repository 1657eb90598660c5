--------------------------- MODULE AppRuntimeProofs ---------------------------
(***************************************************************************)
(* For any number of runs of finalize and of attempts at the handshake:    *)
(* the key of a running Reverb server is kept, reset leaves no unit, and   *)
(* what a passed run has set up stays as the checks expect it.             *)
(***************************************************************************)
EXTENDS AppRuntime, TLAPS

Settings ==
    [queue : {"redis", "sync"}, session : {"redis", "file"}, websocket : BOOLEAN,
     key : Nat \ {0}]
Serving == [on : {TRUE}, key : Nat \ {0}, answers : BOOLEAN]

Values ==
    /\ site \in [redis : BOOLEAN, https : BOOLEAN]
    /\ runs \in Nat /\ (op # "none" => runs # 0)
    /\ drivers \in Settings \cup {NoDrivers} /\ cached \in Settings \cup {NoDrivers}
    /\ reverb \in Serving \cup {Off}
    /\ started \in Seq(KnownUnits)

(* A Reverb server that runs is the unit's, and has the saved key.         *)
ServerKnown == reverb # Off => Reverb \in up /\ reverb.key = drivers.key

(* Once saved the settings have a key, once cached that key is cached.     *)
KeyCached ==
    op # "none" =>
        /\ pc \in {"link", "optimize", "effective", "register", "units", "enable"} =>
               drivers \in Settings
        /\ pc \in {"effective", "register", "units", "enable"} => cached.key = drivers.key

(* What runs is installed, what is installed is listed.                    *)
UnitsListed ==
    /\ up \subseteq KnownUnits \cap files
    /\ files \cap KnownUnits \subseteq owned
    /\ op # "none" /\ pc = "units" => Units \subseteq owned
    /\ op # "none" /\ pc = "enable" => Units \subseteq files

(* The application is there as a whole, or nothing is.                     *)
CodeWhole == (Code \subseteq files \/ files = {}) /\ (op # "none" => Code \subseteq files)

RuntimeInv == Values /\ ServerKnown /\ KeyCached /\ UnitsListed /\ CodeWhole

(* The units are known ones, and none of the application's files.          *)
LEMMA UnitSets ==
    ASSUME Values
    PROVE  /\ Units \subseteq KnownUnits
           /\ Enabled \in Seq(KnownUnits)
           /\ \A i \in 1..Len(Enabled) : Enabled[i] \in Units
           /\ Code \cap KnownUnits = {} /\ Code # {}
           /\ Reverb \in KnownUnits
           /\ Off \notin Serving
<1>1. Units \subseteq KnownUnits /\ Reverb \in KnownUnits
  BY DEF Units, KnownUnits
<1>2. Code \cap KnownUnits = {} /\ Code # {}
  BY DEF Code, KnownUnits, Timer, Queue, Reverb
<1>3. Off \notin Serving
  <2>1. \A s \in Serving : s.on = TRUE
    BY DEF Serving
  <2> QED
    BY <2>1 DEF Off
<1>4. CASE site.redis
  <2>1. Enabled = <<Timer, Queue, Reverb>> /\ {Timer, Queue, Reverb} \subseteq Units \cap KnownUnits
    BY <1>4 DEF Enabled, Units, KnownUnits
  <2> QED
    BY <1>1, <1>2, <1>3, <2>1
<1>5. CASE ~site.redis
  <2>1. Enabled = <<Timer>> /\ Timer \in Units \cap KnownUnits
    BY <1>5 DEF Enabled, Units, KnownUnits
  <2> QED
    BY <1>1, <1>2, <1>3, <2>1
<1> QED
  BY <1>4, <1>5

(* The invariant holds on a site that has just been installed,             *)
LEMMA RuntimeInit == Init => RuntimeInv
BY DEF Init, RuntimeInv, Values, ServerKnown, KeyCached, UnitsListed, CodeWhole, KnownUnits,
       Code, Timer, Queue, Reverb, Settings, NoDrivers, Off, Serving

(* A step that leaves the application and its list alone, and ends the      *)
(* command or goes to where nothing is claimed of either.                  *)
LEMMA RuntimeKept ==
    ASSUME RuntimeInv, UNCHANGED <<app, owned>>,
           runs' \in Nat, op' # "none" => runs' # 0,
           started' \in Seq(KnownUnits),
           op' # "none" => Code \subseteq files,
           op' # "none" => pc' \notin {"link", "optimize", "effective", "register", "units",
                                       "enable"}
    PROVE  RuntimeInv'
<1> USE DEF RuntimeInv
<1>1. Values'
  BY DEF Values, app
<1>2. ServerKnown'
  BY DEF ServerKnown, app
<1>3. KeyCached'
  BY DEF KeyCached
<1>4. UnitsListed'
  BY DEF UnitsListed, app
<1>5. CodeWhole'
  BY DEF CodeWhole, app
<1> QED
  BY <1>1, <1>2, <1>3, <1>4, <1>5

(* The settings: the steps up to the cached configuration.                 *)
LEMMA SettingsStep ==
    ASSUME RuntimeInv,
           \/ BrowserInstall \/ MergeSettings \/ SaveSettings \/ LinkStorage
           \/ Optimize \/ VerifyEffective \/ OperatorEdits
    PROVE  RuntimeInv'
<1> USE DEF RuntimeInv, records, history
<1>1. CASE BrowserInstall
  BY <1>1 DEF BrowserInstall, Values, ServerKnown, KeyCached, UnitsListed, CodeWhole, Units,
              KnownUnits, Timer, Queue, Reverb
<1>2. CASE MergeSettings
  BY <1>2 DEF MergeSettings, At, Goto, Values, ServerKnown, KeyCached, UnitsListed, CodeWhole,
              KnownUnits, Timer, Queue, Reverb
<1>3. CASE SaveSettings
  <2>1. Payload(runs) \in Settings
    BY <1>3 DEF SaveSettings, At, Values, Payload, Settings, NoDrivers
  <2>2. reverb # Off => drivers.key # 0
    BY DEF ServerKnown, Values, Serving
  <2>3. reverb # Off => Payload(runs).key = drivers.key
    BY <2>2 DEF Payload
  <2> QED
    BY <1>3, <2>1, <2>3 DEF SaveSettings, At, Goto, Values, ServerKnown, KeyCached, UnitsListed,
                            CodeWhole
<1>4. CASE LinkStorage
  BY <1>4 DEF LinkStorage, At, Goto, Values, ServerKnown, KeyCached, UnitsListed, CodeWhole,
              KnownUnits, Timer, Queue, Reverb
<1>5. CASE Optimize
  BY <1>5 DEF Optimize, At, Goto, Values, ServerKnown, KeyCached, UnitsListed, CodeWhole
<1>6. CASE VerifyEffective
  BY <1>6 DEF VerifyEffective, At, Goto, Values, ServerKnown, KeyCached, UnitsListed, CodeWhole,
              app, Units
<1>7. CASE OperatorEdits
  <2>1. drivers \in Settings
    BY <1>7 DEF OperatorEdits, Values, NoDrivers
  <2>2. drivers' \in Settings /\ drivers'.key = drivers.key
    BY <1>7, <2>1 DEF OperatorEdits, Settings
  <2> QED
    BY <1>7, <2>2 DEF OperatorEdits, Values, ServerKnown, KeyCached, UnitsListed, CodeWhole
<1> QED
  BY <1>1, <1>2, <1>3, <1>4, <1>5, <1>6, <1>7

(* The units: listed, then written, then started.                          *)
LEMMA UnitsStep ==
    ASSUME RuntimeInv,
           \/ Register \/ WriteUnit \/ VerifyUnits \/ Enable \/ AllEnabled \/ RestartQueue
           \/ WorkerRestarts \/ ReverbAnswers
    PROVE  RuntimeInv'
<1> USE UnitSets DEF RuntimeInv, records, history
<1>1. CASE Register
  BY <1>1 DEF Register, At, Goto, Values, ServerKnown, KeyCached, UnitsListed, CodeWhole, app,
              Units
<1>2. CASE WriteUnit
  <2>1. PICK u \in Units \ files : files' = files \cup {u}
    BY <1>2 DEF WriteUnit
  <2>2. op # "none" /\ pc = "units"
    BY <1>2 DEF WriteUnit, At
  <2>3. UnitsListed'
    BY <1>2, <2>1, <2>2 DEF WriteUnit, UnitsListed, Units
  <2> QED
    BY <1>2, <2>1, <2>2, <2>3 DEF WriteUnit, Values, ServerKnown, KeyCached, CodeWhole
<1>3. CASE VerifyUnits
  BY <1>3 DEF VerifyUnits, At, Goto, Values, ServerKnown, KeyCached, UnitsListed, CodeWhole, app,
              Units
<1>4. CASE Enable
  <2> DEFINE unit == Enabled[Len(started) + 1]
  <2>1. op # "none" /\ pc = "enable" /\ Len(started) < Len(Enabled)
    BY <1>4 DEF Enable, At
  <2>2. unit \in Units
    BY <2>1 DEF Values
  <2>3. /\ up' = up \cup {unit} /\ started' = Append(started, unit)
        /\ reverb' = IF unit = Reverb /\ Reverb \notin up
                     THEN [on |-> TRUE, key |-> cached.key, answers |-> FALSE] ELSE reverb
        /\ UNCHANGED <<site, files, drivers, cached, owned, op, pc, runs>>
    BY <1>4 DEF Enable
  <2>4. drivers \in Settings /\ cached.key = drivers.key
    BY <2>1 DEF KeyCached
  <2>5. reverb' \in Serving \cup {Off} /\ (reverb' # Off => Reverb \in up' /\ reverb'.key = drivers.key)
    <3>1. CASE unit = Reverb /\ Reverb \notin up
      BY <2>3, <2>4, <3>1 DEF Serving, Settings
    <3>2. CASE ~(unit = Reverb /\ Reverb \notin up)
      BY <2>3, <3>2 DEF ServerKnown, Values
    <3> QED
      BY <3>1, <3>2
  <2>6. started' \in Seq(KnownUnits)
    BY <2>2, <2>3 DEF Values
  <2>7. Values'
    BY <2>3, <2>5, <2>6 DEF Values
  <2>8. ServerKnown'
    BY <2>3, <2>5 DEF ServerKnown
  <2>9. UnitsListed'
    BY <2>1, <2>2, <2>3 DEF UnitsListed, Units
  <2>10. KeyCached' /\ CodeWhole'
    BY <2>3 DEF KeyCached, CodeWhole
  <2> QED
    BY <2>7, <2>8, <2>9, <2>10
<1>5. CASE AllEnabled
  BY <1>5, RuntimeKept DEF AllEnabled, At, Goto, Values, CodeWhole
<1>6. CASE RestartQueue
  BY <1>6 DEF RestartQueue, At, Goto, Values, ServerKnown, KeyCached, UnitsListed, CodeWhole
<1>7. CASE WorkerRestarts
  BY <1>7 DEF WorkerRestarts, Values, ServerKnown, KeyCached, UnitsListed, CodeWhole, Units
<1>8. CASE ReverbAnswers
  <2>1. reverb \in Serving
    BY <1>8 DEF ReverbAnswers, Values, Off
  <2>2. reverb' \in Serving /\ reverb'.key = reverb.key
    BY <1>8, <2>1 DEF ReverbAnswers, Serving
  <2> QED
    BY <1>8, <2>1, <2>2 DEF ReverbAnswers, Values, ServerKnown, KeyCached, UnitsListed, CodeWhole,
                            Units
<1> QED
  BY <1>1, <1>2, <1>3, <1>4, <1>5, <1>6, <1>7, <1>8

(* The trials, the records, and what ends the command.                     *)
LEMMA TrialsStep ==
    ASSUME RuntimeInv,
           \/ StartFinalize \/ WriteProbe \/ RunProbe \/ Handshake \/ HandshakeMisses \/ Pages
           \/ UpdateGuide \/ CompleteStep \/ MergeReport \/ Fails \/ FailStep \/ Interrupt
    PROVE  RuntimeInv'
<1> USE DEF RuntimeInv, history
<1>1. CASE StartFinalize
  BY <1>1, RuntimeKept DEF StartFinalize, Values, records
<1>2. CASE WriteProbe
  BY <1>2 DEF WriteProbe, At, Goto, records, Values, ServerKnown, KeyCached, UnitsListed, CodeWhole,
              KnownUnits, Timer, Queue, Reverb
<1>3. CASE RunProbe
  BY <1>3 DEF RunProbe, At, records, Values, ServerKnown, KeyCached, UnitsListed, CodeWhole,
              KnownUnits, Timer, Queue, Reverb, Code
<1>4. CASE Handshake \/ Pages
  BY <1>4, RuntimeKept DEF Handshake, Pages, At, Goto, Values, CodeWhole, records
<1>5. CASE HandshakeMisses
  BY <1>5, RuntimeKept DEF HandshakeMisses, At, Values, CodeWhole, records
<1>6. CASE UpdateGuide \/ CompleteStep
  BY <1>6, RuntimeKept DEF UpdateGuide, CompleteStep, At, Goto, Values, CodeWhole
<1>7. CASE MergeReport \/ FailStep
  <2>1. started' = <<>> /\ op' = "none" /\ UNCHANGED <<app, owned, runs>>
    BY <1>7 DEF MergeReport, FailStep, Ends
  <2> QED
    BY <2>1, RuntimeKept DEF Values
<1>8. CASE Interrupt
  <2>1. started' = <<>> /\ op' = "none" /\ UNCHANGED <<app, owned, runs>>
    BY <1>8 DEF Interrupt, Ends, records
  <2> QED
    BY <2>1, RuntimeKept DEF Values
<1>9. CASE Fails
  BY <1>9, RuntimeKept DEF Fails, Values, CodeWhole, records
<1> QED
  BY <1>1, <1>2, <1>3, <1>4, <1>5, <1>6, <1>7, <1>8, <1>9

(* What other commands do between two runs of finalize.                    *)
LEMMA OthersStep ==
    ASSUME RuntimeInv, ResumeTls \/ Reset
    PROVE  RuntimeInv'
<1> USE DEF RuntimeInv, history
<1>1. CASE ResumeTls
  <2>1. site' \in [redis : BOOLEAN, https : BOOLEAN] /\ op' = "none"
    BY <1>1 DEF ResumeTls, Values
  <2> QED
    BY <1>1, <2>1 DEF ResumeTls, Values, ServerKnown, KeyCached, UnitsListed, CodeWhole
<1>2. CASE Reset
  <2>1. up' = {}
    BY <1>2 DEF Reset, UnitsListed
  <2>2. reverb' = Off
    BY <1>2, <2>1 DEF Reset
  <2>3. files' = {}
    BY <1>2 DEF Reset, UnitsListed
  <2> QED
    BY <1>2, <2>1, <2>2, <2>3 DEF Reset, Values, ServerKnown, KeyCached, UnitsListed, CodeWhole
<1> QED
  BY <1>1, <1>2

(* and every step keeps it.                                                *)
LEMMA RuntimeStep == RuntimeInv /\ [Next]_vars => RuntimeInv'
<1> SUFFICES ASSUME RuntimeInv, [Next]_vars
             PROVE  RuntimeInv'
  OBVIOUS
<1>1. CASE Next
  BY <1>1, SettingsStep, UnitsStep, TrialsStep, OthersStep DEF Next
<1>2. CASE UNCHANGED vars
  BY <1>2 DEF vars, app, records, history, RuntimeInv, Values, ServerKnown, KeyCached, UnitsListed,
              CodeWhole, Units
<1> QED
  BY <1>1, <1>2

(* finalize lists what it installs, installs what it starts, and caches the *)
(* key it saved, wherever it is interrupted.                               *)
THEOREM RuntimeAlways == Spec => []RuntimeInv
BY RuntimeInit, RuntimeStep, PTL DEF Spec

(* A running Reverb server keeps its key, for any number of runs.           *)
THEOREM KeyKeptAlways == Spec => []KeyKept
<1>1. RuntimeInv => KeyKept
  BY DEF RuntimeInv, ServerKnown, KeyKept, Off
<1> QED
  BY <1>1, RuntimeAlways, PTL

(* After reset no unit of the runtime is running or installed.              *)
THEOREM ResetRemovesRuntimeAlways == Spec => []ResetRemovesRuntime
<1>1. RuntimeInv => ResetRemovesRuntime
  BY DEF RuntimeInv, CodeWhole, UnitsListed, ResetRemovesRuntime, Code
<1> QED
  BY <1>1, RuntimeAlways, PTL

---------------------------------------------------------------------------
(* What a run of finalize has brought about, stage by stage.               *)
Marked == {"g7_installed", "drivers"} \subseteq files
Saved == drivers \in Settings /\ drivers = Payload(0)
Written == Units \subseteq files
Running(n) == \A i \in 1..n : Enabled[i] \in up
Restarted == site.redis => worker.told \/ worker.with = drivers
Tuned == Marked /\ Saved /\ cached = drivers /\ Written /\ Running(Len(Enabled)) /\ Restarted

(* The worker is the unit's.                                               *)
Worker == [on : {TRUE}, with : Settings \cup {NoDrivers}, told : BOOLEAN]
WorkerKnown ==
    /\ worker \in Worker \cup {Off}
    /\ Queue \in up => worker \in Worker

(* The command under way is at some stage,                                 *)
Trials == {"probe", "roundtrip", "handshake", "pages", "guide", "state", "report"}
Early == {"idle", "marker", "save", "link", "optimize", "effective", "register", "units"}
Stages ==
    /\ op = "none" \/ pc \in Early => started = <<>>
    /\ op # "none" =>
          /\ pc \notin {"marker", "failing"} => Marked
          /\ pc \notin {"marker", "failing", "save"} => Saved
          /\ pc \notin {"marker", "failing", "save", "link", "optimize"} => cached = drivers
          /\ pc \in {"enable", "restart"} \cup Trials => Written
          /\ pc = "enable" => Len(started) <= Len(Enabled) /\ Running(Len(started))
          /\ pc \in {"restart"} \cup Trials => Running(Len(Enabled))
          /\ pc = "restart" => site.redis
          /\ pc \in Trials => Restarted

(* and what one has passed stays, whatever becomes of the next.            *)
Finished == report.phase = "pass" /\ ~touched => Tuned

TunedInv == RuntimeInv /\ WorkerKnown /\ Stages /\ Finished

(* The invariant holds at the start, where nothing is claimed;             *)
LEMMA TunedInit == Init => WorkerKnown /\ Stages /\ Finished
BY DEF Init, WorkerKnown, Stages, Finished, Early, Off, NoReport, Queue

(* What a step that leaves the settings alone does to the stages: none is   *)
(* undone.                                                                 *)
LEMMA StagesStay ==
    ASSUME UNCHANGED <<site, drivers>>, cached' \in {cached, drivers},
           files \cap (Units \cup {"g7_installed", "drivers"}) \subseteq files',
           up \subseteq up',
           worker' = worker \/ worker'.told \/ worker'.with = cached
    PROVE  /\ Marked => Marked'
           /\ Saved => Saved'
           /\ cached = drivers => cached' = drivers'
           /\ Written => Written'
           /\ \A n \in Nat : Running(n) => Running(n)'
           /\ cached = drivers /\ Restarted => Restarted'
           /\ Tuned => Tuned'
<1>1. Marked => Marked'
  BY DEF Marked
<1>2. Saved => Saved'
  BY DEF Saved, Payload
<1>3. cached = drivers => cached' = drivers'
  OBVIOUS
<1>4. Units' = Units /\ Enabled' = Enabled
  BY DEF Units, Enabled
<1>5. Written => Written'
  BY <1>4 DEF Written
<1>6. ASSUME NEW n PROVE Running(n) => Running(n)'
  BY <1>4 DEF Running
<1>7. cached = drivers /\ Restarted => Restarted'
  BY DEF Restarted
<1>8. Running(Len(Enabled)) => Running(Len(Enabled))'
  BY <1>4 DEF Running
<1> QED
  BY <1>1, <1>2, <1>3, <1>5, <1>6, <1>7, <1>8 DEF Tuned

(* The settings: marked, saved, and cached.                                *)
LEMMA TunedSettings ==
    ASSUME TunedInv,
           \/ BrowserInstall \/ StartFinalize \/ MergeSettings \/ SaveSettings \/ LinkStorage
           \/ Optimize \/ VerifyEffective \/ Register
    PROVE  WorkerKnown' /\ Stages' /\ Finished'
<1> USE DEF records, history, app
<1>1. CASE BrowserInstall \/ StartFinalize
  <2>1. Tuned => Tuned'
    BY <1>1, StagesStay DEF BrowserInstall, StartFinalize
  <2>2. op' # "none" => pc' = "marker"
    BY <1>1 DEF BrowserInstall, StartFinalize
  <2> QED
    BY <1>1, <2>1, <2>2 DEF TunedInv, BrowserInstall, StartFinalize, WorkerKnown, Stages, Finished, Early,
                            Trials
<1>2. CASE MergeSettings
  <2>1. Marked' /\ (Tuned => Tuned')
    BY <1>2, StagesStay DEF MergeSettings, Marked
  <2> QED
    BY <1>2, <2>1 DEF TunedInv, MergeSettings, At, Goto, WorkerKnown, Stages, Finished, Trials, Early
<1>3. CASE SaveSettings
  <2>1. Marked /\ runs \in Nat \ {0} /\ drivers \in Settings \cup {NoDrivers}
        /\ site \in [redis : BOOLEAN, https : BOOLEAN]
    BY <1>3 DEF TunedInv, SaveSettings, At, Stages, RuntimeInv, Values
  <2>2. drivers' = Payload(runs) /\ UNCHANGED <<site, files, cached, up, worker, report, touched>>
        /\ op' # "none" /\ pc' = "link" /\ started' = <<>>
    BY <1>3 DEF SaveSettings, At, Goto, TunedInv, Stages, Early
  <2>3. drivers' \in Settings
    BY <2>1, <2>2 DEF Payload, Settings, NoDrivers
  <2>4. drivers' = Payload(0)'
    BY <2>2, <2>3 DEF Payload, Settings
  <2>5. Saved => drivers' = drivers
    BY <2>2 DEF Saved, Payload, Settings
  <2>6. Tuned => Tuned'
    BY <2>2, <2>5, StagesStay DEF Tuned
  <2>7. Marked'
    BY <2>1, <2>2 DEF Marked
  <2> QED
    BY <2>2, <2>3, <2>4, <2>6, <2>7 DEF TunedInv, WorkerKnown, Stages, Finished, Saved, Trials, Early
<1>4. CASE LinkStorage
  <2>1. (Marked => Marked') /\ (Saved => Saved') /\ (Tuned => Tuned')
    BY <1>4, StagesStay DEF LinkStorage
  <2> QED
    BY <1>4, <2>1 DEF TunedInv, LinkStorage, At, Goto, WorkerKnown, Stages, Finished, Trials, Early
<1>5. CASE Optimize
  <2>1. (Marked => Marked') /\ (Saved => Saved') /\ (Tuned => Tuned') /\ cached' = drivers'
    BY <1>5, StagesStay DEF Optimize
  <2> QED
    BY <1>5, <2>1 DEF TunedInv, Optimize, At, Goto, WorkerKnown, Stages, Finished, Trials, Early
<1>6. CASE VerifyEffective \/ Register
  <2>1. (Marked => Marked') /\ (Saved => Saved') /\ (Tuned => Tuned')
    BY <1>6, StagesStay DEF VerifyEffective, Register
  <2> QED
    BY <1>6, <2>1 DEF TunedInv, VerifyEffective, Register, At, Goto, WorkerKnown, Stages, Finished, Early,
                      Trials
<1> QED
  BY <1>1, <1>2, <1>3, <1>4, <1>5, <1>6

(* The units: written, running, and the worker restarted.                  *)
LEMMA TunedUnits ==
    ASSUME TunedInv,
           \/ WriteUnit \/ VerifyUnits \/ Enable \/ AllEnabled \/ RestartQueue
           \/ WorkerRestarts \/ ReverbAnswers
    PROVE  WorkerKnown' /\ Stages' /\ Finished'
<1> USE DEF records, history, app
<1>0. Values
  BY DEF TunedInv, RuntimeInv
<1>1. CASE WriteUnit
  <2>1. (Marked => Marked') /\ (Saved => Saved') /\ (Tuned => Tuned')
    BY <1>1, StagesStay DEF WriteUnit
  <2> QED
    BY <1>1, <2>1 DEF TunedInv, WriteUnit, At, WorkerKnown, Stages, Finished, Trials, Early
<1>2. CASE VerifyUnits
  <2>1. (Marked => Marked') /\ (Saved => Saved') /\ (Written => Written') /\ (Tuned => Tuned')
    BY <1>2, StagesStay DEF VerifyUnits
  <2>2. Running(0)' /\ Written
    BY <1>2 DEF Running, VerifyUnits, Written
  <2> QED
    BY <1>2, <2>1, <2>2 DEF TunedInv, VerifyUnits, At, Goto, WorkerKnown, Stages, Finished, Trials, Early
<1>3. CASE Enable
  <2> DEFINE unit == Enabled[Len(started) + 1]
  <2>1. op # "none" /\ pc = "enable" /\ Len(started) < Len(Enabled) /\ started \in Seq(KnownUnits)
    BY <1>0, <1>3 DEF Enable, At, Values
  <2>2. /\ up' = up \cup {unit} /\ started' = Append(started, unit)
        /\ worker' = IF unit = Queue /\ Queue \notin up
                     THEN [on |-> TRUE, with |-> cached, told |-> FALSE] ELSE worker
        /\ UNCHANGED <<site, files, drivers, cached, op, pc, report, touched>>
    BY <1>3 DEF Enable
  <2>3. /\ Marked => Marked'
        /\ Saved => Saved'
        /\ Written => Written'
        /\ Tuned => Tuned'
    <3>1. worker' = worker \/ worker'.with = cached
      BY <2>2
    <3> QED
      BY <2>1, <2>2, <3>1, StagesStay
  <2>4. WorkerKnown'
    BY <1>0, <2>2 DEF TunedInv, WorkerKnown, Worker, Values
  <2>5. Enabled' = Enabled /\ Len(started') = Len(started) + 1 /\ Enabled \in Seq(KnownUnits)
    BY <1>0, <2>1, <2>2, UnitSets DEF Enabled
  <2>6. Running(Len(started))'
    BY <2>1, <2>2, <2>5 DEF Running, TunedInv, Stages
  <2>7. Stages'
    BY <2>1, <2>2, <2>3, <2>5, <2>6 DEF TunedInv, Stages, Trials, Early
  <2> QED
    BY <2>2, <2>3, <2>4, <2>7 DEF TunedInv, Finished
<1>4. CASE AllEnabled
  <2>1. (Marked => Marked') /\ (Saved => Saved') /\ (Written => Written') /\ (Tuned => Tuned')
    BY <1>4, StagesStay DEF AllEnabled
  <2>2. Running(Len(Enabled))'
    BY <1>4 DEF AllEnabled, At, Running, TunedInv, Stages, Enabled
  <2>3. pc' = "pages" => Restarted'
    BY <1>4 DEF AllEnabled, Goto, Restarted
  <2> QED
    BY <1>4, <2>1, <2>2, <2>3 DEF TunedInv, AllEnabled, At, Goto, WorkerKnown, Stages, Finished, Early,
                                  Trials
<1>5. CASE RestartQueue
  <2>1. Queue \in up
    <3>1. Running(Len(Enabled)) /\ site.redis
      BY <1>5 DEF TunedInv, Stages, RestartQueue, At
    <3> QED
      BY <3>1 DEF Running, Enabled
  <2>2. worker \in Worker
    BY <2>1 DEF TunedInv, WorkerKnown
  <2>3. worker' \in Worker /\ worker'.told
    BY <1>5, <2>2 DEF RestartQueue, Worker
  <2>4. /\ Marked => Marked'
        /\ Saved => Saved'
        /\ Written => Written'
        /\ Tuned => Tuned'
    BY <1>5, <2>3, StagesStay DEF RestartQueue
  <2>5. Running(Len(Enabled)) => Running(Len(Enabled))'
    BY <1>5 DEF RestartQueue, Running, Enabled
  <2> QED
    BY <1>5, <2>3, <2>4, <2>5 DEF TunedInv, RestartQueue, At, Goto, WorkerKnown, Stages, Finished, Early,
                                  Trials, Restarted
<1>6. CASE WorkerRestarts
  <2>1. worker' \in Worker /\ worker'.with = cached
    BY <1>0, <1>6 DEF WorkerRestarts, Worker, Values
  <2>2. /\ Marked => Marked'
        /\ Saved => Saved'
        /\ Written => Written'
        /\ cached = drivers /\ Restarted => Restarted'
        /\ Tuned => Tuned'
    BY <1>6, <2>1, StagesStay DEF WorkerRestarts
  <2>3. \A n : Running(n)' <=> Running(n)
    BY <1>6 DEF WorkerRestarts, Running, Enabled
  <2>4. Enabled' = Enabled
    BY <1>6 DEF WorkerRestarts, Enabled
  <2> QED
    BY <1>6, <2>1, <2>2, <2>3, <2>4 DEF TunedInv, WorkerRestarts, WorkerKnown, Stages, Finished, Early,
                                       Trials, Running
<1>7. CASE ReverbAnswers
  BY <1>7 DEF TunedInv, ReverbAnswers, WorkerKnown, Stages, Finished, Tuned, Marked, Saved,
              Payload, Written, Units, Running, Enabled, Restarted
<1> QED
  BY <1>1, <1>2, <1>3, <1>4, <1>5, <1>6, <1>7

(* A step that changes nothing the stages are about, and goes on in a       *)
(* trial's next stage, to its failure, or ends.                            *)
LEMMA TunedKept ==
    ASSUME TunedInv, UNCHANGED <<site, drivers, cached, up, worker>>,
           files \cap (Units \cup {"g7_installed", "drivers"}) \subseteq files',
           \/ op' = "none" /\ started' = <<>>
           \/ op' # "none" /\ pc' = "failing"
           \/ op # "none" /\ op' = op /\ pc \in Trials /\ pc' \in Trials,
           \/ report'.phase # "pass"
           \/ UNCHANGED <<report, touched>>
           \/ Tuned
    PROVE  WorkerKnown' /\ Stages' /\ Finished'
<1>1. /\ Marked => Marked'
      /\ Saved => Saved'
      /\ Written => Written'
      /\ cached = drivers => cached' = drivers'
      /\ cached = drivers /\ Restarted => Restarted'
      /\ Tuned => Tuned'
  BY StagesStay
<1>2. Running(Len(Enabled)) => Running(Len(Enabled))'
  BY DEF Running, Enabled
<1>3. Stages'
  BY <1>1, <1>2 DEF TunedInv, Stages, Trials, Early
<1>4. Finished'
  BY <1>1 DEF TunedInv, Finished
<1>5. WorkerKnown'
  BY DEF TunedInv, WorkerKnown
<1> QED
  BY <1>3, <1>4, <1>5

(* the trials and the records, and what ends the command;                  *)
LEMMA TunedTrials ==
    ASSUME TunedInv,
           \/ WriteProbe \/ RunProbe \/ Handshake \/ HandshakeMisses \/ Pages \/ UpdateGuide
           \/ CompleteStep \/ MergeReport \/ Fails \/ FailStep \/ Interrupt
    PROVE  WorkerKnown' /\ Stages' /\ Finished'
<1> USE DEF records, history, app
<1>1. CASE WriteProbe \/ RunProbe
  <2>1. files \cap (Units \cup {"g7_installed", "drivers"}) \subseteq files'
    BY <1>1 DEF WriteProbe, RunProbe, Units, Timer, Queue, Reverb
  <2> QED
    BY <1>1, <2>1, TunedKept DEF WriteProbe, RunProbe, At, Goto, Trials
<1>2. CASE Handshake \/ HandshakeMisses \/ Pages
  BY <1>2, TunedKept DEF Handshake, HandshakeMisses, Pages, At, Goto, Trials
<1>3. CASE UpdateGuide \/ CompleteStep
  BY <1>3, TunedKept DEF UpdateGuide, CompleteStep, At, Goto, Trials
<1>4. CASE MergeReport
  <2>1. Tuned
    BY <1>4 DEF MergeReport, At, TunedInv, Stages, Trials, Tuned
  <2> QED
    BY <1>4, <2>1, TunedKept DEF MergeReport, Ends
<1>5. CASE Fails
  BY <1>5, TunedKept DEF Fails
<1>6. CASE FailStep
  <2>1. report'.phase # "pass"
    BY <1>6 DEF FailStep
  <2> QED
    BY <1>6, <2>1, TunedKept DEF FailStep, Ends
<1>7. CASE Interrupt
  BY <1>7, TunedKept DEF Interrupt, Ends
<1> QED
  BY <1>1, <1>2, <1>3, <1>4, <1>5, <1>6, <1>7

(* What happens between two runs takes back what the report claims.        *)
LEMMA TunedOthers ==
    ASSUME TunedInv, OperatorEdits \/ ResumeTls \/ Reset
    PROVE  WorkerKnown' /\ Stages' /\ Finished'
<1> USE DEF records, history, app
<1>1. op' = "none" /\ started' = <<>> /\ (report'.phase # "pass" \/ touched')
  BY DEF TunedInv, Stages, OperatorEdits, ResumeTls, Reset, NoReport
<1>2. WorkerKnown'
  BY DEF TunedInv, WorkerKnown, OperatorEdits, ResumeTls, Reset
<1> QED
  BY <1>1, <1>2 DEF Stages, Finished, Early

(* and every step keeps it.                                                *)
LEMMA TunedStep == TunedInv /\ [Next]_vars => TunedInv'
<1> SUFFICES ASSUME TunedInv, [Next]_vars
             PROVE  TunedInv'
  OBVIOUS
<1>1. RuntimeInv'
  BY RuntimeStep DEF TunedInv
<1>2. CASE Next
  BY <1>1, <1>2, TunedSettings, TunedUnits, TunedTrials, TunedOthers DEF Next, TunedInv
<1>3. CASE UNCHANGED vars
  <2>1. WorkerKnown' <=> WorkerKnown
    BY <1>3 DEF vars, app, records, history, WorkerKnown
  <2>2. Stages' <=> Stages
    BY <1>3 DEF vars, app, records, history, Stages, Marked, Saved, Payload, Written, Units, Running, Enabled, Restarted
  <2>3. Finished' <=> Finished
    <3>1. /\ report' = report /\ touched' = touched /\ cached' = cached /\ drivers' = drivers
          /\ files' = files /\ site' = site /\ up' = up /\ started' = started /\ worker' = worker
          /\ reverb' = reverb
      BY <1>3 DEF vars, app, records, history
    <3>2. /\ Marked' <=> Marked
          /\ Saved' <=> Saved
          /\ Written' <=> Written
          /\ Running(Len(Enabled))' <=> Running(Len(Enabled))
          /\ Restarted' <=> Restarted
      BY <3>1 DEF Marked, Saved, Payload, Written, Units, Running, Enabled, Restarted
    <3> QED
      BY <3>1, <3>2 DEF Finished, Tuned
  <2> QED
    BY <1>1, <2>1, <2>2, <2>3 DEF TunedInv
<1> QED
  BY <1>2, <1>3

(* Every stage that a run of finalize has passed is as it left it, whatever *)
(* becomes of the runs after it.                                           *)
THEOREM TunedAlways == Spec => []TunedInv
<1>1. Init => TunedInv
  BY RuntimeInit, TunedInit DEF TunedInv
<1> QED
  BY <1>1, TunedStep, PTL DEF Spec

(* The queue worker works with the settings of the last run that passed, or *)
(* has been told to start again.                                           *)
THEOREM WorkerFreshAlways == Spec => []WorkerFresh
<1>1. TunedInv => WorkerFresh
  <2> SUFFICES ASSUME TunedInv, report.phase = "pass", site.redis, ~touched
               PROVE  worker.on /\ (worker.told \/ worker.with = drivers)
    BY DEF WorkerFresh
  <2>1. Tuned
    BY DEF TunedInv, Finished
  <2>2. Queue \in up
    BY <2>1 DEF Tuned, Running, Enabled
  <2>3. worker \in Worker
    BY <2>2 DEF TunedInv, WorkerKnown
  <2> QED
    BY <2>1, <2>3 DEF Tuned, Restarted, Worker
<1> QED
  BY <1>1, TunedAlways, PTL

(* The setup guide's checks find nothing wrong with a site that finalize    *)
(* has passed.                                                             *)
THEOREM ChecksAgreeAlways == Spec => []ChecksAgree
<1>1. TunedInv => ChecksAgree
  <2> SUFFICES ASSUME TunedInv, report.phase = "pass", ~touched
               PROVE  /\ Verdict(G7Runtime(Seen, up, files, drivers)) = "pass"
                      /\ Verdict(App(Seen, files, 10)) = "manual"
    BY DEF ChecksAgree
  <2>1. Tuned /\ site \in [redis : BOOLEAN, https : BOOLEAN]
    BY DEF TunedInv, Finished, RuntimeInv, Values
  <2>2. Code \subseteq files
    BY <2>1 DEF TunedInv, RuntimeInv, CodeWhole, Tuned, Marked
  <2>3. G7Runtime(Seen, up, files, drivers) = {"pass"}
    <3>1. /\ DriverValue(drivers, "queue", IF site.redis THEN "redis" ELSE "sync") = "pass"
          /\ DriverValue(drivers, "session", IF site.redis THEN "redis" ELSE "file") = "pass"
          /\ site.redis => DriverValue(drivers, "websocket", TRUE) = "pass"
      BY <2>1 DEF Tuned, Saved, Payload, Settings, DriverValue
    <3>2. /\ \A f \in {"drivers", "g7-scheduler.service", "g7-scheduler.timer"} :
                Present(files, f) = "pass"
          /\ Active(up, "g7-scheduler.timer") = "pass"
      <4>1. Timer \in up
        BY <2>1 DEF Tuned, Running, Enabled
      <4> QED
        BY <2>1, <4>1 DEF Tuned, Marked, Written, Units, Timer, Present, Active
    <3>3. site.redis =>
            \A s \in {"g7-queue.service", "g7-reverb.service"} :
                Present(files, s) = "pass" /\ Active(up, s) = "pass"
      <4>1. site.redis => {Queue, Reverb} \subseteq up \cap files
        BY <2>1 DEF Tuned, Running, Enabled, Written, Units
      <4> QED
        BY <4>1 DEF Queue, Reverb, Present, Active
    <3>4. Seen.app = "gnuboard7" /\ Seen.redis = site.redis /\ Seen.phase = "pass"
      BY DEF Seen
    <3> QED
      BY <3>1, <3>2, <3>3, <3>4 DEF G7Runtime
  <2>4. App(Seen, files, 10) = {"pass", "manual"}
    <3>1. \A f \in Code \cup {"g7_installed"} : f \in files
      BY <2>1, <2>2 DEF Tuned, Marked
    <3>2. \A f \in Code : Present(files, f) = "pass"
      BY <3>1 DEF Present
    <3>3. UploadLimit(10) = "pass" /\ Permissions(files) = {"pass"}
      BY <3>2 DEF UploadLimit, Permissions, ConfigTest, Code
    <3>4. Seen.app = "gnuboard7"
      BY DEF Seen
    <3> QED
      BY <3>1, <3>2, <3>3, <3>4 DEF App, ConfigTest, Code
  <2> QED
    BY <2>3, <2>4 DEF Verdict
<1> QED
  BY <1>1, TunedAlways, PTL

---------------------------------------------------------------------------
(* No more runs are started than may be, and every key is of one of them.  *)
Typed == TypeOK /\ runs \in 0..Runs

(* Theorem: the attempts at the handshake stay below their number, a run   *)
(* has ended when no command is active, and a key is one of a run that was *)
(* started.                                                                *)
THEOREM RuntimeTypes == Spec => []TypeOK
<1>1. Init => Typed
  <2> SUFFICES ASSUME Init PROVE Typed
    OBVIOUS
  <2>1. drivers.key = 0 /\ cached.key = 0 /\ report.phase = "none"
    BY DEF Init, NoDrivers, NoReport
  <2>2. 0 \in 0..Runs /\ 0 \in 0..Attempts - 1
    BY AttemptsAssumption, RunsAssumption
  <2>3. finalized \in BOOLEAN /\ touched \in BOOLEAN
    BY DEF Init
  <2> QED
    BY <2>1, <2>2, <2>3 DEF Init, Typed, TypeOK
<1>2. RuntimeInv /\ RuntimeInv' /\ Typed /\ [Next]_vars => Typed'
  <2> SUFFICES ASSUME RuntimeInv, RuntimeInv', Typed, [Next]_vars PROVE Typed'
    OBVIOUS
  <2> USE AttemptsAssumption, RunsAssumption DEF Typed, TypeOK, app, records, history
  <2>1. (up \subseteq KnownUnits)'
    BY DEF RuntimeInv, UnitsListed
  <2>2. CASE BrowserInstall \/ StartFinalize
    BY <2>1, <2>2 DEF BrowserInstall, StartFinalize
  <2>3. CASE MergeSettings \/ LinkStorage \/ Optimize \/ VerifyEffective
    BY <2>1, <2>3 DEF MergeSettings, LinkStorage, Optimize, VerifyEffective, At, Goto
  <2>4. CASE SaveSettings
    <3>1. drivers'.key \in 0..Runs
      BY <2>4 DEF SaveSettings, Payload
    <3> QED
      BY <2>1, <2>4, <3>1 DEF SaveSettings, At, Goto
  <2>5. CASE Register \/ WriteUnit \/ VerifyUnits \/ Enable \/ AllEnabled \/ RestartQueue
             \/ WorkerRestarts
    BY <2>1, <2>5 DEF Register, WriteUnit, VerifyUnits, Enable, AllEnabled, RestartQueue,
       WorkerRestarts, At, Goto
  <2>6. CASE WriteProbe \/ RunProbe \/ ReverbAnswers \/ Handshake \/ HandshakeMisses \/ Pages
    BY <2>1, <2>6 DEF WriteProbe, RunProbe, ReverbAnswers, Handshake, HandshakeMisses, Pages,
       At, Goto
  <2>7. CASE UpdateGuide \/ CompleteStep \/ MergeReport
    <3>1. CASE UpdateGuide
      BY <2>1, <3>1 DEF UpdateGuide, At, Goto
    <3>2. CASE CompleteStep
      BY <2>1, <3>2 DEF CompleteStep, At, Goto
    <3>3. CASE MergeReport
      <4>1. report'.phase = "pass" /\ touched' \in BOOLEAN
        BY <3>3 DEF MergeReport
      <4> QED
        BY <2>1, <3>3, <4>1 DEF MergeReport, Ends
    <3> QED
      BY <2>7, <3>1, <3>2, <3>3
  <2>8. CASE Fails \/ FailStep \/ Interrupt
    BY <2>1, <2>8 DEF Fails, FailStep, Interrupt, At, Ends
  <2>9. CASE OperatorEdits
    <3>1. drivers \in Settings /\ cached' \in {cached, drivers'}
      BY <2>9 DEF OperatorEdits, RuntimeInv, Values, NoDrivers
    <3>2. drivers'.key = drivers.key
      BY <2>9, <3>1 DEF OperatorEdits, Settings
    <3> QED
      BY <2>1, <2>9, <3>1, <3>2 DEF OperatorEdits
  <2>10. CASE ResumeTls \/ Reset
    <3>1. report'.phase = "none" /\ guide' = 0
      BY <2>10 DEF ResumeTls, Reset, NoReport
    <3>2. CASE ResumeTls
      BY <2>1, <3>1, <3>2 DEF ResumeTls
    <3>3. CASE Reset
      <4>1. drivers'.key = 0 /\ cached'.key = 0 /\ finalized' \in BOOLEAN /\ touched' \in BOOLEAN
        BY <3>3 DEF Reset, NoDrivers
      <4> QED
        BY <2>1, <3>1, <3>3, <4>1 DEF Reset
    <3> QED
      BY <2>10, <3>2, <3>3
  <2>11. CASE UNCHANGED vars
    BY <2>11 DEF vars
  <2> QED
    BY <2>2, <2>3, <2>4, <2>5, <2>6, <2>7, <2>8, <2>9, <2>10, <2>11 DEF Next
<1>3. Typed => TypeOK
  BY DEF Typed
<1> QED
  BY <1>1, <1>2, <1>3, RuntimeAlways, PTL DEF Spec

===============================================================================
