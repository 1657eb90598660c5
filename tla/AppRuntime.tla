------------------------------- MODULE AppRuntime -------------------------------
(***************************************************************************)
(* g7inst finalize (commands/finalize.rs): after GnuBoard7's own installer *)
(* has finished in the browser, its settings are saved and cached, the     *)
(* scheduler, the queue worker and the Reverb server set up as systemd     *)
(* units, and all of it tried out.  It may be run again at any time, fail  *)
(* or be killed anywhere; reset takes away what it has set up.             *)
(***************************************************************************)
EXTENDS ProvisionChecks, Sequences

CONSTANTS
    Attempts,  \* tries at the Reverb handshake: REVERB_HANDSHAKE_ATTEMPTS
    Runs       \* bound: how often finalize is started

ASSUME AttemptsAssumption == Attempts \in Nat \ {0}
ASSUME RunsAssumption == Runs \in Nat

VARIABLES
    site,      \* [redis, https]: the site as it was installed
    files,     \* files that are there, of the application and below /etc/systemd
    drivers,   \* settings/drivers.json, with the id and key of the WebSocket server
    cached,    \* the settings as Laravel has cached them
    up,        \* running units
    worker,    \* the settings the queue worker runs with, and whether it was told to restart
    reverb,    \* the Reverb server: whether it answers yet, and its key
    owned,     \* what owned-files.json lists of files
    guide,     \* finalize blocks in the setup guide
    report,    \* [phase, problem, services] of report.json
    finalized, \* whether state.json has the completed step
    op, pc,
    started, attempt,  \* the command's memory
    runs,      \* history: how often finalize was started
    touched    \* history: the operator has changed the settings since finalize passed

app == <<site, files, drivers, cached, worker, reverb, up>>
records == <<owned, guide, report, finalized>>
history == <<runs, touched>>
vars == <<app, records, op, pc, started, attempt, history>>

Off == [on |-> FALSE]
NoDrivers == [key |-> 0]
NoReport == [phase |-> "none", problem |-> "none", services |-> <<>>]

Timer == "g7-scheduler.timer"
Queue == "g7-queue.service"
Reverb == "g7-reverb.service"

\* Slip: the timer is written but not enabled.
EnabledServices == IF site.redis THEN <<Queue, Reverb>> ELSE <<>>

\* The unit files, and the units that are enabled in this order.
Units == {"g7-scheduler.service", Timer} \cup (IF site.redis THEN {Queue, Reverb} ELSE {})
Enabled == IF site.redis THEN <<Timer, Queue, Reverb>> ELSE <<Timer>>

Code == {"artisan", "storage", "bootstrap/cache", "template-engine", ".env"}

Init ==
    /\ site \in [redis : BOOLEAN, https : BOOLEAN]
    /\ files = Code /\ drivers = NoDrivers /\ cached = NoDrivers
    /\ up = {} /\ worker = Off /\ reverb = Off
    /\ owned = Code /\ guide = 0 /\ report = NoReport /\ finalized = FALSE
    /\ op = "none" /\ pc = "idle" /\ started = <<>> /\ attempt = 0
    /\ runs = 0 /\ touched = FALSE

At(label) == op = "finalize" /\ pc = label
Goto(label) == pc' = label /\ UNCHANGED <<op, started, attempt>>
Ends == op' = "none" /\ pc' = "idle" /\ started' = <<>> /\ attempt' = 0

---------------------------------------------------------------------------
\* The settings

\* The browser installer leaves its marker in .env, and a lock file.
BrowserInstall ==
    /\ op = "none" /\ Code \subseteq files
    /\ files' = files \cup {"g7_installed"}
    /\ UNCHANGED <<site, drivers, cached, up, worker, reverb, records, op, pc, started, attempt,
                   history>>

StartFinalize ==
    /\ op = "none" /\ Code \subseteq files /\ runs < Runs
    /\ op' = "finalize" /\ pc' = "marker"
    /\ runs' = runs + 1
    /\ UNCHANGED <<app, records, started, attempt, touched>>

\* settings:install --merge adds what is missing.
MergeSettings ==
    /\ At("marker") /\ "g7_installed" \in files
    /\ files' = files \cup {"drivers"}
    /\ Goto("save")
    /\ UNCHANGED <<site, drivers, cached, up, worker, reverb, records, history>>

\* Slip: every run draws a new key.
PayloadFreshKey(fresh) ==
    [queue |-> IF site.redis THEN "redis" ELSE "sync",
     session |-> IF site.redis THEN "redis" ELSE "file", websocket |-> site.redis, key |-> fresh]

\* The key in use is kept, a new one drawn only where there is none.
Payload(fresh) ==
    [queue |-> IF site.redis THEN "redis" ELSE "sync",
     session |-> IF site.redis THEN "redis" ELSE "file",
     websocket |-> site.redis,
     key |-> IF drivers.key = 0 THEN fresh ELSE drivers.key]

SaveSettings ==
    /\ At("save")
    /\ drivers' = Payload(runs)
    /\ Goto("link")
    /\ UNCHANGED <<site, files, cached, up, worker, reverb, records, history>>

LinkStorage ==
    /\ At("link")
    /\ files' = files \cup {"public/storage"}
    /\ Goto("optimize")
    /\ UNCHANGED <<site, drivers, cached, up, worker, reverb, records, history>>

\* After a look at migrations, extensions and routes the configuration is cached.
Optimize ==
    /\ At("optimize")
    /\ cached' = drivers
    /\ Goto("effective")
    /\ UNCHANGED <<site, files, drivers, up, worker, reverb, records, history>>

\* What Laravel reads has to be what was saved.
Effective(settings) ==
    /\ "queue" \in DOMAIN settings
    /\ settings.queue = Payload(0).queue /\ settings.session = Payload(0).session
VerifyEffective ==
    /\ At("effective") /\ Effective(cached)
    /\ Goto("register")
    /\ UNCHANGED <<app, records, history>>

---------------------------------------------------------------------------
\* The units

\* Slip: only what is there is listed.
RegisterPresent ==
    /\ At("register")
    /\ owned' = owned \cup (files \cap ({"drivers", "public/storage"} \cup Units))
    /\ Goto("units")
    /\ UNCHANGED <<app, guide, report, finalized, history>>

\* Everything is listed before it is written.
Register ==
    /\ At("register")
    /\ owned' = owned \cup {"drivers", "public/storage"} \cup Units
    /\ Goto("units")
    /\ UNCHANGED <<app, guide, report, finalized, history>>

WriteUnit ==
    /\ At("units")
    /\ \E u \in Units \ files : files' = files \cup {u}
    /\ UNCHANGED <<site, drivers, cached, up, worker, reverb, records, op, pc, started, attempt,
                   history>>

VerifyUnits ==
    /\ At("units") /\ Units \subseteq files
    /\ Goto("enable")
    /\ UNCHANGED <<app, records, history>>

\* enable --now leaves a running service as it is.
Enable ==
    /\ At("enable") /\ Len(started) < Len(Enabled)
    /\ LET unit == Enabled[Len(started) + 1]
       IN /\ up' = up \cup {unit}
          /\ worker' = IF unit = Queue /\ Queue \notin up
                       THEN [on |-> TRUE, with |-> cached, told |-> FALSE] ELSE worker
          /\ reverb' = IF unit = Reverb /\ Reverb \notin up
                       THEN [on |-> TRUE, key |-> cached.key, answers |-> FALSE] ELSE reverb
          /\ started' = Append(started, unit)
    /\ UNCHANGED <<site, files, drivers, cached, records, op, pc, attempt, history>>

AllEnabled ==
    /\ At("enable") /\ started = Enabled
    /\ Goto(IF site.redis THEN "restart" ELSE "pages")
    /\ UNCHANGED <<app, records, history>>

\* Slip: enabling the worker is thought to be enough.
RestartNothing == At("restart") /\ Goto("probe") /\ UNCHANGED <<app, records, history>>

\* queue:restart: the worker ends after its job, and systemd starts it again.
RestartQueue ==
    /\ At("restart")
    /\ worker' = [worker EXCEPT !.told = TRUE]
    /\ Goto("probe")
    /\ UNCHANGED <<site, files, drivers, cached, up, reverb, records, history>>

\* It also does so by itself, once an hour (--max-time).
WorkerRestarts ==
    /\ worker.on
    /\ worker' = [on |-> TRUE, with |-> cached, told |-> FALSE]
    /\ UNCHANGED <<site, files, drivers, cached, up, reverb, records, op, pc, started, attempt,
                   history>>

---------------------------------------------------------------------------
\* The trials

\* A script that sends a job through the queue is written, run and removed.
WriteProbe ==
    /\ At("probe")
    /\ files' = files \cup {"queue-probe"}
    /\ Goto("roundtrip")
    /\ UNCHANGED <<site, drivers, cached, up, worker, reverb, records, history>>

RunProbe ==
    /\ At("roundtrip")
    /\ files' = files \ {"queue-probe"}
    /\ pc' \in {"handshake", "failing"}
    /\ UNCHANGED <<site, drivers, cached, up, worker, reverb, records, op, started, attempt,
                   history>>

ReverbAnswers ==
    /\ reverb.on /\ ~reverb.answers
    /\ reverb' = [reverb EXCEPT !.answers = TRUE]
    /\ UNCHANGED <<site, files, drivers, cached, up, worker, records, op, pc, started, attempt,
                   history>>

\* Straight to Reverb, and through the web server once there is HTTPS.
Handshake ==
    /\ At("handshake")
    /\ reverb.on /\ reverb.answers /\ reverb.key = drivers.key
    /\ Goto("pages")
    /\ UNCHANGED <<app, records, history>>

\* Slip: one attempt more than there are.
HandshakeMissesOnce ==
    /\ At("handshake") /\ ~reverb.answers
    /\ IF attempt < Attempts
         THEN attempt' = attempt + 1 /\ UNCHANGED pc
         ELSE pc' = "failing" /\ UNCHANGED attempt
    /\ UNCHANGED <<app, records, op, started, history>>

\* Reverb is not there yet, or the web server does not pass the request on.
HandshakeMisses ==
    /\ At("handshake")
    /\ ~reverb.answers \/ reverb.key # drivers.key \/ site.https
    /\ IF attempt + 1 < Attempts
         THEN attempt' = attempt + 1 /\ UNCHANGED pc
         ELSE pc' = "failing" /\ UNCHANGED attempt
    /\ UNCHANGED <<app, records, op, started, history>>

\* The sitemap and the home page have to be served; that assets are missing is
\* only noted.
Pages ==
    /\ At("pages")
    /\ Goto("guide")
    /\ UNCHANGED <<app, records, history>>

---------------------------------------------------------------------------
\* The records

\* The block of an earlier run is replaced.
UpdateGuide ==
    /\ At("guide")
    /\ guide' = 1
    /\ Goto("state")
    /\ UNCHANGED <<app, owned, report, finalized, history>>

CompleteStep ==
    /\ At("state")
    /\ finalized' = TRUE
    /\ Goto("report")
    /\ UNCHANGED <<app, owned, guide, report, history>>

MergeReport ==
    /\ At("report")
    /\ report' = [phase |-> "pass", problem |-> "none", services |-> started]
    /\ touched' = FALSE
    /\ Ends
    /\ UNCHANGED <<app, owned, guide, finalized, runs>>

\* Any of the commands and writes may fail.
Fails ==
    /\ op = "finalize" /\ pc \notin {"roundtrip", "handshake", "failing", "state", "report"}
    /\ pc' = "failing"
    /\ UNCHANGED <<app, records, op, started, attempt, history>>

\* A failure the report has already is not replaced.
FailStep ==
    /\ At("failing")
    /\ report' = IF report.phase = "fail" THEN report
                 ELSE [phase |-> "fail", problem |-> "failed", services |-> <<>>]
    /\ Ends
    /\ UNCHANGED <<app, owned, guide, finalized, history>>

---------------------------------------------------------------------------
\* What others do

\* The settings are changed in GnuBoard7's own administration, which may
\* refresh the cached configuration.
OperatorEdits ==
    /\ op = "none" /\ "queue" \in DOMAIN drivers
    /\ drivers' = [drivers EXCEPT !.queue = "sync", !.session = "file"]
    /\ cached' \in {cached, drivers'}
    /\ touched' = TRUE
    /\ UNCHANGED <<site, files, up, worker, reverb, records, op, pc, started, attempt,
                   runs>>

\* A resume that gets to HTTPS writes the report and the guide anew.
ResumeTls ==
    /\ op = "none" /\ ~site.https /\ Code \subseteq files
    /\ site' = [site EXCEPT !.https = TRUE]
    /\ report' = NoReport /\ guide' = 0
    /\ UNCHANGED <<files, drivers, cached, up, worker, reverb, owned, finalized, op, pc, started,
                   attempt, history>>

\* reset disables the units it knows whose file is there, then removes what is
\* listed: the site's folder with all that is in it, and the unit files.
KnownUnits == {"g7-scheduler.service", Timer, Queue, Reverb}
Reset ==
    /\ op = "none" /\ Code \subseteq files
    /\ up' = up \ (KnownUnits \cap files)
    /\ worker' = IF Queue \in up' THEN worker ELSE Off
    /\ reverb' = IF Reverb \in up' THEN reverb ELSE Off
    /\ files' = files \cap (KnownUnits \ owned)
    /\ drivers' = NoDrivers /\ cached' = NoDrivers
    /\ owned' = {} /\ guide' = 0 /\ report' = NoReport /\ finalized' = FALSE
    /\ touched' = FALSE
    /\ UNCHANGED <<site, op, pc, started, attempt, runs>>

\* The process is killed, or the machine fails.
Interrupt ==
    /\ op = "finalize"
    /\ Ends
    /\ UNCHANGED <<app, records, history>>

Next ==
    \/ BrowserInstall \/ StartFinalize \/ MergeSettings \/ SaveSettings \/ LinkStorage
    \/ Optimize \/ VerifyEffective \/ Register \/ WriteUnit \/ VerifyUnits \/ Enable
    \/ AllEnabled \/ RestartQueue \/ WorkerRestarts \/ WriteProbe \/ RunProbe \/ ReverbAnswers
    \/ Handshake \/ HandshakeMisses \/ Pages \/ UpdateGuide \/ CompleteStep \/ MergeReport
    \/ Fails \/ FailStep \/ OperatorEdits \/ ResumeTls \/ Reset \/ Interrupt

Spec == Init /\ [][Next]_vars

---------------------------------------------------------------------------
(* Properties.                                                             *)

TypeOK ==
    /\ up \subseteq KnownUnits /\ guide \in 0..1 /\ attempt \in 0..Attempts - 1
    /\ drivers.key \in 0..Runs /\ cached.key \in 0..Runs
    /\ report.phase \in {"none", "pass", "fail"}
    /\ (op = "none") = (pc = "idle")
    /\ finalized \in BOOLEAN /\ touched \in BOOLEAN

(* When the report says finalize has passed, the setup guide's checks of   *)
(* the runtime and the application find nothing wrong, until the operator  *)
(* changes the settings: the two sides agree on units, services and keys.  *)
Seen == [app |-> "gnuboard7", redis |-> site.redis, phase |-> report.phase]
ChecksAgree ==
    op = "none" /\ report.phase = "pass" /\ ~touched =>
        /\ Verdict(G7Runtime(Seen, up, files, drivers)) = "pass"
        /\ Verdict(App(Seen, files, 10)) = "manual"

(* A queue worker that was running before has the settings of the last run *)
(* of finalize that passed, or has been told to start again.               *)
WorkerFresh ==
    op = "none" /\ report.phase = "pass" /\ site.redis /\ ~touched =>
        worker.on /\ (worker.told \/ worker.with = drivers)

(* No run of finalize, also one that fails or is killed, takes its key from *)
(* the Reverb server that is running: browsers that know the key keep their *)
(* connection, and the next handshake finds the server.                    *)
KeyKept == reverb.on => reverb.key = drivers.key

(* After reset no unit of the runtime is running or installed, wherever    *)
(* finalize was interrupted.                                               *)
ResetRemovesRuntime == Code \cap files = {} => up = {} /\ files = {}

===============================================================================
