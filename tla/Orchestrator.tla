---- MODULE Orchestrator ----
(***************************************************************************)
(* g7inst install and g7inst resume: seven steps in a fixed order, each    *)
(* one a journalled transaction (packages excepted), with the progress     *)
(* written to owned-files.json, state.json and report.json, in this order, *)
(* before and after every step.                                            *)
(***************************************************************************)
EXTENDS ServerState

Running == op \in {"install", "resume"}
At(label) == Running /\ pc = label

\* What a step does besides journalling, in the order it does it.
Tasks ==
    [packages |-> <<"inspect", "apt">>,
     site     |-> <<"account", "side", "conf">>,
     runtime  |-> <<"conf", "side">>,
     vhost    |-> <<"conf", "smoke">>,
     database |-> <<"conf", "side", "sql">>,
     tls      |-> <<"certificate", "conf">>,
     app      |-> <<"source", "conf">>]

---------------------------------------------------------------------------
\* Starting

\* doctor: a fresh server, as far as the installer's own traces go.
InstallAllowed ==
    /\ meta = {}
    /\ pkgs # "all"
    /\ live \cap {"runtime", "vhost", "tls"} = {}
    /\ "database" \notin effects

StartInstall ==
    /\ InstallAllowed
    /\ Lock("install", "lib-dir")
    /\ mem' = Blank
    /\ UNCHANGED <<server, disk, step, at, after, wipe, torn>>

MakeLibDir ==
    /\ op = "install" /\ pc = "lib-dir"
    /\ meta' = meta \cup {"dirs"}
    /\ pc' = "reserve"
    /\ UNCHANGED <<server, state, report, owned, journal,
                   op, step, at, after, mem, wipe, torn>>

\* owned-files.json is written before anything it lists exists.
ReserveOwnedFiles ==
    /\ op = "install" /\ pc = "reserve"
    /\ meta' = meta \cup {"owned"}
    /\ owned' = {}
    /\ pc' = "prepare"
    /\ UNCHANGED <<server, state, report, journal,
                   op, step, at, after, mem, wipe, torn>>

WriteConfigAndReport ==
    /\ op = "install" /\ pc = "prepare"
    /\ meta' = meta \cup {"config", "report", "journal"}
    /\ report' = NoReport
    /\ pc' = "first-state"
    /\ UNCHANGED <<server, state, owned, journal,
                   op, step, at, after, mem, wipe, torn>>

WritePreparedState ==
    /\ op = "install" /\ pc = "first-state"
    /\ meta' = meta \cup {"state"}
    /\ state' = NoState
    /\ step' = "packages" /\ pc' = "begin"
    /\ UNCHANGED <<server, report, owned, journal,
                   op, at, after, mem, wipe, torn>>

\* resume reads the three files, and first undoes the step that state.json
\* says was under way if its journal is still open.
StartResume ==
    /\ {"state", "report", "owned"} \subseteq meta
    /\ state.phase # "completed"
    /\ op = "none" /\ op' = "resume"
    /\ mem' = Loaded
    /\ IF state.current \in Txn /\ journal[state.current].status = "started"
         THEN pc' = "restore" /\ step' = state.current
         ELSE pc' = "next" /\ step' = "packages"
    /\ UNCHANGED <<server, disk, at, after, wipe, torn>>

---------------------------------------------------------------------------
\* Undoing a step

\* restore_snapshots gets through the files in part: all of them, or those
\* before the one it cannot restore.
RestoreFiles(s, part) ==
    /\ part \subseteq Covers(s)
    /\ Faults \/ part = Covers(s)
    /\ live' = (live \ part) \cup (journal[s].before \cap part)
    /\ journal' = IF part = Covers(s)
                    THEN [journal EXCEPT ![s] = [status |-> "restored", before |-> {}]]
                    ELSE journal

\* A restore that fails ends the resume: nothing has been written yet.
RestoreUnfinished ==
    /\ op = "resume" /\ pc = "restore" /\ step \in Txn
    /\ \E part \in SUBSET Covers(step) :
         /\ RestoreFiles(step, part)
         /\ pc' = IF part = Covers(step) THEN "persist-owned" ELSE "return"
    /\ after' = "next"
    /\ step' = "packages"
    /\ UNCHANGED <<pkgs, side, effects, meta, state, report, owned,
                   op, at, mem, wipe, torn>>

---------------------------------------------------------------------------
\* Beginning a step

BeginPackages ==
    /\ At("begin") /\ step = "packages"
    /\ mem' = [mem EXCEPT !.current = "packages"]
    /\ pc' = "persist-owned" /\ after' = "apply" /\ at' = 1
    /\ UNCHANGED <<server, disk, op, step, wipe, torn>>

\* Slip: the step is marked finished when it begins.
BeginTransactionMarksDone ==
    /\ At("begin") /\ step \in Txn
    /\ journal' = [journal EXCEPT
         ![step] = [status |-> "started", before |-> live \cap Covers(step)]]
    /\ mem' = [mem EXCEPT !.current = step, !.done = @ \cup {step}]
    /\ pc' = "persist-owned" /\ after' = "apply" /\ at' = 1
    /\ UNCHANGED <<server, meta, state, report, owned, op, step, wipe, torn>>

\* StepTransaction::begin, then begin_step in memory; install resets the TLS
\* and application checks to what the guidance says just before TLS.
BeginTransaction ==
    /\ At("begin") /\ step \in Txn
    /\ journal' = [journal EXCEPT
         ![step] = [status |-> "started", before |-> live \cap Covers(step)]]
    /\ mem' = IF op = "install" /\ step = "tls"
                THEN [mem EXCEPT !.current = step, !.tls = LocalTest, !.app = FALSE]
                ELSE [mem EXCEPT !.current = step]
    /\ pc' = "persist-owned" /\ after' = "apply" /\ at' = 1
    /\ UNCHANGED <<server, meta, state, report, owned, op, step, wipe, torn>>

---------------------------------------------------------------------------
\* persist_progress

PersistOwned ==
    /\ At("persist-owned")
    /\ owned' = mem.owned
    /\ pc' = "persist-state"
    /\ UNCHANGED <<server, meta, state, report, journal,
                   op, step, at, after, mem, wipe, torn>>

PersistState ==
    /\ At("persist-state")
    /\ state' = [phase |-> mem.phase, current |-> mem.current, done |-> mem.done]
    /\ pc' = "persist-report"
    /\ UNCHANGED <<server, meta, report, owned, journal,
                   op, step, at, after, mem, wipe, torn>>

PersistReport ==
    /\ At("persist-report")
    /\ report' = [phase |-> mem.phase, baseline |-> mem.baseline,
                  tls |-> mem.tls, app |-> mem.app]
    /\ pc' = after
    /\ UNCHANGED <<server, meta, state, owned, journal,
                   op, step, at, after, mem, wipe, torn>>

---------------------------------------------------------------------------
\* Applying a step, task by task

Task(t) ==
    /\ At("apply")
    /\ at <= Len(Tasks[step])
    /\ Tasks[step][at] = t
    /\ ~(step = "tls" /\ LocalTest)
    /\ at' = at + 1
    /\ UNCHANGED <<disk, op, pc, step, after, wipe, torn>>

\* Slip: every attempt inspects the packages anew.
InspectPackagesAnew ==
    /\ Task("inspect")
    /\ mem' = [mem EXCEPT !.baseline = IF pkgs = "none" THEN "clean" ELSE "dirty"]
    /\ UNCHANGED server

\* The first package baseline is kept; without one the packages are inspected.
InspectPackages ==
    /\ Task("inspect")
    /\ mem' = IF mem.baseline # "none" THEN mem
              ELSE [mem EXCEPT !.baseline = IF pkgs = "none" THEN "clean" ELSE "dirty"]
    /\ UNCHANGED server

\* apt, for the package sources and then for the packages: it may be
\* interrupted with some of them installed.
AptInstall ==
    /\ Task("apt")
    /\ pkgs' = IF pkgs = "all" THEN "all" ELSE "some"
    /\ UNCHANGED <<live, side, effects, mem>>

\* useradd, SQL, certbot, git clone: no transaction takes these back.
EffectOf(t) ==
    CASE t = "account" -> "account"
      [] t = "sql" -> "database"
      [] t = "certificate" -> "certificate"
      [] t = "source" -> "source"

MakeEffect ==
    /\ \E t \in {"account", "sql", "certificate", "source"} :
         Task(t) /\ effects' = effects \cup {EffectOf(t)}
    /\ UNCHANGED <<pkgs, live, side, mem>>

\* write_owned_file and create_owned_symlink refuse a path that exists and is
\* not in the owned list; the TLS and application files are rewritten freely.
ConfRefused(s, listed) ==
    s \in OwnedConf /\ s \in live /\ <<s, "conf">> \notin listed

\* Slip: the file is written and not listed.
WriteConfUnlisted ==
    /\ Task("conf")
    /\ ~ConfRefused(step, mem.owned)
    /\ live' = live \cup {step}
    /\ UNCHANGED <<pkgs, side, effects, mem>>

WriteConf ==
    /\ Task("conf")
    /\ ~ConfRefused(step, mem.owned)
    /\ live' = live \cup {step}
    /\ mem' = IF step \in OwnedConf
                THEN [mem EXCEPT !.owned = @ \cup {<<step, "conf">>}]
                ELSE mem
    /\ UNCHANGED <<pkgs, side, effects>>

\* The site step wants an empty web root unless it owns the probe file; the
\* others want the artefact itself to be theirs.
SideRefused(s, listed) ==
    s \in side /\ <<s, IF s = "site" THEN "conf" ELSE "side">> \notin listed

\* Slip: the artefact is created and not listed.
WriteSideUnlisted ==
    /\ Task("side")
    /\ ~SideRefused(step, mem.owned)
    /\ side' = side \cup {step}
    /\ UNCHANGED <<pkgs, live, effects, mem>>

WriteSide ==
    /\ Task("side")
    /\ ~SideRefused(step, mem.owned)
    /\ side' = side \cup {step}
    /\ mem' = IF step \in side THEN mem
              ELSE [mem EXCEPT !.owned = @ \cup {<<step, "side">>}]
    /\ UNCHANGED <<pkgs, live, effects>>

\* The vhost must serve the probe file, which is then removed.
SmokeAndRemoveProbe ==
    /\ Task("smoke")
    /\ "site" \in live
    /\ live' = live \ {"site"}
    /\ mem' = [mem EXCEPT !.owned = @ \ {<<"site", "conf">>}]
    /\ UNCHANGED <<pkgs, side, effects>>

\* Where a step runs commands: before the task of this number, or after the
\* last one.
CommandsAt ==
    [packages |-> 1..3, site |-> {1, 2, 4}, runtime |-> {1, 3}, vhost |-> {1, 2},
     database |-> 1..4, tls |-> 1..3, app |-> 1..3]

TaskRefused ==
    /\ at <= Len(Tasks[step])
    /\ \/ Tasks[step][at] = "conf" /\ ConfRefused(step, mem.owned)
       \/ Tasks[step][at] = "side" /\ SideRefused(step, mem.owned)

\* A command fails, a check does, or a path is not the installer's to write.
StepFails ==
    /\ At("apply")
    /\ ~(step = "tls" /\ LocalTest)
    /\ Faults \/ at \in CommandsAt[step] \/ TaskRefused
    /\ pc' = "undo"
    /\ at' = 1
    /\ pkgs' \in IF step = "packages" /\ at = 3 THEN {pkgs, "all"} ELSE {pkgs}
    /\ UNCHANGED <<live, side, effects, disk, op, step, after, mem, wipe, torn>>

---------------------------------------------------------------------------
\* The two ends of a step

PackagesDone ==
    /\ At("apply") /\ step = "packages" /\ at = 3
    /\ at' = 1
    /\ pkgs' = "all"
    /\ mem' = [mem EXCEPT !.phase = "packages-installed", !.current = "none",
                          !.done = @ \cup {"packages"}, !.tls = FALSE]
    /\ pc' = "persist-owned" /\ after' = "next"
    /\ UNCHANGED <<live, side, effects, disk, op, step, wipe, torn>>

PackagesFailed ==
    /\ At("undo") /\ step = "packages"
    /\ mem' = [mem EXCEPT !.phase = "package-failed", !.current = "packages"]
    /\ pc' = "persist-owned" /\ after' = "return"
    /\ UNCHANGED <<server, disk, op, step, at, wipe, torn>>

\* Slip: a phase name no version of the state file knows.
PhaseAfterUnknown(s) == IF s = "database" THEN "database-ready" ELSE mem.phase

PhaseAfter(s) ==
    CASE s = "runtime" -> "runtime-configured"
      [] s = "vhost" -> "vhost-enabled"
      [] s = "database" -> "database-configured"
      [] s = "tls" -> "tls-enabled"
      [] s = "app" /\ mem.phase # "tls-enabled" -> "app-configured"
      [] OTHER -> mem.phase

\* install writes the vhost's marker with the step still current and its
\* journal still open; every other step closes its journal first.  Certbot's
\* dry run reaches the challenge through the vhost.
StepApplied ==
    /\ At("apply") /\ step \in Txn
    /\ at = Len(Tasks[step]) + 1 /\ at' = 1
    /\ step = "tls" => "vhost" \in live
    /\ mem' = [mem EXCEPT
         !.phase = PhaseAfter(step),
         !.current = IF op = "install" /\ step = "vhost" THEN "vhost" ELSE "none",
         !.done = @ \cup {step},
         !.tls = @ \/ step = "tls",
         !.app = @ \/ step = "app"]
    /\ IF op = "install" /\ step = "vhost"
         THEN pc' = "persist-owned" /\ after' = "seal"
         ELSE pc' = "seal" /\ after' = "next"
    /\ UNCHANGED <<server, disk, op, step, wipe, torn>>

\* TLS that is skipped (local test) or put off (DNS does not point here yet).
TlsNotAttempted ==
    /\ At("apply") /\ step = "tls" /\ at = 1
    /\ mem' = IF LocalTest
                THEN [mem EXCEPT !.tls = TRUE, !.current = "none",
                                 !.done = @ \cup {"tls"}]
                ELSE [mem EXCEPT !.tls = FALSE, !.current = "tls"]
    /\ pc' = "seal" /\ after' = "next"
    /\ UNCHANGED <<server, disk, op, step, at, wipe, torn>>

\* StepTransaction::complete.  The progress is persisted next, but for the vhost
\* step of install, whose progress is on disk already, and for the last step of
\* resume, which leaves it to the end of the command.
Seal ==
    /\ At("seal")
    /\ journal' = [journal EXCEPT ![step] = [status |-> "completed", before |-> {}]]
    /\ mem' = [mem EXCEPT !.current = IF op = "install" /\ step = "vhost" THEN "none" ELSE @]
    /\ pc' = IF <<op, step>> \in {<<"install", "vhost">>, <<"resume", "app">>}
               THEN "next" ELSE "persist-owned"
    /\ UNCHANGED <<server, meta, state, report, owned,
                   op, step, at, after, wipe, torn>>

\* Slip: state.json no longer names the step that failed.
UndoStepForgetsStep ==
    /\ At("undo") /\ step \in Txn
    /\ \E part \in SUBSET Covers(step) : RestoreFiles(step, part)
    /\ mem' = [mem EXCEPT !.current = "none"]
    /\ pc' = "persist-owned"
    /\ after' = IF step = "tls" THEN "next" ELSE "return"
    /\ UNCHANGED <<pkgs, side, effects, meta, state, report, owned,
                   op, step, at, wipe, torn>>

\* The error is reported whether or not the restore succeeded; TLS alone does
\* not end the run.
UndoStep ==
    /\ At("undo") /\ step \in Txn
    /\ \E part \in SUBSET Covers(step) : RestoreFiles(step, part)
    /\ mem' = [mem EXCEPT
         !.current = step,
         !.phase = IF step \in {"site", "vhost"} THEN "vhost-failed" ELSE @,
         !.tls = IF step = "tls" THEN FALSE ELSE @,
         !.app = IF step = "app" THEN FALSE ELSE @]
    /\ pc' = "persist-owned"
    /\ after' = IF step = "tls" THEN "next" ELSE "return"
    /\ UNCHANGED <<pkgs, side, effects, meta, state, report, owned,
                   op, step, at, wipe, torn>>

---------------------------------------------------------------------------
\* Going on

NextInstallStep ==
    /\ op = "install" /\ pc = "next"
    /\ \E s \in Step : Before[s] = Before[step] \cup {step} /\ step' = s
    /\ pc' = "begin"
    /\ UNCHANGED <<server, disk, op, at, after, mem, wipe, torn>>

AppReady == mem.app /\ "app" \in mem.done

\* Slip: a TLS step that did not pass is tried again at once.
ResumeStepRetriesTls(s) ==
    IF s \in PreTls
      THEN s \notin mem.done /\ Before[s] \subseteq mem.done
      ELSE /\ PreTls \subseteq mem.done
           /\ IF s = "tls" THEN ~mem.tls ELSE mem.tls /\ step # "app" /\ ~AppReady

\* resume skips what the markers record; TLS and the application go by the
\* checks in the report, and each is tried once.
ResumeStep(s) ==
    IF s \in PreTls
      THEN s \notin mem.done /\ Before[s] \subseteq mem.done
      ELSE /\ PreTls \subseteq mem.done
           /\ IF s = "tls" THEN step \notin {"tls", "app"} /\ ~mem.tls
                           ELSE /\ step = "tls" \/ mem.tls
                                /\ step # "app" /\ ~AppReady

NextResumeStep ==
    /\ op = "resume" /\ pc = "next"
    /\ \E s \in Step : ResumeStep(s) /\ step' = s
    /\ pc' = "begin"
    /\ UNCHANGED <<server, disk, op, at, after, mem, wipe, torn>>

\* Slip: the last step run completes the installation.
CompletesRegardless == TRUE

Completes ==
    IF op = "install" THEN "tls" \in mem.done ELSE mem.tls /\ AppReady

Finish ==
    /\ At("next")
    /\ IF op = "install" THEN step = "app" ELSE \A s \in Step : ~ResumeStep(s)
    /\ mem' = [mem EXCEPT !.phase = IF Completes THEN "completed" ELSE @]
    /\ pc' = "persist-owned" /\ after' = "return"
    /\ UNCHANGED <<server, disk, op, step, at, wipe, torn>>

OrchestratorStep ==
    \/ MakeLibDir \/ ReserveOwnedFiles \/ WriteConfigAndReport \/ WritePreparedState
    \/ RestoreUnfinished
    \/ BeginPackages \/ BeginTransaction
    \/ PersistOwned \/ PersistState \/ PersistReport
    \/ InspectPackages \/ AptInstall \/ MakeEffect \/ WriteConf \/ WriteSide
    \/ SmokeAndRemoveProbe \/ StepFails
    \/ PackagesDone \/ PackagesFailed \/ StepApplied \/ TlsNotAttempted
    \/ Seal \/ UndoStep
    \/ NextInstallStep \/ NextResumeStep \/ Finish
====
