---- MODULE ServerState ----
(***************************************************************************)
(* What g7inst keeps on the server it provisions: the installer's own      *)
(* files (state.json, report.json, owned-files.json, the step journals),   *)
(* the things its steps put in place, and the memory of the one process    *)
(* that holds the operation lock.  The modules that extend this one add    *)
(* the operations; none of them adds a variable.                           *)
(***************************************************************************)
EXTENDS FiniteSets, Naturals, Sequences

CONSTANTS
    LocalTest,  \* deployment_mode = "local-test": TLS is skipped
    Faults      \* a process may die, and a file operation fail, anywhere; without
                \* them only the commands a step runs may fail

ASSUME InstallerAssumption == LocalTest \in BOOLEAN /\ Faults \in BOOLEAN

Txn == {"site", "runtime", "vhost", "database", "tls", "app"}
Step == Txn \cup {"packages"}
PreTls == Step \ {"tls", "app"}

\* The order run_with_probe_and_paths and resume_pre_tls_steps work in, as the
\* set of steps that come before each one.
Before ==
    [packages |-> {},
     site     |-> {"packages"},
     runtime  |-> {"packages", "site"},
     vhost    |-> {"packages", "site", "runtime"},
     database |-> {"packages", "site", "runtime", "vhost"},
     tls      |-> {"packages", "site", "runtime", "vhost", "database"},
     app      |-> {"packages", "site", "runtime", "vhost", "database", "tls"}]

\* Steps that leave, outside the files their transaction snapshots, an artefact
\* a rerun accepts only when owned-files.json lists it: the document root below
\* the web root, nginx.conf.before-g7, secrets.toml.
Guarded == {"site", "runtime", "database"}

\* Steps whose snapshotted files are created through write_owned_file.
OwnedConf == {"site", "runtime", "vhost", "database"}

Meta == {"dirs", "owned", "config", "report", "state", "journal"}

\* A path in owned-files.json, told apart as far as the properties need.
Token == (OwnedConf \X {"conf"}) \cup (Guarded \X {"side"}) \cup (Meta \X {"meta"})

Phase == {"prepared", "package-failed", "packages-installed", "vhost-failed",
          "runtime-configured", "vhost-enabled", "database-configured",
          "app-configured", "tls-enabled", "completed"}
Current == Step \cup {"none", "finalize"}
Baseline == {"none", "clean", "dirty"}
Effect == {"account", "database", "certificate", "source"}

VARIABLES
    \* the server
    pkgs,     \* the packages of the plan: "none", "some" or "all" installed
    live,     \* steps whose snapshotted files are in place
    side,     \* Guarded steps whose other artefact exists
    effects,  \* account, database, certificate, application source
    \* the installer's files
    meta,     \* which of them exist
    state,    \* state.json
    report,   \* report.json
    owned,    \* what owned-files.json lists besides the installer's own files
    journal,  \* transactions/<step>/manifest.json
    \* the running operation
    op, pc, step, at, after, mem, wipe,
    \* history: a rollback or reset has begun destroying, state.json stands
    torn

server == <<pkgs, live, side, effects>>
disk == <<meta, state, report, owned, journal>>
process == <<op, pc, step, at, after, mem, wipe>>
vars == <<server, disk, process, torn>>

NoState == [phase |-> "prepared", current |-> "none", done |-> {}]
NoReport == [phase |-> "prepared", baseline |-> "none", tls |-> FALSE, app |-> FALSE]
NoJournal == [s \in Txn |-> [status |-> "none", before |-> {}]]
Blank == [phase |-> "prepared", current |-> "none", done |-> {}, owned |-> {},
          baseline |-> "none", tls |-> FALSE, app |-> FALSE]

\* Slip: the finished steps are not taken over from state.json.
LoadedWithoutProgress ==
    [Blank EXCEPT !.phase = state.phase, !.current = state.current, !.owned = owned,
                  !.baseline = report.baseline, !.tls = report.tls, !.app = report.app]

\* What a process that reads the three files has in memory.
Loaded ==
    [phase |-> state.phase, current |-> state.current, done |-> state.done,
     owned |-> owned, baseline |-> report.baseline,
     tls |-> report.tls, app |-> report.app]

Init ==
    /\ pkgs = "none" /\ live = {} /\ side = {} /\ effects = {}
    /\ meta = {} /\ state = NoState /\ report = NoReport /\ owned = {}
    /\ journal = NoJournal
    /\ op = "none" /\ pc = "idle" /\ step = "packages" /\ at = 1
    /\ after = "idle" /\ mem = Blank /\ wipe = {}
    /\ torn = FALSE

\* The process is gone: its memory and, with it, the operation lock.
Stopped ==
    /\ op' = "none" /\ pc' = "idle" /\ step' = "packages" /\ at' = 1
    /\ after' = "idle" /\ mem' = Blank /\ wipe' = {}

\* The files a step's transaction snapshots; vhost also covers the probe file
\* that the site step wrote and that it removes itself.
Covers(s) == IF s = "vhost" THEN {"vhost", "site"} ELSE {s}

\* An operation starts when it gets the non-blocking operation lock.
Lock(name, label) == op = "none" /\ op' = name /\ pc' = label
====
