# g7inst in TLA+

`g7inst` is a command line program, run as root, that turns a fresh server into
one that runs GnuBoard7: packages, a site account, PHP, a web server vhost, a
database, a certificate, the application.  A web controller
(`g7inst web-setup`) offers the same commands to a browser.  The hard part is
not the installation but what is left when it stops half way, since each command
builds on the files and the traces that earlier commands left behind.  This
directory models that: what the commands keep on the server, in which order they
write it, and who may do so at the same time.

Contents: the system and its parts; the modules; the runs and what they show;
bounds and fairness; what is proved; where code and documents disagree; what is
not modelled; the plan.

## The system

Crates under `src/crates`: `g7-cli` (dispatch, web controller), `g7-core` (the
commands), `g7-state` (the files under `/var/lib/g7-installer` and the lock),
`g7-system` (commands, packages, services), `g7-render` (templates),
`g7-release` (downloads).  The browser's side is in `src/web`.

| Part | State it keeps | Operations | What makes it correct |
|---|---|---|---|
| State files (`g7-state`) | `state.json`: phase, current step, finished steps; `owned-files.json`: paths the installer made; each written to a temporary file and renamed | begin, complete and fail a step; record a path | progress is never forgotten; what was made is listed |
| Operation lock (`lock.rs`) | `flock` on `/run/lock/g7-installer.lock` | acquire without waiting, release when dropped or when the process dies | one party works on the server at a time |
| doctor (`doctor.rs`) | none | checks a server before install | what it admits carries what will be put on it |
| plan, sizing, resource policy (`plan/*`, `resource_policy.rs`) | none of its own; `report.json` keeps the plan | options to a plan (names, packages, services, ports); memory and processors to limits; the plan back from the report | limits fit the memory and are accepted by the servers; the plan can be carried out, served and resumed |
| app profiles (`app_profile.rs` and its table) | none | packages, tools and units of each application | the same as for the plan |
| install, resume (`install/orchestrator.rs`) | `report.json` (plan, package baseline, TLS and application checks), memory of the process | swap, then seven steps in a fixed order, progress written before and after each | a recorded step is really there; a rerun gets through; completed means complete |
| Step transactions (`install/transaction.rs`) | `transactions/<step>/manifest.json` and backups | begin, complete, restore, restore after a crash | a failed or interrupted step leaves its files as they were |
| The steps (`install/{packages,site,runtime,vhost,database,tls,apps}.rs`) | the server | write files, run commands | they refuse what is not theirs, accept what is; what they add is on record; every name is served |
| rollback (`rollback.rs`) | none of its own | stop services, purge packages, remove sources and owned files | never runs on a server that has data to lose, and takes no package that was there before and is needed |
| reset (`reset.rs`) | none of its own | stop services and swap, drop database, delete account, purge, remove owned files | install starts again afterwards; nothing of the installer is left |
| finalize (`finalize.rs`) | current step in `state.json`; settings, units, `report.json` | settings, cache, units, queue worker, Reverb server, trials, records | a passed run leaves a runtime that works and that the checks agree with; a rerun disturbs nobody |
| Command runner (`command.rs`), probes (`g7-system`) | audit log, what the observer was told | run a program, feed its input, read its output in two threads | returns, with all the output, told in order |
| Web controller (`web_setup/api.rs`, `recovery.rs`, `provision_actions.rs`) | running flag | accept an operation, run it as a blocking task, answer; check the installed services | the flag tells the truth and clears; a check passes what the installer has set up |
| Event stream (`web_setup/session.rs`, `routes.rs`, `web/modules/event-stream.js`) | event counter, history, broadcast channel, page's last number | publish, connect, replay, catch up after a lag, reconnect | the page shows what happened |
| Web sessions (`web_setup/session.rs`) | tokens, client address | log in, check | - |
| status, logs, update, self-update | none | read the files | - |
| Web interface (`web/app.js`), rendering, scripts | none of the installation's | - | - |

How they interact.  A command takes the lock, reads the three files, works, and
writes them.  Inside one process everything is sequential but the command
runner; what interleaves are *commands over time* (install, then a crash, then
finalize, then resume), the runner's threads with the program they serve, and,
in the controller, requests, blocking tasks, the two threads that read a
command's output and the sockets.  The controller and the command line meet at
the lock only: the running flag is the controller's own.

What is hard: a process that dies between two writes; three files that are
written one after the other; a restore that fails half way; a retry that meets
its own leftovers, or its own stale checks; commands in an order nobody tried; a
plan that goes through a file and back; sums of tables at their borders; pipes
that fill; panics, lost clients and lost connections in the controller.
`PROJECT.json` lists these as hazards, each at its line, with the properties
that watch it.

## The modules

| Module | Models | Extends |
|---|---|---|
| `ServerState` | the server, the files, the memory of the running process; `Init`, the lock | |
| `Orchestrator` | install and resume | `ServerState` |
| `Teardown` | rollback and reset | `ServerState` |
| `Finalize` | what finalize does to the installer's files | `ServerState` |
| `Installation` | what the record of an installation promises (abstract) | |
| `Installer` | all commands together with crashes; the properties; implements `Installation` | `Orchestrator`, `Teardown`, `Finalize` |
| `AtomicStep` | what a transaction promises (abstract) | |
| `StepTransaction` | one step's transaction, file by file; implements `AtomicStep` | |
| `InstallPlan` | the operator's options, the plan made of them, the plan back from the report | |
| `Doctor` | every check of a fresh server and the verdict | |
| `Sizing` | the memory and worker limits: six tiers and a formula | |
| `Routing` | the server blocks before and after HTTPS, and where a request ends | |
| `ProvisionChecks` | the checks of the setup guide | |
| `Provisioning` | from options to verified packages and back, package by package; composes the five above | the five above |
| `AppRuntime` | finalize step by step, with the units and servers it starts | `ProvisionChecks` |
| `CommandRunner` | `run()`, its threads, the program, its pipes | |
| `EventStream` | the live log | |
| `WebController` | the running flag, the lock, requests, tasks | |
| `MCProvisioning`, `MCCommandRunner` | the servers, options and programs of the runs | the module they instantiate |
| `InstallerProofs` | theorems about `Installer`: types, rollback, progress, the first baseline, commands that come to an end | `Installer` |
| `RecordedProofs` | theorems about `Installer`: what is recorded is there, completed is whole, a step cut short is named, the refinement of `Installation`, and what holds where only commands fail | `InstallerProofs` |
| `StepTransactionProofs`, `WebControllerProofs`, `EventStreamProofs`, `ProvisioningProofs`, `CommandRunnerProofs`, `AppRuntimeProofs` | theorems | the module they are about |

`Installer` and `Provisioning` look at the same commands from two sides.
`Installer` has all seven steps, every write and every crash between two writes,
and takes the packages as one thing; `Provisioning` has the packages, sources,
services and swap parts one by one, with the values that the plan gives them,
and of the steps after the packages only what concerns them.

Some modules hold operators whose comment begins with *Slip*: a plausible wrong
version of the definition after it.  No action uses them; they serve to see that
a property notices the difference.

### Installer: state and code

`pkgs` (none, some, all of the plan's packages), `live` (steps whose snapshotted
files are in place), `side` (what a step leaves outside its snapshot: the
document root below the web root, `nginx.conf.before-g7`, `secrets.toml`) and
`effects` (account, database, certificate, application source, which no
transaction takes back) are the server.  `meta` says which of the installer's
own files exist; `state`, `report`, `owned` and `journal` are their contents.
`op`, `pc`, `step`, `at`, `after`, `mem` and `wipe` are the running process: the
command, where it is, the step and the task in it, where to go after the
progress write, `InstallerState`/`InstallReport`/`OwnedFiles` in memory, and the
paths still to remove.  `op = "none"` means that the lock is free.  `torn` is a
history variable: a rollback or a reset has begun to destroy things while
`state.json` still stands; what that file says is then not relied on.

One action is one write, or one task of a step with no write inside that a later
command could see apart.  `persist_progress` is three actions (`PersistOwned`,
`PersistState`, `PersistReport`) because a crash between them is what matters;
`after` holds the place it was called from.  The seven steps are one table
(`Tasks`): the tasks, in order, of each step; `Task(t)` is the guard shared by
the actions that perform one.  A command that a step runs either succeeds or
ends the step (`StepFails`, allowed where `CommandsAt` says the step runs
something).  The table `RemovalOrder` is the order `rollback` and `reset` delete
paths in (deepest first, then by position in the list).  In `reset` a
service that cannot be stopped or a `userdel` that fails ends the command; a
`userdel` that fails is taken to have deleted nothing.

`resume` restores the transaction of `state.json`'s current step before anything
else (`StartResume`, `RestoreUnfinished`), skips what `state.json` records, and
goes by the report for TLS and the application (`ResumeStep`).  `install`
differs from it in one place that matters: the vhost's marker is written with
the step still current and its transaction open (`StepApplied`, `Seal`).

`Installation` is the same system as whoever reads `state.json` later may think
of it: a set of parts that are there, a set of parts on record (`kept`), and a
stage.  What is on record is there and stays; what is not may come and go, one
part at a time; a completed installation has all it needs, and nothing but a
teardown touches it; a teardown withdraws the record before it takes anything
away.  `Installer` implements it with `Stage` (the phase, `torn` being
*withdrawn*), `Kept` (the finished steps that resume goes by without looking at
the server) and `There` (the steps of which everything is in place).  TLS and
the application are never in `Kept`, because resume goes by the checks in the
report for them, nor is the vhost, whose marker comes before the end of its
transaction.

### StepTransaction: state and code

`file` is what is found at each of the step's `N` paths: nothing, a regular file
(with its own mode or the 0600 that `atomic_write` creates with) or a symbolic
link.  `manifest` and `backup` are on disk; a backup is `"torn"` when a copy was
cut short.  `current` says that `state.json` names this step.  A restore goes
through the paths in the opposite order, and each one takes two steps: the rename
and then the mode, or the removal and then the link.  `RunGoesOn` tells TLS,
whose failure does not end the run, from the other steps; the run has it FALSE,
and the theorem assumes so.

`AtomicStep` has the files change at one moment only, `Commit`.  The refinement
reads the files as the next command will have them: where the transaction is
open (`Open`: manifest started and the step current) that is what the manifest
and the backups restore, otherwise what is there.

### EventStream: state and code

An event is its number.  `publish_event` is three actions, since nothing holds
them together: `Number` (fetch_add), `Record` (history), `Broadcast` (send).
`rx` and `lagged` are the socket's receiver, `last` and `batch` the socket's
`last_seq` and the events it is handing over, `lastSeq` and `shown` the page.
`Reader` are the threads that publish.  A socket publishes a greeting when it
connects (`"socket"`).  One socket and one page are modelled; a second browser is
for the first just one more publisher of greetings.  `crossed` is a history
variable: a publication has overlapped with another, or with a connection that
was being made.

### WebController: state and code

`running` is `install_running`, `lock` the holder of the operation lock, `pc`
where each party is, `waiting` the operations whose handler still awaits its
blocking task (a client that goes away takes its handler with it, not the task).
`Operation` are requests for install, resume, finalize, reset and rollback,
`Action` provision actions, which look at the flag and take the lock in the
handler itself, `Poll` the recovery poll, which tries a rollback without
changing anything, `Cli` other processes.  After a panic the guard clears the
flag (`DropGuard`) and the handler clears it again (`Answer`).  A request stands
for all that come after it, but for one that panicked, which stays `"gone"`: so
the properties know that there was a panic.

### Provisioning: state and code

`host` is the server as it was found (what doctor's probes read of it, the
packages that were there, which of them apt brought by itself, which need which,
what Ubuntu's archive offers), `opt` the operator's options; both are chosen in
`Init` and stay.  `swap` says which of the five parts of the managed swap are there: the systemd unit, the sysctl file, the
file, the signature that `mkswap` puts on it, and that the kernel swaps to it.
`sources`, `pkgs` and `active` are apt sources, packages and services; `state`,
`report` and `recorded` are the files under `/var/lib/g7-installer`; `plan`,
`baseline`, `todo`, `checked` and `network` are the memory of the command, lost
when it ends or is killed (`Forget`).

`StartInstall` needs doctor's consent (`Admits`) and a valid plan (`Builds`).
`StartResume` rebuilds the plan from the report (`OptionsFromReport`), starts at
the first step that is not finished, and never looks at the swap.  The packages
step is one action for each command it runs, since each can fail or be killed
with something already added; `WriteReport` is where the baseline reaches the
disk.  `Tls` decides by the network checks in memory, which resume took from the
report.  `Rollback` and `Reset` are one action each here; their order and their
crashes are in `Teardown`.  Both purge with `apt-get purge --auto-remove`
(`apt.rs:65`), which may take more than it is told (`MayGo`): what needs a
package that goes, what apt brought and nothing asked for needs any longer, and
of what the installer added anything.  `Purges` leaves open how much of it goes.
`reset` first marks certbot's packages as asked for (`Protected`); `rollback`
does not.  An `apt-get install` adds what it is told and takes nothing.

Names (accounts, hosts, database users, paths) are sequences of parts, words and
marks: `["my", "-", "shop"]`.  This is as much of a string as the rules about
dashes, dots and prefixes need.  `Sizing` computes in MiB with the code's
integer divisions and the `u16` cast of the processor count (`% 65536`).

### AppRuntime: state and code

`drivers` is `settings/drivers.json`, `cached` what Laravel has cached of it;
`worker` and `reverb` are the two servers with the settings they were started
with, `up` the running units, `owned`, `guide`, `report` and `finalized` the
records.  A key is the number of the run that drew it.  `Enable` starts a unit
only where it is not running; a worker that was told to restart does so later
(`WorkerRestarts`), and Reverb answers some time after its start
(`ReverbAnswers`), which is why the handshake is tried `Attempts` times.
`OperatorEdits` are changes in GnuBoard7's own administration, `ResumeTls` a
resume that sets up HTTPS and writes the report anew.  `touched` is a history
variable: what finalize left was changed by the operator since.

### CommandRunner: state and code

A program is a sequence of what it does: read a unit of its input, close it,
write a line to either stream, leave a process behind.  `stdin` and `pipe` are
the three pipes, of bounded size; `pc` is where `run()` is, `reader` where its
two threads are.  A write to a full pipe waits, a read of an empty one waits
until there is something or nobody holds the other end.  A program that has
closed its input makes the runner's write fail (`WriteFails`), on which the code
returns an error without waiting for the program (`Abandon` waits for the
readers only, which are joined as their scope ends).  `events` and `audit` are
what the observer and `commands.jsonl` were given.  An empty line is output
that the observer is not told of (`command.rs:246`).  That arguments and lines
are redacted on the way is left out.

## The runs

| Run | Checks | Shows |
|---|---|---|
| `public_crash` | `TypeOK`, `RollbackSafe`, `RecordedStepsApplied`, `OpenStepIsCurrent`, `FirstBaselineKept`, `ProgressKept`, `PromiseKept` | what survives every sequence of commands with crashes, write errors and half-failed restores anywhere, that a step cut short is not lost sight of among it; that the commands implement `Installation` |
| `public_calm` | `BaselineTrue`, `RerunAccepted`, `OwnedComplete`, `ResetReopens`, `CommandEnds` | what holds as long as only the commands a step runs fail, as the code is written to expect |
| `local_calm` | `CompletedIsWhole` | that a local test, where TLS is skipped, completes only as a whole |
| `rerun_after_crash` | `RerunAccepted` (violated) | where a crash breaks what the documents promise of resume |
| `transaction_atomic` | `Atomic` | the transaction implements `AtomicStep` with a crash anywhere, when the step's failure ends the run |
| `provisioning` | `TypeOK`, `AdmittedFits`, `ServersAccept`, `ServicesInstalled`, `RoutingSound`, `InstalledPassesChecks`, `ResumeKeepsPlan`, `PreexistingKept`, `AddedIsRecorded`, `ResetLeavesNothing` | plan, sizing, routing, packages and their removal, for all the servers and options of `MCProvisioning`, with kills anywhere |
| `dns_fixed` | `DeferredForPresentDns` (violated) | resume goes by the network checks of an earlier attempt |
| `plan_resume` | `PlanResumable` (violated) | an account with a dash makes a plan that no resume accepts |
| `finalize` | `TypeOK`, `ChecksAgree`, `WorkerFresh`, `KeyKept`, `ResetRemovesRuntime` | finalize failing or killed anywhere, and run again, between edits, HTTPS and reset |
| `command` | `TypeOK`, `OutputWhole`, `EventsFaithful`, `Returns` | the command runner against programs that read and write in every order |
| `events` | `TypeOK`, `NewestShown`, `NothingMissing` | a page that has caught up shows the newest event, always, and all events while publications keep apart |
| `web` | `OneWorks`, `FlagShowsTask`, `FlagClears` | requests, panics, lost clients, a killed controller and other processes |

The properties in a sentence each:

- `RollbackSafe`: while rollback runs there is no database, source, HTTPS vhost
  or application file on the server.
- `RecordedStepsApplied`: what `state.json` records as finished, and resume
  therefore skips, is in place.  (The vhost's files are left out here; see the
  disagreements below.)
- `CompletedIsWhole`: phase `completed` means that everything is there.
- `FirstBaselineKept`: a baseline that has reached `report.json` is never
  replaced.  `BaselineTrue`: it is the state before the first attempt.
- `ProgressKept`: no write of `state.json` forgets a finished step.
- `PromiseKept`: the commands implement `Installation`; among other things a
  public installation is marked completed only as a whole, crashes or not.
- `RerunAccepted`: the next resume is not refused because of what an earlier
  attempt left.
- `OwnedComplete`: between commands everything made is listed.
- `OpenStepIsCurrent`: an unfinished step before TLS whose files differ from what
  its open transaction recorded is the one that `state.json` names, which resume
  restores first, unless a finalize has put its own name there since.
- `ResetReopens`: after a reset that got to its end install starts.
- `CommandEnds`: every command ends.
- `AdmittedFits`: on a server that doctor lets through, all services busy at once
  fit into the memory, the database has a connection for every PHP worker, and
  the disk has room for the swap file.
- `ServersAccept`: the limits are ones that PHP-FPM (on the fixed tiers), Apache
  and Nginx accept.
- `ServicesInstalled`: each service that the packages step starts comes with a
  package of the plan, each port it waits for has a listener.
- `RoutingSound`: before and after HTTPS every name of the certificate is served
  by one block, answers the authority's challenge, and leads to the application
  in at most two redirects; nothing is served over HTTPS that the certificate
  lacks.
- `InstalledPassesChecks`: what the packages step has verified also passes the
  setup guide's checks.
- `ResumeKeepsPlan`: the plan that resume makes of the report is the one that
  was interrupted.
- `PreexistingKept`: no package that was there before is ever removed, but those
  that apt brought and that nothing asked for needed when the server was found
  (`Idle`), which any `--auto-remove` takes.
- `AddedIsRecorded`: unless something was killed, every apt source and every
  package that was added is on record when a command ends.  It says nothing of
  the swap: its parts are recorded late, after a failure of the swap they are
  there unrecorded, and reset finds them by what they are.
- `ResetLeavesNothing`: reset leaves no swap behind, even after kills, and
  otherwise no source and no package but those that renew certificates.
- `DeferredForPresentDns`, `PlanResumable`: the two violated ones.
- `ChecksAgree`: a run of finalize that passed also passes the checks of the
  guide, which read the same units, files and settings by names of their own.
- `WorkerFresh`: after such a run the queue worker has the saved settings, or was
  told to restart.
- `KeyKept`: no run of finalize takes its key from the running Reverb server.
- `ResetRemovesRuntime`: reset finds every unit, wherever finalize stopped.
- `OutputWhole`: a command that succeeds returns everything that it, and what it
  left behind, have written, in order.
- `EventsFaithful`: the observer hears a start, then every line of a stream that
  is not empty, in its order, then a finish, and nothing after `run()` has returned.
- `Returns`: `run()` returns, whatever the program reads and writes first.
- `NewestShown`, `NothingMissing`: the page and the history.
- `OneWorks`, `FlagShowsTask`, `FlagClears`: the lock and the flag.

## Bounds and fairness

`Installer` has no bound: its state is finite because steps, files and phases
are.  Any number of commands and crashes in any order is explored.  `LocalTest`
is the deployment mode.  `Faults` allows crashes, write errors and restores that
fail half way; without it only commands fail.  The baseline is *clean* (the
packages were not there) or *dirty* (they were): the runs start on a fresh
server, where *dirty* can only be a mistake.

`StepTransaction`: `N = 2` paths and two contents.  Two paths are enough for a
restore that has done one and not the other, and for the order of the two; two
contents for an old and a new one.  The theorem has any number of both.

`MCProvisioning`: a sensible server and sensible options, and everything that
differs from one of them in a thing or two.  The servers: memory on both sides
of each border between the tiers and of what doctor admits, up to 1 TiB, each
with 1, 2, 8, 1023 and 1024 processors (64 times 1024 is where the cast wraps);
every outcome of every other probe; servers with packages, swap parts or names
that resolve elsewhere.  The options: each value of each option, the
combinations of web server, application and `www` mode, and refused values.
Every odd server meets the sensible options, and every option the *usual*
servers, which differ in what an option can matter for: the archive's versions,
where the names resolve, packages and swap that were there, among them packages
that others brought and one that nothing needs (`Lived`).  The number of
commands and kills is not bounded.

`AppRuntime`: `Attempts = 5` is `REVERB_HANDSHAKE_ATTEMPTS`.  `Runs = 3` bounds
how often finalize starts, since each may draw a key: one that fails, one that
repeats it, one after a reset or an edit.  Because of it the system stops,
hence `CHECK_DEADLOCK FALSE`.  The theorems have any number of runs.

`MCCommandRunner`: pipes hold one line or unit, so that everybody waits for
everybody as early as possible; eight programs that write before they read, read
before they write, do not read, stop reading, fill one stream first, or leave a
process behind; no input, an empty one, and inputs of one and three units, below
and above what the pipe holds.  A process left behind holds both streams and
writes one more line.

`EventStream`: `Events = 6`, two readers.  `EVENT_HISTORY_LIMIT` is 2000 and the
channel's capacity 128 in the code, 3 and 2 here, so that both overflow; as in
the code the history is the longer one.  The bound on events is in the guard of
`MayPublish`; because of it the system stops, hence `CHECK_DEADLOCK FALSE`.
Six are enough for a greeting, a lag, a new connection with its greeting and two
readers that overtake each other.

`WebController`: three operations (the second can be accepted while the first
panics, the third beside it), one action, one poll and two other processes (one
holds the lock, one tries).

Fairness: `WF_vars(Work)` in `Installer` says that a process that holds the lock
keeps running.  Nothing makes anybody start a command.  Commands are assumed to
return; the runner has no timeout.  `CommandRunner` shows what that takes: its
threads are scheduled, the program runs on as far as its pipes let it, and a
process it leaves behind ends (`WF_vars(HelperEnds)`).  The last is an
assumption about the commands that are run and not something the code ensures:
`run()` joins the readers with no limit (`command.rs:199`).  `WF_vars(Task(r))`
in `WebController` says that a blocking task that was spawned is run, on tokio's
blocking pool, and its commands return.  Neither is assumed of clients.

Deadlock is checked in all other modules: a command that finds no next step
would be reported.

## What is proved

For every value of the constants, by TLAPS:

- `TypeCorrect`: `Spec => []TypeOK` of `Installer`.
- `RollbackSafety`: `Spec => []RollbackSafe`.  Not inductive as it stands:
  rollback's guard finds the source and the application by looking at the web
  root, but goes by `state.json` and `report.json` for the rest.  The invariant
  `RollbackInv` says why that is enough.  A server with the database or the
  HTTPS vhost, or with a snapshot that could bring the latter back (`Deep`), has
  the runtime step on record, in `state.json` and in the memory of whatever
  rewrites that file (`DeepRecorded`, `MemoryKeepsProgress`, `Agreed`,
  `RuntimeFirst`, `NextAfterRuntime`); install begins on a server that is not
  deep (`EarlyShallow`), and the journals, with the snapshot in them, are
  removed after `state.json` and before install could start again
  (`StateHasJournal`, `SnapshotInJournal`, `WipeOrder`, `FilesThere`).
- `ProgressIsKept`: the action property `ProgressKept`, from the same invariant
  (`MemoryKeepsProgress`).
- `BaselineIsKept`: the action property `FirstBaselineKept`.  `BaselineInv` adds
  to `RollbackInv`: a process under way has the baseline that it read from the
  report or wrote there (`BaselineRemembered`), and where there is no report
  there is no baseline, so that install's first report replaces none
  (`NoReportNoBaseline`, `FirstReport`, `ReportThere`).
- `RecordedStepsAreApplied`: `RecordedStepsApplied`, with crashes and in both
  deployment modes.  `RecordedInv` adds to `RollbackInv` what the server owes to
  the tasks of a step that are behind it (`TasksMade`, `FirstTask`), that a step
  on record is not begun again and has no open transaction that could undo it
  (`InOrder`, `NotYetDone`, `OpenNotDone`, `Restoring`), that what is said of
  the file is true of the memory it will be written from (`RememberedApplied`),
  and that a teardown is known as one before it destroys anything (`TornFirst`).
- `CompletedInstallationIsWhole`: `CompletedIsWhole`, for public installations
  with crashes, and for local tests without; a local test with crashes violates
  it (see below), so no less than `~(LocalTest /\ Faults)` will do.  By
  `CompletedInv`: HTTPS passed its check only with the vhost under it in place,
  and no open transaction can take either away (`TlsLast`, `TlsInPlace`,
  `AppInPlace`, `VhostInPlace`, `VhostOpen`); once completion is decided nothing
  is done but to write it down (`Completing`).
- `PromiseIsKept`: `PromiseKept`, under the same hypothesis: a refinement.
  Every action of `Installer` maps to one of `Installation` or to a stutter.
  The prepared state is `Begin`; a task, a failure or a restore is `Build` of
  that step's part, or nothing (`PartBuilt`); the write of `state.json` is
  `Record`; the first step of a teardown is `Withdraw`, what it removes after
  that is `Lose`, and `Vanish` is the removal of `state.json`.  `PromiseInv`
  adds to `CompletedInv` that a completed phase has every step before TLS on
  record.
- `OpenIsCurrent`: `OpenStepIsCurrent`, with crashes and in both deployment
  modes.  `OrderInv` adds to `RecordedInv` and `BaselineInv` where in the order
  of the steps a command is: install begins a step only after those before it
  (`InTurn`); memory and `state.json` agree on what is finished except between a
  step's end and its record (`RecordAgrees`); the step at work is named, in
  memory and then in the file, before its first task (`WorkIsNamed`); the
  application's source is there only with every step before TLS on record
  (`SourceRecorded`), and only then does a finalize pass and drop its name.
  `OpenInv` is the property for the file and for the memory that it will be
  written from (`CutIsNamed`), and why two steps are never cut short at once: a
  step with an open transaction has those before it on record (`OpenInTurn`),
  and is itself not on record where that matters (`OpenSiteNotDone`,
  `OpenHasJournal`).
- `BaselineIsTrue`, `OwnedIsComplete`, `RerunIsAccepted`, `ResetReopensServer`:
  the four safety properties of `public_calm`, in both deployment modes, where
  only commands fail (`~Faults`; each is false with crashes, see below).  `CalmInv` adds to `CompletedInv` and `BaselineInv`:
  whoever works has everything on its list that is on the server, a snapshot
  included (`ListKept`, `SnapshotListed`, `ListSynced`, `RuntimeListed`); the
  web root and the probe in it (`SiteListed`, `ProbeThere`); packages come only
  with a clean baseline on record (`BaselineClean`); only the step at work has
  an open transaction (`OpenIsAtWork`); a database no purge would take is
  dropped first (`DatabaseGone`); and the installer's files come and go together
  (`FilesWhole`).
- `StepIsAtomic`: `ASSUME ~RunGoesOn PROVE Spec => Atomic`, a refinement: every
  step of `StepTransaction` maps to a step of `AtomicStep` or to a stutter.  The
  invariant `TransactionInv`: the backups of an open transaction are whole,
  nothing has changed until the step is the current one, a resume would undo a
  step that is at work, and a restore at path `at` has put back every path after
  it.
- `LockExcludes`: `Spec => []OneWorks`; who works holds the lock (`LockInv`).
- `FlagIsTrue`: `Spec => []FlagShowsTask`, which is inductive with the types.
- `AdmittedFitsAlways`, `ServersAcceptAlways`: the properties of the sizing, for
  any memory and number of processors.  `ResolveSound` is the arithmetic: the
  sum of the tables against each tier's lower border, the clamps of the formula,
  and the wrapped cast.  `SizingFromHost` adds that the sizing in use is that of
  the server which doctor has admitted.
- `PreexistingAlways`: `PreexistingKept`.  By `BaselineSound` what the baselines
  call absent, in memory and in the report, was absent: a resume whose baseline
  was lost looks again at a server that has more by then, never less, since
  nothing found goes before the first purge and nothing starts after it.
  `PurgeKeeps` is that purge: of what was found it is told to take nothing, so
  that by `--auto-remove` it takes only what was unneeded already.
- `ServicesInstalledAlways`: `ServicesInstalled`, for any options, as long as no
  outbound SMTP port is that of Redis (6379; see below).  `PlanProvides` is the
  comparison of the three tables; `PlanIsOptions`, that the command has the plan
  of options that have passed their checks.
- `RoutingSoundAlways`: `RoutingSound`, for any `www` mode, web server and
  domain.  Blocks are looked up by `Unambiguous` alone (`OneAnswer`): a name has
  the answer of its one block (`Arrives`), or that of the block it is sent to
  (`ArrivesLate`).  `PlainSound` and `PlainRedirectSound` are the two forms of a
  site without HTTPS, `SecureSound` that with it, and `PlainRedirectsKnown` and
  `SecureBlocksKnown` say that each `www` mode builds one of them.
- `ProvisioningTypes`, `AdditionsRecorded`, `ResetIsComplete`,
  `InstalledIsChecked`: `TypeOK`, `AddedIsRecorded`, `ResetLeavesNothing` and
  `InstalledPassesChecks`, for any servers and options, by `ProvInv`.  Which
  command is where, and what the phase on disk says meanwhile (`Phases`); every
  plan, in memory and on record, is that of some options, and the one on record
  is for the site of the command that runs (`Plans`); records of the swap come
  with its unit, and where the unit is gone nothing is left but what was found
  (`SwapKept`); services that were checked run on (`Running`); what was added is
  absent in the baseline of whoever added it, so that rollback and reset take it
  for the installer's (`Additions`); and what a reset could not take away is
  only what renews certificates (`Leftover`).
- `ResumeIsFaithful`: `ResumeKeepsPlan`, for any options.  `RoundTrip` is the
  algebra: what the plan derives (the database user, the site's paths, the
  packages) survives being stored and put through the same normalisation again.
- `OutputWholeAlways`: `OutputWhole`.  `Conserved`: what was written is what was
  read followed by what is in the pipe; `EndsInOrder`: a reader is done only
  when its pipe is empty and nobody can write to it any more, and `run()`
  succeeds only when both are.
- `RunnerTypes`: `TypeOK`, among it that no pipe ever holds more than it can.
- `EventsAreFaithful`: `EventsFaithful`, by `Observed`: lines are numbered as
  they are written (`Numbered`), nothing is written before the readers are
  there, and `run()` returns only after them (`Attended`), the start is the
  first event and a finish the last, of a success (`Bracketed`), and what a
  reader has read, empty lines apart, is exactly what it has told, in order (`Told`).
- `KeyKeptAlways`, `ResetRemovesRuntimeAlways`: by `RuntimeInv`.  A running
  Reverb server has the key of the settings, and so has the cache whenever the
  server could be started from it (`ServerKnown`, `KeyCached`); a unit is listed
  before its file is written, and runs only when its file is there
  (`UnitsListed`); the application is there as a whole or not at all
  (`CodeWhole`).
- `WorkerFreshAlways`, `ChecksAgreeAlways`: by `TunedInv`.  Of a run under way
  it says what has been done by each point of finalize (`Stages`: the marker,
  the settings, the cache, the units, the services, the restart of the worker);
  of a run that passed, that all of this stays so until the settings are edited
  (`Finished`), whatever runs fail or are killed after it, since a repeated run
  saves the same settings.
- `RuntimeTypes`: `TypeOK` of `AppRuntime`, for any number of runs.
- `StreamTypes`: `TypeOK` of `EventStream`, the limits of history and channel
  included, for any number of publishers, events and any capacity.
- `NewestIsShown`: `NewestShown`.  By `NewestHeld` the newest recorded event is
  in the history: publishers may record an older one after it, but each of them
  only one, so that they never push it out; by `NewestComes` it is, from the
  socket's greeting on, shown, in the channel, in a batch, or behind a lag that
  will fetch it.
- `NothingIsMissing`: `NothingMissing`.  While publications keep apart the
  invariant `Calm` says that history and channel are without gaps (`InTurn`),
  that the page has everything up to what it has passed (`Passed`), and, for
  each place the socket can be in (`Replaying`, `Greeting`, `Following`), that
  what it takes next goes on from what it handed over.  `AboveIs`, what
  filtering a history by a number keeps, is by induction over the sequence.

The three liveness properties are proved as far as they are safety: somebody can
always go on, and every step leaves less to do, by a natural number.

- `NoCommandIsStuck` and `CommandsRunOut`, for `CommandEnds`, with faults and in
  both deployment modes.  `InPlace` says where each command can be (`OwnLabel`,
  `AfterWrites`, `TasksInOrder`) and what is behind a resume at its step
  (`ResumesInOrder`, `ResumePassed`: a step that failed ends it, unless it was
  TLS).  With that `CanWork`, the conditions of the actions, holds while a
  command is under way (`NeverStuck`): each task writes a file, runs a command,
  or is refused (`TriesAll`), and what a teardown still has to remove has a
  first path in the order (`FirstRemoval`).  `Left` counts the steps that may
  still be begun, then the place in the step: no step is begun twice, TLS that
  failed or was put off neither (`NextFalls`), and a teardown removes each path
  once (`RemovalFalls`).
- `NobodyIsStuck` and `StepsRunOut`, for `Returns`.  While `run()` has not
  returned, it, a reader, the program or what that left behind can go on: who
  writes waits only for a full pipe, and each pipe has a reader that is not
  waiting.  `Rank` is what is left of `run()`, of the program's steps and of the
  output, all settled when the command is given.
- `FlagIsOnItsWay`, for `FlagClears`, with panics and kills: while the flag is
  set a task holds the guard that clears it (`FlagIsGuarded`), and it moves only
  nearer to dropping that guard (`GuardsComeCloser`).

Assumptions are those on the constants, which TLC evaluates:
`InstallerAssumption`, `TransactionAssumption`, `ControllerAssumption`,
`HostsAreRead` (probes read numbers or nothing), `HostsAreFound` (no installer
has been on the server before: of the swap at most the file is there, in
whatever use, and not the MySQL source package that only the installer adds;
packages brought by others, and needs, are among those installed),
`OptionsAreGiven` (a domain and an account are text, a port is a number),
`CommandsAreGiven` (a program is a
sequence of operations, and input is absent or counted), `CapacityAssumption` (a pipe holds something),
`AttemptsAssumption`, `RunsAssumption`, and `StreamAssumption`: the history has
room for an event of every publisher.  The code keeps 2000 events, and the
publishers are two reader threads, the tasks and the sockets.  Without it
`NewestShown` is false: with a history of one event a publisher that is late
pushes out the newest.  Beyond these, a theorem has a hypothesis only where its
statement above names one.

Induction over data is done where it is needed with the least element of a set
of numbers (`LeastNumber`, from the library's `WFMin` and
`NatLessThanWellFounded`): the library's induction rules take an operator as a
parameter, which no prover here can instantiate.  For that reason `Above` in
`EventStream` is a recursive function.

Only model-checked: the last inference to the three liveness properties
(`CommandEnds`, `FlagClears`, `Returns`), which needs ENABLED and the fairness of
the specification, neither of which TLAPS can reason about, so that `CanWork` and
its like repeat the conditions of the actions; and the properties that are
violated.
Every safety property and action property that a run checks is stated by a
theorem.

## Where code and documents disagree

Three runs end in a counterexample; `PROJECT.json` quotes the documents.

1. `rerun_after_crash`: what a step makes outside its snapshot is listed in
   `owned-files.json` only when the step ends.  After a crash every resume
   refuses its own leftovers.
2. `dns_fixed`: TLS is put off while the names do not resolve, and the operator is
   told to fix DNS and resume (`tls.rs:42`).  But resume goes by the network
   checks in `report.json`, which only the packages step makes
   (`orchestrator.rs:147` and `:1367`, `packages.rs:292`): it puts TLS off again,
   every time.
3. `plan_resume`: the database user made from an account with a dash keeps the dash
   (`normalize.rs:443`), and the check that resume puts the stored plan through
   refuses it (`normalize.rs:338`).

The same models show more, which have no run of their own; each can be had by
giving a configuration the constants or the property named.

- *Installer, `LocalTest` and `Faults`*: install records the vhost as finished while
  its transaction is open (`orchestrator.rs:837` and `:857`).  A crash there makes
  resume remove the vhost and then skip its step; with TLS skipped nothing
  notices, and the installation is completed without it (`CompletedIsWhole`).
- *Installer, `Faults`*: the baseline is written only after apt has run
  (`orchestrator.rs:549` and `:586`), so that a crash in between makes the
  installer's own packages count as found (`BaselineTrue`; `README.md:263`,
  `docs/ops-harness-audit.md:92`).
- *Installer, `Faults`*: `/var/lib/g7-installer` is made before the file that lists it
  (`orchestrator.rs:382`); after a crash no reset removes it, and install refuses
  the server (`ResetReopens`; `README.md:267`).
- *Installer, `Faults`*: `OwnedComplete` is violated by the same crash as 1
  (`DEVELOPMENT_CONSTITUTION.md:68` wants a file recorded at once).
- *Installer, `Faults`*: finalize makes itself the current step before it checks how
  far the installation got (`finalize.rs:146`).  After an interrupted step it
  fails, and leaves its own name over that of the step: no resume then restores
  the step.  `OpenStepIsCurrent` therefore lets `finalize` stand there.
- *StepTransaction, `RunGoesOn`*: TLS fails, its restore fails half way, the run goes
  on (`orchestrator.rs:1047`); the next attempt takes the half-restored files for
  the original ones (`Atomic`; `README.md:200`).
- *EventStream, `HistoryShown`*: an event is numbered before it is recorded and sent
  (`session.rs:336`); one that is overtaken is dropped by the socket
  (`routes.rs:451`) and by the page (`event-stream.js:23`).
- *Provisioning, `RollbackLeavesNothing`*: rollback does not stop the swap, whose
  file then cannot be removed; it fails after the unit and the records are gone
  (`README.md:261`, `docs/introduction.md:30`).
- *Provisioning, `FormulaPoolAccepted`*: above 32 GiB the spare PHP workers may
  exceed the workers, which php-fpm refuses (`sizing.rs:499`, where servers with
  few processors are concerned; `README.md:91`).
- *Provisioning*: a swap that fails leaves the state prepared, and resume begins
  after it (`orchestrator.rs:500`): it is never tried again.  A `/swapfile` that
  was there is adopted, with or without a signature, and later deleted.  A kill
  after the PHP source was added and before the report names it leaves the source
  for good (hence *unless something was killed* in `AddedIsRecorded`).
- *Provisioning, `ServicesInstalled`*: the ports of the plan hold the outbound SMTP
  port beside those that listen (`resources.rs:409`), and the packages step waits for
  whichever is 80, 3306 or 6379 (`vhost.rs:840`).  With a relay that listens on
  6379, and no Redis, it waits for a listener that never comes.
- *Provisioning*: rollback and reset also take packages that were on the server and
  that apt called unneeded before (`apt.rs:65`), and rollback, which marks nothing
  as asked for, packages of certbot among them.
- A custom web root passes the plan and is refused by the site step
  (`site.rs:169`).  doctor wants port 443 free also for a local test, which does
  not use it.
- *AppRuntime*: when finalize fails a second time the report keeps the first problem
  (`finalize.rs:180`), a failed run reports no services although some run, missing
  assets are noted as a failure inside a report that passes, and a resume that
  rewrites the report drops what finalize put there.
- *CommandRunner*: on a broken input pipe `run()` returns an error and never waits
  for the program; the audit log then has a start without a finish
  (`governance-controls.md:10`).

A panic in a task clears the running flag twice, the second time perhaps after
another request has set it.  No document says otherwise, and the lock still keeps
the operations apart (`OneWorks`); `FlagShowsTask` promises nothing from there on.

## What is not modelled

- The contents of configuration, PHP and application files, and what commands
  do to them: a command succeeds or fails.  The MySQL data directory apart from
  its package.
- Redaction in the command runner (`command.rs:357-409`).  It is a rule about
  text: an argument is split at `=` only, a line is cut at its first `=`, and at
  its first `:` only where there is no `=`.  What counts as a secret depends on
  what programs print and on the names they use.
- What apt does beyond the packages it is told to install: the packages these
  bring, and those they conflict with.
- In reset: the paths of earlier versions and the restore of `nginx.conf`.
- The lengths of names, the texts of a plan, the files that it announces.
- Several writers of the audit log at once (each appends a line to a file that
  it opens anew).
- `PlaceholderInstaller`: every supported application profile has an installer
  of its own, so it is not reached.
- Web sessions: a map from random tokens to sessions and the address of the first
  browser, set once.  No interleaving of their critical sections can break
  anything that the code promises.  Request validation; the interface, rendering,
  downloads, scripts; status, logs and update, which change nothing.
- The rename inside `atomic_write`: a file is the old or the new one.

## Plan

Done in this order: `ServerState`, `Orchestrator`, `Teardown`, `Finalize`,
`Installer` and its theorems; `Installation`; `StepTransaction` with `AtomicStep`; `WebController`;
`EventStream`; `InstallPlan`, `Doctor`, `Sizing`, `Routing`, `ProvisionChecks`
and `Provisioning`; `CommandRunner`; `AppRuntime`; their theorems.  Next:

1. `Reset` in detail: `nginx.conf`, the paths of earlier versions; an abstract
   teardown (things only disappear, what is not owned stays) that it implements.
2. `CommandRunner` composed with `WebController`: what a command that does not
   return does to the flag and the lock.
3. An abstract event log (numbers are only added, a page only gains) that
   `EventStream` implements, and an abstract provisioning (what was there stays,
   what was added is accounted for) that `Provisioning` does.
