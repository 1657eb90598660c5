---- MODULE Installer ----
(***************************************************************************)
(* The whole of g7inst's mutating commands, one at a time under the        *)
(* operation lock, with the process free to die between any two writes.    *)
(***************************************************************************)
EXTENDS Orchestrator, Teardown, Finalize

\* The command returns and releases the lock.
Return ==
    /\ op # "none" /\ pc = "return"
    /\ Stopped
    /\ UNCHANGED <<server, disk, torn>>

\* A kill, a power failure, or a write error passed up by `?`: what is on disk
\* stays, what is in memory is lost.
Interrupt ==
    /\ Faults
    /\ op # "none"
    /\ Stopped
    /\ UNCHANGED <<server, disk, torn>>

Start == StartInstall \/ StartResume \/ StartRollback \/ StartReset \/ StartFinalize

Work == OrchestratorStep \/ TeardownStep \/ FinalizeStep \/ Return

Next == Start \/ Work \/ Interrupt

\* A process that holds the lock keeps running; nobody has to start one.
Spec == Init /\ [][Next]_vars /\ WF_vars(Work)

---------------------------------------------------------------------------

Label == {"idle", "lib-dir", "reserve", "prepare", "first-state", "restore", "begin",
          "persist-owned", "persist-state", "persist-report", "apply", "undo", "seal",
          "next", "return", "drop", "account", "purge", "purging", "wipe", "finalize"}

StateRecord == [phase : Phase, current : Current, done : SUBSET Step]
ReportRecord == [phase : Phase, baseline : Baseline, tls : BOOLEAN, app : BOOLEAN]
JournalRecord ==
    [status : {"none", "started", "completed", "restored"}, before : SUBSET Txn]
MemoryRecord ==
    [phase : Phase, current : Current, done : SUBSET Step, owned : SUBSET Token,
     baseline : Baseline, tls : BOOLEAN, app : BOOLEAN]

TypeServer ==
    /\ pkgs \in {"none", "some", "all"}
    /\ live \subseteq Txn
    /\ side \subseteq Guarded
    /\ effects \subseteq Effect

TypeDisk ==
    /\ meta \subseteq Meta
    /\ state \in StateRecord
    /\ report \in ReportRecord
    /\ owned \subseteq Token
    /\ journal \in [Txn -> JournalRecord]

TypeControl ==
    /\ op \in {"none", "install", "resume", "rollback", "reset", "finalize"}
    /\ pc \in Label
    /\ step \in Step
    /\ at \in 1..4
    /\ after \in Label

TypeMemory == mem \in MemoryRecord /\ wipe \subseteq Token

\* Every variable holds a value of its kind.
TypeOK ==
    TypeServer /\ TypeDisk /\ TypeControl /\ TypeMemory /\ torn \in BOOLEAN

\* rollback is only for failures before the application, the database and the
\* certificate: it never runs on a server that has the site's database, its
\* source or its HTTPS vhost, whatever was interrupted before.
RollbackSafe ==
    op = "rollback" =>
        /\ {"database", "source"} \cap effects = {}
        /\ live \cap {"tls", "app"} = {}

\* A step resume will skip is in place: the packages, the document root, the
\* account, the PHP and database configuration, unless a rollback or reset has
\* since started to take things away.
RecordedStepsApplied ==
    ~torn =>
        /\ "packages" \in state.done => pkgs = "all"
        /\ "site" \in state.done => "account" \in effects /\ "site" \in side
        /\ state.done \cap {"runtime", "database"} \subseteq live
        /\ "database" \in state.done => "database" \in effects

\* Where state.json says completed, everything the installation consists of is
\* on the server, the vhost too, and HTTPS unless it is a local test.
CompletedIsWhole ==
    state.phase = "completed" /\ ~torn =>
        /\ pkgs = "all"
        /\ {"runtime", "vhost", "database", "app"} \subseteq live
        /\ {"account", "database", "source"} \subseteq effects
        /\ ~LocalTest => "tls" \in live

\* The first package baseline that reached report.json stays there until the
\* report itself is deleted, through every failure, retry and interruption.
FirstBaselineKept ==
    [][report.baseline # "none" /\ "report" \in meta' =>
           report'.baseline = report.baseline]_vars

\* state.json never forgets a finished step while it exists.
ProgressKept ==
    [][{"state"} \subseteq meta \cap meta' => state.done \subseteq state'.done]_vars

\* The steps a resume would find refused by its own leftovers: what it meets
\* once it has undone the open transaction of the current step.
LiveAfterRestore ==
    IF state.current \in Txn /\ journal[state.current].status = "started"
      THEN (live \ Covers(state.current)) \cup journal[state.current].before
      ELSE live

Resumable ==
    /\ op = "none" /\ {"state", "report", "owned"} \subseteq meta
    /\ state.phase # "completed" /\ ~torn

Refused(s) ==
    \/ /\ s \in OwnedConf /\ s \in LiveAfterRestore
       /\ <<s, "conf">> \notin owned
    \/ s \in Guarded /\ SideRefused(s, owned)
    \/ s = "vhost" /\ "site" \notin LiveAfterRestore /\ "site" \in state.done

\* Whatever failed, running resume again can get through the steps left: none
\* of them is refused because of what an earlier attempt left behind.
RerunAccepted ==
    Resumable => \A s \in PreTls \ state.done : ~Refused(s)

\* The baseline in the report tells what was there before the first attempt.
BaselineTrue == report.baseline # "dirty"

\* Between commands everything the installer created is in owned-files.json,
\* so that reset and rollback find it.
OwnedComplete ==
    op = "none" /\ ~torn =>
        /\ \A s \in live \cap OwnedConf : <<s, "conf">> \in owned
        /\ \A s \in side : <<s, "side">> \in owned

\* A step before TLS that is not finished and whose files differ from what its
\* open transaction recorded is the one that state.json names, where resume looks
\* for what to undo; only a finalize that failed since puts its own name there.
OpenStepIsCurrent ==
    op = "none" /\ "state" \in meta /\ ~torn =>
        \A s \in (PreTls \cap Txn) \ state.done :
           journal[s].status = "started" /\ live \cap Covers(s) # journal[s].before
           => state.current \in {s, "finalize"}

\* A reset that gets to its end leaves a server on which install starts again.
ResetReopens ==
    [][op = "reset" /\ pc = "wipe" /\ pc' = "return" => InstallAllowed']_vars

\* A command always comes to an end, and the lock is free again.
CommandEnds == op # "none" ~> op = "none"

---------------------------------------------------------------------------
\* The installation as its record promises it

\* The steps whose marks resume goes by without looking at the server.  (The
\* vhost's is written before its transaction is closed, TLS and the application
\* go by the checks in the report.)
Lasting == {"packages", "site", "runtime", "database"}
Needed == IF LocalTest THEN Step \ {"tls"} ELSE Step

Stage ==
    CASE "state" \notin meta -> "none"
      [] "state" \in meta /\ torn -> "withdrawn"
      [] "state" \in meta /\ ~torn ->
            IF state.phase = "completed" THEN "completed" ELSE "open"
Kept == IF torn THEN {} ELSE state.done \cap Lasting

\* All that a step puts on the server is there.
Made(s) ==
    /\ s = "packages" => pkgs = "all"
    /\ s = "site" => "account" \in effects /\ "site" \in side
    /\ s \in Txn \ {"site"} => s \in live
    /\ s = "database" => "database" \in effects
    /\ s = "app" => "source" \in effects
There == {s \in Step : Made(s)}

Promise ==
    INSTANCE Installation
        WITH Part <- Step, stage <- Stage, kept <- Kept, there <- There

\* Whatever commands are run, fail, and are killed: the record only grows and
\* only by what is there, nothing on it is undone, a step undoes nothing but
\* itself, completed means whole, and then only rollback or reset touches the
\* server (state.rs, with orchestrator.rs and the teardowns).
PromiseKept == Promise!Spec
====
