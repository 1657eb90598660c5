---- MODULE Teardown ----
(***************************************************************************)
(* g7inst rollback and g7inst reset: purge the packages the baseline says  *)
(* were not there, then delete what owned-files.json lists, deepest paths  *)
(* first.  Both read the installer's own files and delete them on the way. *)
(***************************************************************************)
EXTENDS ServerState

SafeRollbackPhases ==
    {"package-failed", "packages-installed", "vhost-enabled", "vhost-failed"}

\* Slip: the PHP runtime's markers are not among the forbidden ones.
AppMutationStepsDatabaseOnly == {"database"}

\* Steps whose markers are in APP_MUTATION_STEPS.
AppMutationSteps == {"runtime", "database"}

\* Every path below the web root must be listed.
WebRootOwnedOnly ==
    /\ "site" \in live => <<"site", "conf">> \in owned
    /\ "site" \in side => <<"site", "side">> \in owned
    /\ "source" \notin effects
    /\ "app" \notin live

RollbackAllowed ==
    /\ {"state", "report"} \subseteq meta
    /\ state.phase \in SafeRollbackPhases
    /\ state.done \cap AppMutationSteps = {}
    /\ report.phase \in SafeRollbackPhases
    /\ report.baseline # "none"
    /\ WebRootOwnedOnly

StartRollback ==
    /\ RollbackAllowed
    /\ Lock("rollback", "purge")
    /\ UNCHANGED <<server, disk, step, at, after, mem, wipe, torn>>

\* reset asks for nothing but the lock (and the administrator's confirmation).
StartReset ==
    /\ Lock("reset", "drop")
    /\ UNCHANGED <<server, disk, step, at, after, mem, wipe, torn>>

---------------------------------------------------------------------------
\* The names of the account and of the database come from the report or, when
\* it is gone, from config.toml; the package baseline only from the report.
NamesKnown == meta \cap {"report", "config"} # {}

\* A database server the installer did not install keeps its data: the
\* database is dropped by SQL, which may fail and end the reset; a server whose
\* packages are gone has nothing to drop.
DropDatabase ==
    /\ op = "reset" /\ pc = "drop"
    /\ torn' = ("state" \in meta)
    /\ \/ /\ effects' = IF NamesKnown /\ report.baseline # "clean"
                          THEN effects \ {"database"} ELSE effects
          /\ pc' = "account"
       \/ /\ NamesKnown /\ report.baseline # "clean" /\ pkgs # "none"
          /\ effects' = effects /\ pc' = "return"
    /\ UNCHANGED <<pkgs, live, side, disk, op, step, at, after, mem, wipe>>

\* The services are stopped, then userdel -r: the account goes with its home and
\* the web root in it.  A service that cannot be stopped, or userdel, ends the
\* reset.
DeleteAccount ==
    /\ op = "reset" /\ pc = "account"
    /\ \/ /\ IF NamesKnown
               THEN /\ effects' = effects \ {"account", "source"}
                    /\ live' = live \ {"site", "app"}
                    /\ side' = side \ {"site"}
               ELSE UNCHANGED <<effects, live, side>>
          /\ pc' = "purge"
       \/ pc' = "return" /\ UNCHANGED <<effects, live, side>>
    /\ UNCHANGED <<pkgs, disk, op, step, at, after, mem, wipe, torn>>

ToPurge == report.baseline = "clean"

PurgeBegins ==
    /\ op \in {"rollback", "reset"} /\ pc = "purge"
    /\ pkgs' = IF ToPurge /\ pkgs # "none" THEN "some" ELSE pkgs
    /\ torn' = ("state" \in meta)
    /\ pc' = "purging"
    /\ UNCHANGED <<live, side, effects, disk, op, step, at, after, mem, wipe>>

\* Slip: the installer's own files are not on the list.
ResetFileListStepsOnly == IF "owned" \in meta THEN owned ELSE {}

\* What owned-files.json lists: without it, nothing of the installer's.
ResetFileList ==
    IF "owned" \in meta THEN owned \cup (Meta \X {"meta"}) ELSE {}

\* apt-get purge and its check have passed; the MySQL data directory goes too.
PurgeEnds ==
    /\ op \in {"rollback", "reset"} /\ pc = "purging"
    /\ pkgs' = IF ToPurge THEN "none" ELSE pkgs
    /\ effects' = IF ToPurge THEN effects \ {"database"} ELSE effects
    /\ wipe' = ResetFileList
    /\ pc' = "wipe"
    /\ UNCHANGED <<live, side, disk, op, step, at, after, mem, torn>>

PurgeFails ==
    /\ op \in {"rollback", "reset"} /\ pc = "purging"
    /\ ToPurge
    /\ pc' = "return"
    /\ UNCHANGED <<server, disk, op, step, at, after, mem, wipe, torn>>

---------------------------------------------------------------------------
\* The files are removed deepest first and, at one depth, in the order of the
\* list: the installer's own files sorted by path, then what each step added.
\* (The probe is at depth 5, owned-files.json and g7.conf at 4, config.toml and
\* secrets.toml at 3; the last of the installer's own directories,
\* /etc/g7-installer, is at 2.  Of several files a name here stands for, the last
\* one removed counts.)
RemovalOrder ==
    << <<"site", "conf">>, <<"owned", "meta">>, <<"state", "meta">>,
       <<"journal", "meta">>, <<"report", "meta">>, <<"site", "side">>,
       <<"runtime", "side">>, <<"runtime", "conf">>, <<"vhost", "conf">>,
       <<"database", "conf">>, <<"config", "meta">>, <<"database", "side">>,
       <<"dirs", "meta">> >>

\* The TLS step rewrote g7.conf, which the runtime step listed; the
\* application's own file lies in the web root.
LiveUnder(t) ==
    CASE t = <<"site", "side">> -> {"app"}
      [] t = <<"runtime", "conf">> -> {"runtime", "tls"}
      [] t[2] = "conf" /\ t[1] # "runtime" -> {t[1]}
      [] OTHER -> {}

RemoveFile(t) ==
    /\ wipe' = wipe \ {t}
    /\ live' = live \ LiveUnder(t)
    /\ side' = IF t[2] = "side" THEN side \ {t[1]} ELSE side
    /\ meta' = IF t[2] = "meta" THEN meta \ {t[1]} ELSE meta
    /\ state' = IF t = <<"state", "meta">> THEN NoState ELSE state
    /\ report' = IF t = <<"report", "meta">> THEN NoReport ELSE report
    /\ owned' = IF t = <<"owned", "meta">> THEN {} ELSE owned
    /\ journal' = IF t = <<"journal", "meta">> THEN NoJournal ELSE journal
    /\ torn' = (torn /\ t # <<"state", "meta">>)
    /\ pc' = IF wipe' = {} THEN "return" ELSE "wipe"

RemoveResetFile ==
    /\ op \in {"rollback", "reset"} /\ pc = "wipe"
    /\ \E i \in 1..Len(RemovalOrder) :
         /\ RemovalOrder[i] \in wipe
         /\ \A j \in 1..(i - 1) : RemovalOrder[j] \notin wipe
         /\ RemoveFile(RemovalOrder[i])
    /\ UNCHANGED <<pkgs, effects, op, step, at, after, mem>>

NothingToRemove ==
    /\ op \in {"rollback", "reset"} /\ pc = "wipe" /\ wipe = {}
    /\ pc' = "return"
    /\ UNCHANGED <<server, disk, op, step, at, after, mem, wipe, torn>>

TeardownStep ==
    \/ DropDatabase \/ DeleteAccount
    \/ PurgeBegins \/ PurgeEnds \/ PurgeFails
    \/ RemoveResetFile \/ NothingToRemove
====
