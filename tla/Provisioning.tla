---------------------------- MODULE Provisioning ----------------------------
(***************************************************************************)
(* The start of an installation, from the operator's options to the        *)
(* verified packages: doctor, plan, managed swap, apt sources, packages    *)
(* and services; what resume rebuilds of it from report.json, and what     *)
(* rollback and reset take away again.  Packages and services are known    *)
(* one by one here; the later steps are those of Orchestrator.             *)
(***************************************************************************)
EXTENDS InstallPlan, Doctor, Sizing, Routing, ProvisionChecks

CONSTANTS
    Hosts,      \* servers to install on
    OptionSet,  \* options to install with
    Faults      \* whether the process may be killed

\* What the probes read of memory, processors and disk.
ASSUME HostsAreRead ==
    \A h \in Hosts : {h.mem, h.vcpu, h.disk} \subseteq Nat \cup {Unread}

\* No installer has been there: of the managed swap only the file may exist,
\* and no apt source that the installer adds.  Some packages came for the sake
\* of others, and needs says which, directly or through others, need which.
ASSUME HostsAreFound ==
    \A h \in Hosts :
       /\ h.swapfile \subseteq {"file", "signature", "on"} /\ h.dns \in {"here", "elsewhere"}
       /\ "mysql-apt-config" \notin h.installed
       /\ h.auto \subseteq h.installed /\ h.needs \subseteq h.installed \X h.installed

\* A name is a sequence of its parts, a port is a number.
ASSUME OptionsAreGiven ==
    \A o \in OptionSet : {o.domain, o.user} \subseteq Seq(STRING) /\ o.port \in Nat

VARIABLES
    host,      \* the server as it was found
    opt,       \* what the operator asks for
    swap,      \* "unit" and "sysctl" files, "file", its "signature", "on"
    sources,   \* apt sources added
    dns,       \* whether the names resolve to this server
    pkgs,      \* installed packages
    active,    \* running services
    state,     \* phase in state.json: "none", "prepared", "failed", "installed", "gone"
    report,    \* [plan, baseline, services, network, tls] in report.json
    recorded,  \* what owned-files.json names of swap
    op, pc,    \* running command and its next step
    plan, sizing, baseline, todo, checked, network,  \* the running command's memory
    killed,    \* history: some command was killed
    undone     \* history: whether rollback or reset came first

server == <<swap, sources, pkgs, active, dns>>
disk == <<state, report, recorded>>
memory == <<plan, sizing, baseline, todo, checked, network>>
vars == <<host, opt, server, disk, op, pc, memory, killed, undone>>

NoPlan == [source |-> "none"]
NoReport == [plan |-> NoPlan, baseline |-> {}, services |-> {}, network |-> "none", tls |-> "none"]
NoSizing == [tier |-> 0]

\* Slip: packages that were there count as the installer's.
AbsentAll(b) == {e.package : e \in b}

\* A baseline is a set of [package, before]; empty while nothing was looked at.
Absent(b) == {e.package : e \in {x \in b : ~x.before}}

Init ==
    /\ host \in Hosts /\ opt \in OptionSet
    /\ swap = host.swapfile
    /\ sources = {} /\ dns = host.dns /\ pkgs = host.installed /\ active = {}
    /\ state = "none" /\ report = NoReport /\ recorded = {}
    /\ op = "none" /\ pc = "idle"
    /\ plan = NoPlan /\ sizing = NoSizing /\ baseline = {} /\ todo = {} /\ checked = {}
    /\ network = "none"
    /\ killed = FALSE /\ undone = "no"

\* Slip: the plan of a command outlives it.
ForgetLess ==
    /\ sizing' = NoSizing /\ baseline' = {} /\ todo' = {} /\ checked' = {} /\ network' = "none"
    /\ UNCHANGED plan

Forget ==
    /\ plan' = NoPlan /\ sizing' = NoSizing /\ baseline' = {} /\ todo' = {} /\ checked' = {}
    /\ network' = "none"
Ends == op' = "none" /\ pc' = "idle" /\ Forget
At(label) == op \in {"install", "resume"} /\ pc = label
Goto(label) == pc' = label /\ UNCHANGED op

---------------------------------------------------------------------------
\* Starting

StartInstall ==
    /\ op = "none" /\ state = "none"
    /\ Builds(opt) /\ Admits(host)
    /\ op' = "install" /\ pc' = "prepare"
    /\ plan' = PlanOf(opt)
    /\ UNCHANGED <<host, opt, server, disk, sizing, baseline, todo, checked, network, killed, undone>>

\* report.json and config are written, then state.json.
Prepare ==
    /\ At("prepare")
    /\ report' = [NoReport EXCEPT !.plan = plan]
    /\ state' = "prepared"
    /\ Goto("swap-files")
    /\ UNCHANGED <<host, opt, server, recorded, memory, killed, undone>>

\* An error here is returned as it is: the state stays prepared.
SwapFails ==
    /\ op = "install" /\ pc \in {"swap-file", "swap-format", "swap-on"}
    /\ Ends
    /\ UNCHANGED <<host, opt, server, disk, killed, undone>>

Detected(n, default) == IF n = Unread THEN default ELSE n

WriteSwapFiles ==
    /\ At("swap-files")
    /\ sizing' = Resolve(Detected(host.mem, 1024), Detected(host.vcpu, 1))
    /\ swap' = swap \cup {"unit", "sysctl"}
    /\ Goto("swap-file")
    /\ UNCHANGED <<host, opt, sources, pkgs, active, dns, disk, plan, baseline, todo, checked, network, killed, undone>>

\* fallocate, or dd; a file that is there is taken as it is.
CreateSwapFile ==
    /\ At("swap-file")
    /\ swap' = swap \cup {"file"}
    /\ Goto(IF "file" \in swap THEN "swap-on" ELSE "swap-format")
    /\ UNCHANGED <<host, opt, sources, pkgs, active, dns, disk, memory, killed, undone>>

FormatSwapFile ==
    /\ At("swap-format")
    /\ swap' = swap \cup {"signature"}
    /\ Goto("swap-on")
    /\ UNCHANGED <<host, opt, sources, pkgs, active, dns, disk, memory, killed, undone>>

\* The unit starts only on a formatted file.
SwapOn ==
    /\ At("swap-on") /\ "signature" \in swap
    /\ swap' = swap \cup {"on"}
    /\ Goto("swap-record")
    /\ UNCHANGED <<host, opt, sources, pkgs, active, dns, disk, memory, killed, undone>>

RecordSwap ==
    /\ At("swap-record")
    /\ recorded' = {"unit", "sysctl", "file"}
    /\ Goto("apt-update")
    /\ UNCHANGED <<host, opt, server, state, report, memory, killed, undone>>

\* Slip: the path of a custom web root is not taken over.
StartResumePathless ==
    /\ op = "none" /\ state \in {"prepared", "failed"} /\ report.plan # NoPlan
    /\ Builds(OptionsFromReport(report.plan))
    /\ op' = "resume" /\ pc' = "apt-update"
    /\ plan' = PlanOf([OptionsFromReport(report.plan) EXCEPT !.custom = <<>>])
    /\ UNCHANGED <<host, opt, server, disk, sizing, baseline, todo, checked, network, killed,
                   undone>>

\* resume goes straight to the first unfinished step; swap is none of them.
StartResume ==
    /\ op = "none" /\ state \in {"prepared", "failed", "installed"} /\ report.plan # NoPlan
    /\ Builds(OptionsFromReport(report.plan))
    /\ op' = "resume"
    /\ IF state # "installed" THEN pc' = "apt-update"
       ELSE report.tls \notin {"passed", "skipped"} /\ pc' = "tls"
    /\ plan' = PlanOf(OptionsFromReport(report.plan))
    /\ baseline' = report.baseline /\ checked' = report.services /\ network' = report.network
    /\ UNCHANGED <<host, opt, server, disk, sizing, todo, killed, undone>>

---------------------------------------------------------------------------
\* The packages step

\* Any of its commands can fail; what was learnt by then is kept.
PackagesFail ==
    /\ op \in {"install", "resume"}
    /\ pc \in {"apt-update", "source", "baseline", "prerequisites", "ondrej", "mysql",
               "candidates", "install", "enable", "postfix", "verify"}
    /\ state' = "failed"
    /\ checked' \in IF pc = "verify" THEN {{}, plan.services} ELSE {checked}
    /\ Goto("report")
    /\ UNCHANGED <<host, opt, server, report, recorded, plan, sizing, baseline, todo, network,
                   killed, undone>>

AptUpdate ==
    /\ At("apt-update")
    /\ Goto("source")
    /\ UNCHANGED <<host, opt, server, disk, memory, killed, undone>>

\* Whether apt has a candidate for the plan's PHP: in Ubuntu's archive, or in
\* the Ondrej archive once that has been added.
PhpCandidate == plan.php \in host.archive.php \/ "ondrej" \in sources

DetectSource ==
    /\ At("source")
    /\ plan' = IF plan.source # "auto" THEN plan
               ELSE [plan EXCEPT !.source = IF PhpCandidate THEN "ubuntu" ELSE "ondrej"]
    /\ Goto("baseline")
    /\ UNCHANGED <<host, opt, server, disk, sizing, baseline, todo, checked, network, killed, undone>>

MysqlSourceRequired == plan.dbver # host.archive.mysql /\ "mysql" \notin sources
Prerequisites == {"software-properties-common", "ca-certificates", "lsb-release"}

\* All packages the step is going to install, and which of them were there;
\* a baseline that report.json already has is left alone.
InspectPackages ==
    /\ At("baseline")
    /\ todo' = plan.packages
               \cup (IF plan.source = "ondrej" THEN Prerequisites ELSE {})
               \cup (IF MysqlSourceRequired THEN {"mysql-apt-config"} ELSE {})
    /\ baseline' = IF baseline # {} THEN baseline
                   ELSE {[package |-> p, before |-> p \in pkgs] : p \in todo'}
    /\ Goto(IF plan.source = "ondrej" THEN "prerequisites" ELSE "mysql")
    /\ UNCHANGED <<host, opt, server, disk, plan, sizing, checked, network, killed, undone>>

InstallPrerequisites ==
    /\ At("prerequisites")
    /\ pkgs' = pkgs \cup Prerequisites
    /\ Goto("ondrej")
    /\ UNCHANGED <<host, opt, swap, sources, active, dns, disk, memory, killed, undone>>

AddOndrej ==
    /\ At("ondrej")
    /\ sources' = sources \cup {"ondrej"}
    /\ Goto("mysql")
    /\ UNCHANGED <<host, opt, swap, pkgs, active, dns, disk, memory, killed, undone>>

AddMysqlSource ==
    /\ At("mysql")
    /\ IF "mysql-apt-config" \in todo
         THEN sources' = sources \cup {"mysql"} /\ pkgs' = pkgs \cup {"mysql-apt-config"}
         ELSE UNCHANGED <<sources, pkgs>>
    /\ Goto("candidates")
    /\ UNCHANGED <<host, opt, swap, active, dns, disk, memory, killed, undone>>

\* Every package has a candidate; a missing one is a failure.
CheckCandidates ==
    /\ At("candidates") /\ PhpCandidate
    /\ Goto("install")
    /\ UNCHANGED <<host, opt, server, disk, memory, killed, undone>>

\* A failing apt-get leaves some of the packages installed.
AptFails ==
    /\ At("install")
    /\ pkgs' = pkgs \cup {WebPackage(plan.web), "mysql-server"}
    /\ state' = "failed" /\ Goto("report")
    /\ UNCHANGED <<host, opt, swap, sources, active, dns, report, recorded, memory, killed, undone>>

AptInstall ==
    /\ At("install")
    /\ pkgs' = pkgs \cup todo
    /\ Goto("enable")
    /\ UNCHANGED <<host, opt, swap, sources, active, dns, disk, memory, killed, undone>>

\* The package a service comes in.
Provider(s) ==
    CASE s = "mysql" -> "mysql-server" [] s = "certbot.timer" -> "certbot" [] OTHER -> s

\* One after the other.
EnableServices ==
    /\ At("enable")
    /\ \A s \in plan.services : Provider(s) \in pkgs
    /\ active' = active \cup plan.services
    /\ Goto("postfix")
    /\ UNCHANGED <<host, opt, swap, sources, pkgs, dns, disk, memory, killed, undone>>

\* Postfix is set to send only, checked and restarted.
ConfigurePostfix ==
    /\ At("postfix")
    /\ plan.mail = "local-postfix" => "postfix" \in active
    /\ Goto("verify")
    /\ UNCHANGED <<host, opt, server, disk, memory, killed, undone>>

\* The service that listens on a port.
Listener(port) ==
    CASE port = 80 -> {"nginx", "apache2"} [] port = 3306 -> {"mysql"} [] OTHER -> {"redis-server"}

\* Whether the names resolve to this server, when the plan asks.
NetworkReadiness ==
    IF ~plan.dns THEN "skipped" ELSE IF dns = "here" THEN "passed" ELSE "failed"

\* The packages, services and ports have to be there; the network is only noted.
Verify ==
    /\ At("verify")
    /\ todo \subseteq pkgs /\ plan.services \subseteq active
    /\ \A p \in plan.ports : Listener(p) \cap active # {}
    /\ checked' = plan.services /\ network' = NetworkReadiness
    /\ state' = "installed"
    /\ Goto("report")
    /\ UNCHANGED <<host, opt, server, report, recorded, plan, sizing, baseline, todo,
                   killed, undone>>

\* Slip: a step that failed is not reported.
WriteReportWhenDone ==
    /\ At("report")
    /\ IF state = "installed"
         THEN /\ report' = [plan |-> plan, baseline |-> baseline, services |-> checked,
                            network |-> network, tls |-> report.tls]
              /\ Goto("tls") /\ UNCHANGED memory
         ELSE Ends /\ UNCHANGED report
    /\ UNCHANGED <<host, opt, server, state, recorded, killed, undone>>

WriteReport ==
    /\ At("report")
    /\ report' = [plan |-> plan, baseline |-> baseline, services |-> checked,
                  network |-> network, tls |-> report.tls]
    /\ IF state = "installed" THEN Goto("tls") /\ UNCHANGED memory ELSE Ends
    /\ UNCHANGED <<host, opt, server, state, recorded, killed, undone>>

\* A step between packages and TLS fails.
LaterStepFails ==
    /\ At("tls")
    /\ Ends
    /\ UNCHANGED <<host, opt, server, disk, killed, undone>>

\* HTTPS, by what the network checks said; certbot may fail.  (What this step
\* writes is in Orchestrator.)
Tls ==
    /\ At("tls")
    /\ report' = [report EXCEPT !.tls =
                    IF plan.local THEN "skipped"
                    ELSE IF network = "failed" THEN "deferred" ELSE "passed"]
    /\ Ends
    /\ UNCHANGED <<host, opt, server, state, recorded, killed, undone>>

\* The operator points the names to this server.
FixDns ==
    /\ op = "none"
    /\ dns' = "here"
    /\ UNCHANGED <<host, opt, swap, sources, pkgs, active, disk, op, pc, memory, killed, undone>>

---------------------------------------------------------------------------
\* Taking it away again

IsCertbotPackage(p) ==
    p \in {"certbot", "letsencrypt", "python3-certbot-apache", "python3-certbot-nginx"}

ToPurge(b) == {p \in Absent(b) : ~IsCertbotPackage(p)}

\* Slip: only what is on record is found.
ListedOnRecord == recorded

\* What the remover finds to remove: files on record, the unit and the sysctl
\* file by their marker, and the swap file wherever the unit is listed.  The
\* system refuses to remove a file it is swapping to.
Listed == recorded \cup (swap \cap {"unit", "sysctl"})
RemovedSwap(on) ==
    (Listed \cap {"unit", "sysctl"})
    \cup (IF on \/ Listed \cap {"unit", "file"} = {} THEN {} ELSE {"file", "signature"})

\* The archive's files are removed where the report names it, the MySQL source
\* goes with its package.
SourcesLeft(b) ==
    sources \ ((IF report.plan.source = "ondrej" THEN {"ondrej"} ELSE {})
               \cup (IF "mysql-apt-config" \in ToPurge(b) THEN {"mysql"} ELSE {}))

\* What apt-get purge --auto-remove may take besides: what needs a package that
\* goes, and what apt itself brought and nothing asked for needs any longer.
\* What else the installer added may be needed or not.
MayGo(purged, asked) ==
    {p \in pkgs \ purged :
        \/ p \notin host.installed
        \/ \E q \in purged : <<p, q>> \in host.needs
        \/ /\ p \in host.auto \ asked
           /\ \A m \in (pkgs \ purged) \ (host.auto \ asked) : <<m, p>> \notin host.needs}

\* Where there is nothing to purge apt is not called.
Purges(purged, asked) ==
    IF purged = {} THEN UNCHANGED pkgs
    ELSE \E also \in SUBSET MayGo(purged, asked) : pkgs' = (pkgs \ purged) \ also

Removes(by, on, asked) ==
    /\ op = "none"
    /\ Purges(ToPurge(report.baseline), asked)
    /\ swap' = (IF on THEN swap ELSE swap \ {"on"}) \ RemovedSwap(on)
    /\ sources' = SourcesLeft(report.baseline)
    /\ state' = "gone" /\ report' = NoReport /\ recorded' = {}
    /\ undone' = IF undone = "no" THEN by ELSE undone
    /\ UNCHANGED <<host, opt, dns, op, pc, memory, killed>>

\* A unit that is not there, or no longer, is passed over.
Stops(services) == active' = active \ services

\* Of the services the report has, rollback stops those whose package was not
\* there before, and reset all; the renewal of certificates goes on.
StoppedByRollback(b) == {s \in report.services \ {"certbot.timer"} : Provider(s) \in Absent(b)}
StoppedByReset == report.services \ {"certbot.timer"}

\* rollback needs a baseline that knows every service's package.  Where swap is
\* on it fails, after everything else is gone.
Rollback ==
    /\ state \in {"failed", "installed"} /\ report.baseline # {}
    /\ \A s \in report.services \ {"certbot.timer"} :
          \E e \in report.baseline : e.package = Provider(s)
    /\ Stops(StoppedByRollback(report.baseline))
    /\ Removes("rollback", "on" \in swap, {})

\* What reset marks as asked for, so that apt does not take it.
Protected(b) ==
    {"certbot", "letsencrypt", "python3-certbot"} \cup {p \in Absent(b) : IsCertbotPackage(p)}

\* reset is always there, needs nothing, and stops the swap unit first.
Reset ==
    /\ Stops(StoppedByReset)
    /\ Removes("reset", "on" \in swap /\ "unit" \notin swap, Protected(report.baseline))

---------------------------------------------------------------------------

\* The process is killed, or the machine fails.
Interrupt ==
    /\ Faults /\ op # "none"
    /\ Ends
    /\ killed' = TRUE
    /\ UNCHANGED <<host, opt, server, disk, undone>>

Next ==
    \/ StartInstall \/ Prepare \/ SwapFails \/ WriteSwapFiles \/ CreateSwapFile
    \/ FormatSwapFile \/ SwapOn \/ RecordSwap
    \/ StartResume \/ PackagesFail \/ AptUpdate \/ DetectSource \/ InspectPackages
    \/ InstallPrerequisites \/ AddOndrej \/ AddMysqlSource \/ CheckCandidates
    \/ AptFails \/ AptInstall \/ EnableServices \/ ConfigurePostfix \/ Verify \/ WriteReport
    \/ LaterStepFails \/ Tls \/ FixDns
    \/ Rollback \/ Reset \/ Interrupt

Spec == Init /\ [][Next]_vars

---------------------------------------------------------------------------
(* Properties.                                                             *)

SwapParts == {"unit", "sysctl", "file", "signature", "on"}

(* Values have their types, and a command has a plan from its first step.  *)
TypeOK ==
    /\ swap \subseteq SwapParts /\ recorded \subseteq {"unit", "sysctl", "file"}
    /\ sources \subseteq {"ondrej", "mysql"} /\ dns \in {"here", "elsewhere"}
    /\ state \in {"none", "prepared", "failed", "installed", "gone"}
    /\ op \in {"none", "install", "resume"}
    /\ (op = "none") = (pc = "idle") /\ (op = "none") = (plan = NoPlan)
    /\ undone \in {"no", "rollback", "reset"} /\ killed \in BOOLEAN

(* What doctor lets through carries what the plan puts on it: all services *)
(* busy at once fit into the memory, the database has a connection for     *)
(* every PHP worker, and the disk has room for the swap file.              *)
Fits(h, s) ==
    /\ h.mem # Unread => Committed(s) <= h.mem
    /\ s.children <= s.connections
    /\ h.disk # Unread => 1024 * s.swap < h.disk

AdmittedFits == pc = "swap-file" => Fits(host, sizing)

(* No server refuses the configuration the sizing gives it: PHP-FPM its    *)
(* pool (on the fixed tiers), Apache its workers, Nginx its connections.   *)
Accepted(s) ==
    /\ s.tier <= 6 => FpmAccepts(s)
    /\ s.workers <= s.slots * s.threads
    /\ s.spare[1] < s.spare[2] /\ s.spare[2] <= s.workers
    /\ s.conn < s.files
    /\ s.upload < s.post /\ s.post < s.body

ServersAccept == pc = "swap-file" => Accepted(sizing)

(* Violated above 32 GiB: README.md:91 promises a sizing for every server. *)
FormulaPoolAccepted == pc = "swap-file" => FpmAccepts(sizing)

(* A plan can be carried out: each service the packages phase starts comes *)
(* with a package of the plan, each port it waits for has a listener among *)
(* those services.                                                         *)
ServicesInstalled ==
    pc = "prepare" =>
        /\ \A s \in plan.services : Provider(s) \in plan.packages
        /\ \A p \in plan.ports : Listener(p) \cap plan.services # {}

(* Every name on the certificate is served, before HTTPS is set up and     *)
(* after: by one block only, with the authority's challenge on port 80,    *)
(* and a visitor arrives at the application after at most two redirects;   *)
(* no name is served over HTTPS that the certificate lacks.                *)
RoutingSound ==
    pc = "prepare" =>
        LET before == HttpBlocks(plan)
            after == TlsBlocks(plan)
            names == CertificateHosts(plan)
        IN /\ Unambiguous(before) /\ Unambiguous(after)
           /\ ChallengeServed(plan, before) /\ ChallengeServed(plan, after)
           /\ \A h \in AppHosts(plan) \cup {PrimaryHost(plan)} :
                  Reaches(before, Address("http", h))
           /\ \A h \in names : Reaches(after, Address("http", h))
           /\ \A b \in after : b.port = 443 => b.hosts \subseteq names

(* What the packages phase has installed passes the setup guide's checks   *)
(* of it, and HTTPS its own (FrankenPHP comes with a later step).          *)
InstalledPassesChecks ==
    op = "none" /\ state = "installed" =>
        /\ Verdict(Database(active)) = "pass"
        /\ Verdict(Mail(report.plan, active)) # "fail"
        /\ report.plan.web # "frankenphp" =>
              /\ Verdict(Webserver(report.plan, active)) = "pass"
              /\ Verdict(Php(report.plan, active)) = "pass"
        /\ report.tls = "passed" => Verdict(Ssl(active, {"fullchain", "privkey"})) = "pass"

(* What resume rebuilds from report.json is the plan that was interrupted. *)
ResumeKeepsPlan ==
    op = "resume" /\ pc = "apt-update" =>
        /\ \A f \in DOMAIN plan \ {"packages"} : plan[f] = report.plan[f]
        /\ report.plan.packages \subseteq plan.packages

\* Packages nobody asked for and nothing asked for needs: any run of apt with
\* --auto-remove takes them.
Idle(h) == {p \in h.auto : \A m \in h.installed \ h.auto : <<m, p>> \notin h.needs}

(* Packages that were there before are there afterwards, whatever command  *)
(* ran, failed or was killed in between: rollback and reset purge none of  *)
(* them, nor any that one of them needs.  But apt takes those that it      *)
(* already called unneeded.                                                *)
PreexistingKept == host.installed \ Idle(host) \subseteq pkgs

(* Unless something was killed: every package and source the installer     *)
(* added is on record when a command has ended, for rollback and reset.    *)
AddedIsRecorded ==
    op = "none" /\ ~killed /\ state \in {"failed", "installed"} =>
        /\ pkgs \ host.installed \subseteq Absent(report.baseline)
        /\ "ondrej" \in sources => report.plan.source = "ondrej"

(* reset leaves no swap behind, even after kills; and, when nothing was    *)
(* killed, no apt source and no package but those that renew certificates. *)
ResetLeavesNothing ==
    undone = "reset" =>
        /\ swap \in {{}, host.swapfile}
        /\ ~killed => sources = {} /\ \A p \in pkgs \ host.installed : IsCertbotPackage(p)

(* A resume that puts HTTPS off does so because of how the names resolve    *)
(* now.  Violated: it goes by the checks of the installation that failed.  *)
DeferredForPresentDns ==
    [][op = "resume" /\ report'.tls = "deferred" /\ report' # report => dns = "elsewhere"]_vars

(* Every plan that is started can be resumed.  Violated: the database user *)
(* made from an account with a dash is not one resume accepts.             *)
PlanResumable == pc = "prepare" => Builds(OptionsFromReport(plan))

(* Violated: rollback leaves the swap on, and nothing that knows of it.    *)
RollbackLeavesNothing == undone = "rollback" => swap \subseteq host.swapfile

===============================================================================
