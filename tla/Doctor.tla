-------------------------------- MODULE Doctor --------------------------------
(***************************************************************************)
(* g7inst doctor: what it looks at on a server and when it lets an         *)
(* installation start (commands/doctor.rs).                                *)
(*                                                                         *)
(* A server h is a record of what the probes find: mem, available and      *)
(* swapped in MiB, vcpu, disk free in MiB, inodes free in percent; each    *)
(* number is -1 where the probe cannot read it.                            *)
(***************************************************************************)
EXTENDS Integers

Unread == -1

Service == {"active", "inactive", "unknown"}
Port == {"free", "used", "unknown"}
Folder == {"empty", "full", "unknown"}

\* The verdict on a service, a port or a folder that must not be there yet.
ServiceCheck(s) == CASE s = "active" -> "fail" [] s = "inactive" -> "pass" [] OTHER -> "pending"
PortCheck(p) == CASE p = "used" -> "fail" [] p = "free" -> "pass" [] OTHER -> "pending"
FolderCheck(d) == CASE d = "full" -> "fail" [] d = "empty" -> "pass" [] OTHER -> "pending"

UbuntuCheck(h) == IF h.ubuntu THEN "pass" ELSE "fail"
PrivilegeCheck(h) == IF h.root THEN "pass" ELSE "warn"

MemoryCapacityCheck(h) ==
    IF h.mem = Unread THEN "warn" ELSE IF h.mem < 900 THEN "fail" ELSE "pass"

MemoryHeadroomCheck(h) ==
    IF h.mem = Unread THEN "warn"
    ELSE IF h.available < 128 /\ h.swapped = 0 THEN "fail"
    ELSE IF h.available < 256 THEN "warn" ELSE "pass"

DiskCheck(h) == IF h.disk = Unread THEN "warn" ELSE IF h.disk < 6144 THEN "fail" ELSE "pass"
InodeCheck(h) == IF h.disk = Unread THEN "warn" ELSE IF h.inodes < 5 THEN "fail" ELSE "pass"

\* h.traces: an installer's state file, its list of owned files, its folders
\* or its site files; h.testroot: the web root of early test versions.
StateCheck(h) == IF "state" \in h.traces THEN "fail" ELSE "pass"
OwnedFilesCheck(h) == IF h.traces \ {"state"} # {} THEN "fail" ELSE "pass"
WebRootCheck(h) == IF h.testroot THEN "fail" ELSE "pass"
CertbotCheck(h) == IF h.certificates THEN "warn" ELSE "pass"

Checks(h) ==
    {UbuntuCheck(h), PrivilegeCheck(h), MemoryCapacityCheck(h), MemoryHeadroomCheck(h),
     ServiceCheck(h.nginx), ServiceCheck(h.apache), PortCheck(h.port80), PortCheck(h.port443),
     FolderCheck(h.nginxsites), FolderCheck(h.apachesites), WebRootCheck(h),
     FolderCheck(h.mysqldata), StateCheck(h), OwnedFilesCheck(h), CertbotCheck(h),
     DiskCheck(h), InodeCheck(h)}

InstallAllowed(h) == Checks(h) \cap {"fail", "pending"} = {}

\* install asks for root as well, which doctor only warns about.
Admits(h) == h.root /\ InstallAllowed(h)

===============================================================================
