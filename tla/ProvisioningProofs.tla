-------------------------- MODULE ProvisioningProofs --------------------------
(***************************************************************************)
(* What holds of every server and every option: the sizing never commits   *)
(* more memory than doctor saw, no server refuses it on the fixed tiers,   *)
(* packages that were there before are never taken away, the plan lists    *)
(* what its own services need, and every name of the site is answered;     *)
(* what is added is on record, resume has the plan that was interrupted,   *)
(* an installation passes the checks, and reset leaves nothing.            *)
(***************************************************************************)
EXTENDS Provisioning, TLAPS

(* On a fixed tier the PHP workers fit into what the other services leave, *)
(* if that is room for one worker, and have a connection each.             *)
LEMMA TierFits ==
    ASSUME NEW mib \in Nat, NEW vcpu \in Nat, mib <= 32768, vcpu >= 1
    PROVE  LET s == TierSizing(mib, vcpu)
           IN /\ mib >= 900 => Committed(s) <= mib
              /\ s.children \in Nat /\ s.connections \in Nat
              /\ s.children <= s.connections
              /\ s.swap \in 2..4
<1>1. CASE mib <= 1536
  <2>1. TierFor(mib) = Tier1gb
    BY <1>1 DEF TierFor
  <2>2. Fixed(Tier1gb) = 736 /\ WorkerMemory[Tier1gb.n] = 96 /\ CpuMultiplier[Tier1gb.n] = 4
    BY DEF Fixed, Tier1gb, WebOverhead, WorkerMemory, CpuMultiplier
  <2>3. /\ Children(Tier1gb, mib, vcpu) \in 1..4
        /\ mib >= 900 => 736 + 96 * Children(Tier1gb, mib, vcpu) <= mib
    <3>1. Tier1gb.children = 4
      BY DEF Tier1gb
    <3> QED
      BY <1>1, <2>2, <3>1 DEF Children, Least, Greatest
  <2>4. /\ TierSizing(mib, vcpu).children = Children(Tier1gb, mib, vcpu)
        /\ TierSizing(mib, vcpu).worker = 96 /\ TierSizing(mib, vcpu).others = 736
        /\ TierSizing(mib, vcpu).swap = Tier1gb.swap
        /\ TierSizing(mib, vcpu).connections
             = Least(Greatest(Children(Tier1gb, mib, vcpu) + AdminMargin[Tier1gb.n], 20), Tier1gb.conns)
    BY <2>1, <2>2 DEF TierSizing
  <2> QED
    BY <2>3, <2>4 DEF Committed, Tier1gb, AdminMargin, Least, Greatest
<1>2. CASE mib > 1536 /\ mib <= 3072
  <2>1. TierFor(mib) = Tier2gb
    BY <1>2 DEF TierFor
  <2>2. Fixed(Tier2gb) = 1280 /\ WorkerMemory[Tier2gb.n] = 96 /\ CpuMultiplier[Tier2gb.n] = 4
    BY DEF Fixed, Tier2gb, WebOverhead, WorkerMemory, CpuMultiplier
  <2>3. /\ Children(Tier2gb, mib, vcpu) \in 1..8
        /\ mib >= 900 => 1280 + 96 * Children(Tier2gb, mib, vcpu) <= mib
    <3>1. Tier2gb.children = 8
      BY DEF Tier2gb
    <3> QED
      BY <1>2, <2>2, <3>1 DEF Children, Least, Greatest
  <2>4. /\ TierSizing(mib, vcpu).children = Children(Tier2gb, mib, vcpu)
        /\ TierSizing(mib, vcpu).worker = 96 /\ TierSizing(mib, vcpu).others = 1280
        /\ TierSizing(mib, vcpu).swap = Tier2gb.swap
        /\ TierSizing(mib, vcpu).connections
             = Least(Greatest(Children(Tier2gb, mib, vcpu) + AdminMargin[Tier2gb.n], 20), Tier2gb.conns)
    BY <2>1, <2>2 DEF TierSizing
  <2> QED
    BY <2>3, <2>4 DEF Committed, Tier2gb, AdminMargin, Least, Greatest
<1>3. CASE mib > 3072 /\ mib <= 6144
  <2>1. TierFor(mib) = Tier4gb
    BY <1>3 DEF TierFor
  <2>2. Fixed(Tier4gb) = 2400 /\ WorkerMemory[Tier4gb.n] = 112 /\ CpuMultiplier[Tier4gb.n] = 6
    BY DEF Fixed, Tier4gb, WebOverhead, WorkerMemory, CpuMultiplier
  <2>3. /\ Children(Tier4gb, mib, vcpu) \in 1..16
        /\ mib >= 900 => 2400 + 112 * Children(Tier4gb, mib, vcpu) <= mib
    <3>1. Tier4gb.children = 16
      BY DEF Tier4gb
    <3> QED
      BY <1>3, <2>2, <3>1 DEF Children, Least, Greatest
  <2>4. /\ TierSizing(mib, vcpu).children = Children(Tier4gb, mib, vcpu)
        /\ TierSizing(mib, vcpu).worker = 112 /\ TierSizing(mib, vcpu).others = 2400
        /\ TierSizing(mib, vcpu).swap = Tier4gb.swap
        /\ TierSizing(mib, vcpu).connections
             = Least(Greatest(Children(Tier4gb, mib, vcpu) + AdminMargin[Tier4gb.n], 20), Tier4gb.conns)
    BY <2>1, <2>2 DEF TierSizing
  <2> QED
    BY <2>3, <2>4 DEF Committed, Tier4gb, AdminMargin, Least, Greatest
<1>4. CASE mib > 6144 /\ mib <= 12288
  <2>1. TierFor(mib) = Tier8gb
    BY <1>4 DEF TierFor
  <2>2. Fixed(Tier8gb) = 4032 /\ WorkerMemory[Tier8gb.n] = 128 /\ CpuMultiplier[Tier8gb.n] = 8
    BY DEF Fixed, Tier8gb, WebOverhead, WorkerMemory, CpuMultiplier
  <2>3. /\ Children(Tier8gb, mib, vcpu) \in 1..32
        /\ mib >= 900 => 4032 + 128 * Children(Tier8gb, mib, vcpu) <= mib
    <3>1. Tier8gb.children = 32
      BY DEF Tier8gb
    <3> QED
      BY <1>4, <2>2, <3>1 DEF Children, Least, Greatest
  <2>4. /\ TierSizing(mib, vcpu).children = Children(Tier8gb, mib, vcpu)
        /\ TierSizing(mib, vcpu).worker = 128 /\ TierSizing(mib, vcpu).others = 4032
        /\ TierSizing(mib, vcpu).swap = Tier8gb.swap
        /\ TierSizing(mib, vcpu).connections
             = Least(Greatest(Children(Tier8gb, mib, vcpu) + AdminMargin[Tier8gb.n], 20), Tier8gb.conns)
    BY <2>1, <2>2 DEF TierSizing
  <2> QED
    BY <2>3, <2>4 DEF Committed, Tier8gb, AdminMargin, Least, Greatest
<1>5. CASE mib > 12288 /\ mib <= 24576
  <2>1. TierFor(mib) = Tier16gb
    BY <1>5 DEF TierFor
  <2>2. Fixed(Tier16gb) = 8960 /\ WorkerMemory[Tier16gb.n] = 128 /\ CpuMultiplier[Tier16gb.n] = 10
    BY DEF Fixed, Tier16gb, WebOverhead, WorkerMemory, CpuMultiplier
  <2>3. /\ Children(Tier16gb, mib, vcpu) \in 1..64
        /\ mib >= 900 => 8960 + 128 * Children(Tier16gb, mib, vcpu) <= mib
    <3>1. Tier16gb.children = 64
      BY DEF Tier16gb
    <3> QED
      BY <1>5, <2>2, <3>1 DEF Children, Least, Greatest
  <2>4. /\ TierSizing(mib, vcpu).children = Children(Tier16gb, mib, vcpu)
        /\ TierSizing(mib, vcpu).worker = 128 /\ TierSizing(mib, vcpu).others = 8960
        /\ TierSizing(mib, vcpu).swap = Tier16gb.swap
        /\ TierSizing(mib, vcpu).connections
             = Least(Greatest(Children(Tier16gb, mib, vcpu) + AdminMargin[Tier16gb.n], 20), Tier16gb.conns)
    BY <2>1, <2>2 DEF TierSizing
  <2> QED
    BY <2>3, <2>4 DEF Committed, Tier16gb, AdminMargin, Least, Greatest
<1>6. CASE mib > 24576
  <2>1. TierFor(mib) = Tier32gb
    BY <1>6 DEF TierFor
  <2>2. Fixed(Tier32gb) = 16512 /\ WorkerMemory[Tier32gb.n] = 128 /\ CpuMultiplier[Tier32gb.n] = 12
    BY DEF Fixed, Tier32gb, WebOverhead, WorkerMemory, CpuMultiplier
  <2>3. /\ Children(Tier32gb, mib, vcpu) \in 1..96
        /\ mib >= 900 => 16512 + 128 * Children(Tier32gb, mib, vcpu) <= mib
    <3>1. Tier32gb.children = 96
      BY DEF Tier32gb
    <3> QED
      BY <1>6, <2>2, <3>1 DEF Children, Least, Greatest
  <2>4. /\ TierSizing(mib, vcpu).children = Children(Tier32gb, mib, vcpu)
        /\ TierSizing(mib, vcpu).worker = 128 /\ TierSizing(mib, vcpu).others = 16512
        /\ TierSizing(mib, vcpu).swap = Tier32gb.swap
        /\ TierSizing(mib, vcpu).connections
             = Least(Greatest(Children(Tier32gb, mib, vcpu) + AdminMargin[Tier32gb.n], 20), Tier32gb.conns)
    BY <2>1, <2>2 DEF TierSizing
  <2> QED
    BY <2>3, <2>4 DEF Committed, Tier32gb, AdminMargin, Least, Greatest
<1> QED
  BY <1>1, <1>2, <1>3, <1>4, <1>5, <1>6

(* The same of the formula for larger servers.                             *)
LEMMA FormulaFits ==
    ASSUME NEW mib \in Nat, NEW vcpu \in Nat, mib > 32768, vcpu >= 1
    PROVE  LET s == FormulaSizing(mib, vcpu)
           IN /\ Committed(s) <= mib
              /\ s.children \in Nat /\ s.connections \in Nat
              /\ s.children <= s.connections
              /\ s.swap \in 2..4
<1> DEFINE s == FormulaSizing(mib, vcpu)
           gib == Greatest(mib \div 1024, 33)
           fed == (mib \div 4) \div 128
           c == Least(Greatest(fed, 32), Least(vcpu * 12, 192))
           db == Clamp((gib * 40) \div 100, 10, 24)
           os == Greatest((mib * 10) \div 100, 4096)
           redis == Clamp((mib * 6) \div 100, 2048, 4096)
           web == Clamp((mib * 2) \div 100, 768, 1024)
           conns == Clamp(gib * 12, 400, 800)
<1>s. s = FormulaSizing(mib, vcpu)
  OBVIOUS
<1> HIDE DEF s
<1>1. /\ s.children = c /\ s.worker = 128 /\ s.connections = conns /\ s.swap = 4
      /\ s.others = os + 1024 * db + redis + web + 384
  BY <1>s DEF FormulaSizing
<1>2. gib \in Nat /\ gib >= 33 /\ 1024 * gib <= mib + 1024
  BY DEF Greatest
<1>3. c \in Nat /\ c <= 192 /\ 512 * c <= mib
  <2>1. fed \in Nat /\ 512 * fed <= mib
    OBVIOUS
  <2>2. Least(vcpu * 12, 192) \in Nat /\ Least(vcpu * 12, 192) <= 192
    BY DEF Least
  <2> HIDE DEF fed
  <2>3. Greatest(fed, 32) \in Nat /\ 512 * Greatest(fed, 32) <= mib
    BY <2>1 DEF Greatest
  <2> QED
    BY <2>2, <2>3 DEF Least
<1>4. conns \in Nat /\ 400 <= conns
  <2> HIDE DEF gib
  <2> QED
    BY <1>2 DEF Clamp, Least, Greatest
<1>5. db \in Nat /\ 100 * db <= 40 * gib
  <2> HIDE DEF gib
  <2>1. /\ (gib * 40) \div 100 \in Nat /\ (gib * 40) \div 100 >= 13
        /\ 100 * ((gib * 40) \div 100) <= 40 * gib
    BY <1>2
  <2> DEFINE x == (gib * 40) \div 100
  <2>2. db = Least(x, 24) /\ x \in Nat /\ 100 * x <= 40 * gib
    BY <2>1 DEF Clamp, Greatest
  <2> HIDE DEF x, db
  <2> QED
    BY <1>2, <2>2 DEF Least
<1>6. os \in Nat /\ 100 * os <= 10 * mib + 100 * 820
  BY DEF Greatest
<1>7. redis \in Nat /\ 100 * redis <= 6 * mib + 100 * 83
  BY DEF Clamp, Least, Greatest
<1>8. web \in Nat /\ 100 * web <= 2 * mib + 100 * 113
  BY DEF Clamp, Least, Greatest
<1> HIDE DEF gib, c, db, os, redis, web, conns
<1>9. os + 1024 * db + redis + web + 384 + c * 128 <= mib
  BY <1>2, <1>3, <1>5, <1>6, <1>7, <1>8
<1>10. Committed(s) <= mib
  BY <1>1, <1>9 DEF Committed
<1>11. s.children <= s.connections
  BY <1>1, <1>3, <1>4
<1> QED
  BY <1>1, <1>3, <1>4, <1>10, <1>11 DEF s

(* Every server accepts what a fixed tier gives it.                        *)
LEMMA TierAccepted ==
    ASSUME NEW mib \in Nat, NEW vcpu \in Nat, mib <= 32768, vcpu >= 1
    PROVE  Accepted(TierSizing(mib, vcpu))
<1> DEFINE t == TierFor(mib)
           s == TierSizing(mib, vcpu)
           c == Children(t, mib, vcpu)
<1>1. t \in {Tier1gb, Tier2gb, Tier4gb, Tier8gb, Tier16gb, Tier32gb}
  BY DEF TierFor
<1>2. /\ t.workers <= t.slots * t.threads /\ t.conn < t.files /\ t.upload \in Nat
      /\ ApacheSpare[t.n][1] < ApacheSpare[t.n][2] /\ ApacheSpare[t.n][2] <= t.workers
      /\ ProcessCounts[t.n] \in Nat
  BY <1>1 DEF ApacheSpare, ProcessCounts, Tier1gb, Tier2gb, Tier4gb, Tier8gb, Tier16gb, Tier32gb
<1>3. c \in Nat
  <2>1. s.children = c
    BY DEF TierSizing
  <2> QED
    BY <2>1, TierFits
<1>4. /\ s.children = c /\ s.start = Least(ProcessCounts[t.n], c) /\ s.minspare = s.start
      /\ s.maxspare = Least(2 * ProcessCounts[t.n], c)
      /\ s.workers = t.workers /\ s.slots = t.slots /\ s.threads = t.threads
      /\ s.spare = ApacheSpare[t.n] /\ s.conn = t.conn /\ s.files = t.files
      /\ s.upload = t.upload /\ s.post = t.upload + 16 /\ s.body = t.upload + 24
  <2>1. s = TierSizing(mib, vcpu)
    OBVIOUS
  <2> HIDE DEF s
  <2> QED
    BY <2>1 DEF TierSizing
<1> HIDE DEF t, s, c
<1>5. FpmAccepts(s)
  BY <1>2, <1>3, <1>4 DEF FpmAccepts, Least
<1>6. QED
  BY <1>2, <1>4, <1>5 DEF Accepted, s

LEMMA FormulaAccepted ==
    ASSUME NEW mib \in Nat, NEW vcpu \in Nat, mib > 32768, vcpu >= 1
    PROVE  Accepted(FormulaSizing(mib, vcpu))
<1> DEFINE s == FormulaSizing(mib, vcpu)
           x == (vcpu * 64) % 65536
           y == Greatest(mib \div 1024, 33) * 512
           w == Clamp(x, 400, 800)
           conn == Clamp(y, 16384, 32768)
           nginx == Clamp(vcpu, 1, 16)
<1>1. /\ w \in Int /\ 400 <= w /\ w <= 800
      /\ conn \in Int /\ 16384 <= conn /\ conn <= 32768
      /\ nginx \in Int /\ 1 <= nginx /\ nginx <= 16
  <2>1. x \in Int
    OBVIOUS
  <2>2. y \in Int
    BY DEF Greatest
  <2> HIDE DEF x, y
  <2> QED
    BY <2>1, <2>2 DEF Clamp, Least, Greatest
<1>s. s = FormulaSizing(mib, vcpu)
  OBVIOUS
<1> HIDE DEF s
<1>2. /\ s.workers = w /\ s.slots = (w + 24) \div 25 /\ s.threads = 25
      /\ s.spare = <<w \div 4, w \div 2>> /\ s.conn = conn
      /\ s.files = Clamp(nginx * conn * 2, 65535, 131072)
      /\ s.upload = 256 /\ s.post = 288 /\ s.body = 296 /\ s.tier = 7
  BY <1>s DEF FormulaSizing
<1> HIDE DEF w, conn, nginx
<1>3. /\ s.files \in Int /\ s.files >= 65535 /\ w <= ((w + 24) \div 25) * 25
      /\ s.spare[1] < s.spare[2] /\ s.spare[2] <= w
  <2>1. nginx * conn * 2 \in Int
    BY <1>1
  <2> QED
    BY <1>1, <1>2, <2>1 DEF Clamp, Least, Greatest
<1>4. Accepted(s)
  <2>1. s.workers <= s.slots * s.threads
    BY <1>1, <1>2, <1>3
  <2>2. s.conn < s.files /\ s.upload < s.post /\ s.post < s.body
    <3>1. s.conn \in Int /\ s.conn <= 32768
      BY <1>1, <1>2
    <3>2. s.conn < s.files
      BY <3>1, <1>3
    <3> QED
      BY <3>2, <1>2
  <2>3. s.spare[1] < s.spare[2] /\ s.spare[2] <= s.workers /\ ~(s.tier <= 6)
    BY <1>1, <1>2, <1>3
  <2> QED
    BY <2>1, <2>2, <2>3 DEF Accepted
<1> QED
  BY <1>4 DEF s

(* Whatever was read of memory and processors.                             *)
LEMMA ResolveSound ==
    ASSUME NEW mib \in Nat, NEW vcpu \in Nat
    PROVE  LET s == Resolve(mib, vcpu)
           IN /\ mib >= 900 => Committed(s) <= mib
              /\ s.children <= s.connections
              /\ s.swap \in 2..4
              /\ Accepted(s)
<1> DEFINE m == Greatest(mib, 1)
           v == Greatest(vcpu, 1)
<1>1. m \in Nat /\ v \in Nat /\ v >= 1 /\ (mib >= 900 => m = mib)
  BY DEF Greatest
<1>2. CASE m <= 32768
  BY <1>1, <1>2, TierFits, TierAccepted DEF Resolve
<1>3. CASE m > 32768
  BY <1>1, <1>3, FormulaFits, FormulaAccepted DEF Resolve
<1> QED
  BY <1>1, <1>2, <1>3

---------------------------------------------------------------------------
(* The sizing of an installation, from the moment it is known until the     *)
(* swap file is made, is that of a server doctor has let through.          *)
SizedForHost ==
    /\ host \in Hosts
    /\ pc \in {"prepare", "swap-files", "swap-file"} => Admits(host)
    /\ pc = "swap-file" =>
          sizing = Resolve(Detected(host.mem, 1024), Detected(host.vcpu, 1))

THEOREM SizingFromHost == Spec => []SizedForHost
<1>1. Init => SizedForHost
  BY DEF Init, SizedForHost
<1>2. SizedForHost /\ [Next]_vars => SizedForHost'
  <2> SUFFICES ASSUME SizedForHost, [Next]_vars PROVE SizedForHost'
    OBVIOUS
  <2>0. host' = host
    BY DEF Next, vars, StartInstall, Prepare, SwapFails, WriteSwapFiles, CreateSwapFile,
       FormatSwapFile, SwapOn, RecordSwap, StartResume, PackagesFail, AptUpdate, DetectSource,
       InspectPackages, InstallPrerequisites, AddOndrej, AddMysqlSource, CheckCandidates,
       AptFails, AptInstall, EnableServices, ConfigurePostfix, Verify, WriteReport,
       LaterStepFails, Tls, FixDns, Rollback, Reset, Removes, Interrupt
  <2>1. CASE StartInstall
    BY <2>0, <2>1 DEF StartInstall, SizedForHost
  <2>2. CASE Prepare
    BY <2>0, <2>2 DEF Prepare, SizedForHost, At, Goto
  <2>3. CASE WriteSwapFiles
    BY <2>0, <2>3 DEF WriteSwapFiles, SizedForHost, At, Goto
  <2>4. CASE FixDns \/ Rollback \/ Reset \/ UNCHANGED vars
    BY <2>0, <2>4 DEF FixDns, Rollback, Reset, Removes, vars, memory, SizedForHost
  <2>5. CASE SwapFails \/ CreateSwapFile \/ FormatSwapFile \/ SwapOn \/ RecordSwap
    BY <2>0, <2>5 DEF SwapFails, CreateSwapFile, FormatSwapFile, SwapOn, RecordSwap,
       At, Goto, Ends, SizedForHost
  <2>6. CASE StartResume \/ PackagesFail \/ AptUpdate \/ DetectSource \/ InspectPackages
    BY <2>0, <2>6 DEF StartResume, PackagesFail, AptUpdate, DetectSource, InspectPackages,
       At, Goto, SizedForHost
  <2>7. CASE InstallPrerequisites \/ AddOndrej \/ AddMysqlSource \/ CheckCandidates
    BY <2>0, <2>7 DEF InstallPrerequisites, AddOndrej, AddMysqlSource, CheckCandidates,
       At, Goto, SizedForHost
  <2>8. CASE AptFails \/ AptInstall \/ EnableServices \/ ConfigurePostfix \/ Verify
    BY <2>0, <2>8 DEF AptFails, AptInstall, EnableServices, ConfigurePostfix, Verify,
       At, Goto, SizedForHost
  <2>9. CASE WriteReport \/ LaterStepFails \/ Tls \/ Interrupt
    BY <2>0, <2>9 DEF WriteReport, LaterStepFails, Tls, Interrupt, At, Goto, Ends, SizedForHost
  <2> QED
    BY <2>1, <2>2, <2>3, <2>4, <2>5, <2>6, <2>7, <2>8, <2>9 DEF Next
<1> QED
  BY <1>1, <1>2, PTL DEF Spec

(* Whatever the server, what doctor has let through carries its plan: the   *)
(* memory and the connections suffice, and the swap file fits on the disk. *)
THEOREM AdmittedFitsAlways == Spec => []AdmittedFits
<1>1. SizedForHost => AdmittedFits
  <2> SUFFICES ASSUME SizedForHost, pc = "swap-file" PROVE Fits(host, sizing)
    BY DEF AdmittedFits
  <2> DEFINE mib == Detected(host.mem, 1024)
             vcpu == Detected(host.vcpu, 1)
  <2>1. mib \in Nat /\ vcpu \in Nat
    BY HostsAreRead DEF SizedForHost, Detected
  <2>2. sizing = Resolve(mib, vcpu) /\ Admits(host)
    BY DEF SizedForHost
  <2>3. host.mem # Unread => mib = host.mem /\ mib >= 900
    <3>1. MemoryCapacityCheck(host) # "fail"
      BY <2>2 DEF Admits, InstallAllowed, Checks
    <3>2. host.mem # Unread => host.mem \in Nat
      BY HostsAreRead DEF SizedForHost
    <3> QED
      BY <3>1, <3>2 DEF MemoryCapacityCheck, Detected
  <2>4. host.disk # Unread => host.disk \in Nat /\ host.disk >= 6144
    <3>1. DiskCheck(host) # "fail"
      BY <2>2 DEF Admits, InstallAllowed, Checks
    <3>2. host.disk # Unread => host.disk \in Nat
      BY HostsAreRead DEF SizedForHost
    <3> QED
      BY <3>1, <3>2 DEF DiskCheck
  <2> HIDE DEF mib, vcpu
  <2>5. /\ mib >= 900 => Committed(sizing) <= mib
        /\ sizing.children <= sizing.connections
        /\ sizing.swap \in 2..4
    BY <2>1, <2>2, ResolveSound
  <2> QED
    BY <2>3, <2>4, <2>5 DEF Fits
<1> QED
  BY <1>1, SizingFromHost, PTL

(* Whatever the server, no service refuses the configuration it is given.  *)
THEOREM ServersAcceptAlways == Spec => []ServersAccept
<1>1. SizedForHost => ServersAccept
  <2> SUFFICES ASSUME SizedForHost, pc = "swap-file" PROVE Accepted(sizing)
    BY DEF ServersAccept
  <2>1. Detected(host.mem, 1024) \in Nat /\ Detected(host.vcpu, 1) \in Nat
    BY HostsAreRead DEF SizedForHost, Detected
  <2> QED
    BY <2>1, ResolveSound DEF SizedForHost
<1> QED
  BY <1>1, SizingFromHost, PTL

---------------------------------------------------------------------------
(* What the baselines call absent was absent: the one in memory and the    *)
(* one on disk.  Without this, a purge could take anything.  And nothing   *)
(* at all has gone before the first purge, which is the only one: it       *)
(* leaves no report, and nothing starts after it.                          *)
BaselineSound ==
    /\ host \in Hosts
    /\ Absent(baseline) \cap host.installed = {}
    /\ Absent(report.baseline) \cap host.installed = {}
    /\ IF state = "gone" THEN op = "none" /\ report = NoReport ELSE host.installed \subseteq pkgs
    /\ host.installed \ Idle(host) \subseteq pkgs

LEMMA NothingAbsent == Absent({}) = {}
  BY DEF Absent

(* What a baseline calls absent is what was looked for and not found.       *)
LEMMA InspectedAbsent ==
    ASSUME NEW T, NEW K
    PROVE  Absent({[package |-> p, before |-> p \in K] : p \in T}) = T \ K
<1> DEFINE e(p) == [package |-> p, before |-> p \in K]
           b == {e(p) : p \in T}
<1>1. \A p : e(p).package = p /\ (e(p).before <=> p \in K)
  OBVIOUS
<1> HIDE DEF e
<1>2. Absent(b) = {x.package : x \in {y \in b : ~y.before}}
  BY DEF Absent
<1>3. ASSUME NEW q \in Absent(b) PROVE q \in T \ K
  <2>1. PICK x \in b : ~x.before /\ q = x.package
    BY <1>2, <1>3
  <2>2. PICK p \in T : x = e(p)
    OBVIOUS
  <2> QED
    BY <1>1, <2>1, <2>2
<1>4. ASSUME NEW p \in T \ K PROVE p \in Absent(b)
  <2>1. e(p) \in b /\ ~e(p).before /\ e(p).package = p
    BY <1>1, <1>4
  <2> QED
    BY <1>2, <2>1
<1>5. Absent(b) = T \ K
  BY <1>3, <1>4
<1> QED
  BY <1>5 DEF e

(* A purge of packages that were not there takes only what is needed by    *)
(* none of those asked for.                                                *)
LEMMA PurgeKeeps ==
    ASSUME NEW D, D \cap host.installed = {}, NEW asked, Purges(D, asked),
           host \in Hosts, host.installed \subseteq pkgs
    PROVE  host.installed \ Idle(host) \subseteq pkgs'
<1>1. host.auto \subseteq host.installed /\ host.needs \subseteq host.installed \X host.installed
  BY HostsAreFound
<1>2. CASE D = {}
  BY <1>2 DEF Purges
<1>3. CASE D # {}
  <2>1. PICK also \in SUBSET MayGo(D, asked) : pkgs' = (pkgs \ D) \ also
    BY <1>3 DEF Purges
  <2>2. SUFFICES ASSUME NEW p \in host.installed, p \in MayGo(D, asked) PROVE p \in Idle(host)
    BY <2>1
  <2>3. \A q \in D : <<p, q>> \notin host.needs
    <3> SUFFICES ASSUME NEW q \in D, <<p, q>> \in host.needs PROVE FALSE
      OBVIOUS
    <3>1. <<p, q>> \in host.installed \X host.installed
      BY <1>1
    <3>2. q \in host.installed
      BY <3>1
    <3> QED
      BY <3>2
  <2>4. /\ p \in host.auto
        /\ \A m \in (pkgs \ D) \ (host.auto \ asked) : <<m, p>> \notin host.needs
    BY <2>2, <2>3 DEF MayGo
  <2>5. host.installed \ host.auto \subseteq (pkgs \ D) \ (host.auto \ asked)
    OBVIOUS
  <2> QED
    BY <2>4, <2>5 DEF Idle
<1> QED
  BY <1>2, <1>3

(* Packages of before survive every command, failure and kill, all but     *)
(* those that nothing asked for needs.                                     *)
THEOREM PreexistingAlways == Spec => []PreexistingKept
<1>1. Init => BaselineSound
  BY NothingAbsent DEF Init, NoReport, BaselineSound
<1>2. BaselineSound /\ [Next]_vars => BaselineSound'
  <2> SUFFICES ASSUME BaselineSound, [Next]_vars PROVE BaselineSound'
    OBVIOUS
  <2> USE DEF BaselineSound, At, Goto
  <2>1. CASE Prepare
    BY <2>1, NothingAbsent DEF Prepare, server, memory, NoReport
  <2>2. CASE SwapFails \/ LaterStepFails \/ Interrupt
    BY <2>2, NothingAbsent DEF SwapFails, LaterStepFails, Interrupt, Ends, Forget, server, disk
  <2>3. CASE StartResume
    BY <2>3 DEF StartResume, server, disk
  <2>4. CASE InspectPackages
    <3>1. op # "none" /\ UNCHANGED <<host, pkgs, report, state>>
      BY <2>4 DEF InspectPackages, server, disk
    <3>2. baseline' = baseline \/ baseline' = {[package |-> p, before |-> p \in pkgs] : p \in todo'}
      BY <2>4 DEF InspectPackages
    <3>3. Absent({[package |-> p, before |-> p \in pkgs] : p \in todo'}) \cap pkgs = {}
      <4>1. \A T, K : Absent({[package |-> p, before |-> p \in K] : p \in T}) = T \ K
        BY InspectedAbsent
      <4>2. Absent({[package |-> p, before |-> p \in pkgs] : p \in todo'}) = todo' \ pkgs
        BY <4>1
      <4> QED
        BY <4>2
    <3> QED
      BY <3>1, <3>2, <3>3
  <2>5. CASE WriteReport
    <3>1. op # "none" /\ report'.baseline = baseline /\ UNCHANGED <<host, pkgs, state>>
      BY <2>5 DEF WriteReport, server
    <3>2. baseline' = baseline \/ baseline' = {}
      BY <2>5 DEF WriteReport, memory, Ends, Forget
    <3> QED
      BY <3>1, <3>2, NothingAbsent
  <2>6. CASE Tls
    <3>1. report'.baseline = report.baseline \/ report' = report
      BY <2>6 DEF Tls
    <3> QED
      BY <2>6, <3>1, NothingAbsent DEF Tls, server, Ends, Forget
  <2>7. CASE Rollback \/ Reset
    <3>1. PICK asked : Purges(ToPurge(report.baseline), asked)
      BY <2>7 DEF Rollback, Reset, Removes
    <3>2. /\ op = "none" /\ state' = "gone" /\ report' = NoReport
          /\ UNCHANGED <<host, op, plan, baseline>>
      BY <2>7 DEF Rollback, Reset, Removes, memory
    <3>3. ToPurge(report.baseline) \cap host.installed = {}
      BY DEF ToPurge
    <3>4. Idle(host') = Idle(host)
      BY <3>2
    <3>5. host.installed \ Idle(host) \subseteq pkgs'
      <4>1. CASE state = "gone"
        <5>1. ToPurge(report.baseline) = {}
          BY <4>1, NothingAbsent DEF ToPurge, NoReport
        <5>2. pkgs' = pkgs
          BY <3>1, <5>1 DEF Purges
        <5> QED
          BY <5>2
      <4>2. CASE state # "gone"
        BY <3>1, <3>3, <4>2, PurgeKeeps
      <4> QED
        BY <4>1, <4>2
    <3> QED
      BY <3>2, <3>4, <3>5, NothingAbsent DEF NoReport
  <2>8. CASE StartInstall \/ FixDns \/ UNCHANGED vars
    BY <2>8 DEF StartInstall, FixDns, server, disk, memory, vars
  <2>9. CASE WriteSwapFiles \/ CreateSwapFile \/ FormatSwapFile \/ SwapOn \/ RecordSwap
    BY <2>9 DEF WriteSwapFiles, CreateSwapFile, FormatSwapFile, SwapOn, RecordSwap,
       disk, memory, server
  <2>10. CASE PackagesFail \/ AptUpdate \/ DetectSource \/ CheckCandidates
    BY <2>10 DEF PackagesFail, AptUpdate, DetectSource, CheckCandidates, disk, memory, server
  <2>11. CASE InstallPrerequisites \/ AddOndrej \/ AddMysqlSource \/ AptFails \/ AptInstall
    BY <2>11 DEF InstallPrerequisites, AddOndrej, AddMysqlSource, AptFails, AptInstall,
       disk, memory
  <2>12. CASE EnableServices \/ ConfigurePostfix \/ Verify
    BY <2>12 DEF EnableServices, ConfigurePostfix, Verify, disk, memory, server
  <2> QED
    BY <2>1, <2>2, <2>3, <2>4, <2>5, <2>6, <2>7, <2>8, <2>9, <2>10, <2>11, <2>12 DEF Next
<1>3. BaselineSound => PreexistingKept
  BY DEF BaselineSound, PreexistingKept
<1> QED
  BY <1>1, <1>2, <1>3, PTL DEF Spec

---------------------------------------------------------------------------
(* Before anything is done the command has the plan of the options, which   *)
(* have passed their checks.                                               *)
PlanOfOptions ==
    /\ opt \in OptionSet
    /\ pc = "prepare" => plan = PlanOf(opt) /\ Builds(opt)

(* For any options that pass, the plan's services come with its packages,   *)
(* and its ports with its services.  An SMTP port is one the installer      *)
(* waits for only if it looks like a local one: that of Redis.              *)
LEMMA PlanProvides ==
    ASSUME NEW o, Builds(o), SmtpPort(o) # 6379
    PROVE  /\ \A s \in PlanOf(o).services : Provider(s) \in PlanOf(o).packages
           /\ \A p \in PlanOf(o).ports : Listener(p) \cap PlanOf(o).services # {}
<1>1. /\ PlanOf(o).services = ManagedServices(o)
      /\ PlanOf(o).packages = Packages(o)
      /\ PlanOf(o).ports = ManagedPorts(o)
  BY DEF PlanOf
<1>2. {WebPackage(o.web), "mysql"} \subseteq ManagedServices(o)
  BY DEF ManagedServices, Services
<1>3. ASSUME NEW s \in ManagedServices(o) PROVE Provider(s) \in Packages(o)
  <2>1. Profile(o.app).units \cap {WebPackage(o.web), "php-fpm", "mysql", "certbot.timer",
                                   "redis-server", "postfix"} = {}
    <3>1. o.app \in {"gnuboard7", "wordpress", "laravel", "g7octane", "octane"}
      BY DEF Builds, Profiles
    <3>2. WebPackage(o.web) \in {"nginx", "apache2"}
      BY DEF WebPackage
    <3>3. Profile(o.app).units \subseteq {"laravel-queue", "laravel-scheduler", "g7-queue",
                                         "g7-scheduler", "g7-reverb"}
      BY <3>1 DEF Profile, Profiles, LaravelProfile, GnuboardProfile, WordpressProfile,
                  GnuboardOctaneProfile, LaravelOctaneProfile
    <3> QED
      BY <3>2, <3>3
  <2>2. CASE s = WebPackage(o.web)
    BY <2>2 DEF Provider, Packages, WebPackage
  <2>3. CASE s = "mysql"
    BY <2>3 DEF Provider, Packages
  <2>4. CASE s = "php-fpm"
    <3>1. o.web # "frankenphp"
      BY <2>1, <2>4 DEF ManagedServices, Services, WebPackage
    <3> QED
      BY <2>4, <3>1 DEF Provider, Packages, PhpPackages
  <2>5. CASE s = "certbot.timer"
    <3>1. ~o.local
      BY <2>1, <2>5 DEF ManagedServices, Services, WebPackage
    <3> QED
      BY <2>5, <3>1 DEF Provider, Packages, CertbotPackages
  <2>6. CASE s = "redis-server"
    <3>1. o.redis
      BY <2>1, <2>6 DEF ManagedServices, Services, WebPackage
    <3> QED
      BY <2>6, <3>1 DEF Provider, Packages
  <2>7. CASE s = "postfix"
    <3>1. o.mail = "local-postfix"
      BY <2>1, <2>7 DEF ManagedServices, Services, WebPackage
    <3> QED
      BY <2>7, <3>1 DEF Provider, Packages
  <2> QED
    BY <2>2, <2>3, <2>4, <2>5, <2>6, <2>7 DEF ManagedServices
<1>4. ASSUME NEW p \in ManagedPorts(o) PROVE Listener(p) \cap ManagedServices(o) # {}
  <2>1. CASE p = 80
    BY <1>2, <2>1 DEF Listener, WebPackage
  <2>2. CASE p = 3306
    BY <1>2, <2>2 DEF Listener
  <2>3. CASE p = 6379
    <3>1. o.redis
      BY <2>3 DEF ManagedPorts, Ports
    <3>2. "redis-server" \in ManagedServices(o)
      BY <3>1 DEF ManagedServices, Services
    <3> QED
      BY <2>3, <3>2 DEF Listener
  <2> QED
    BY <2>1, <2>2, <2>3 DEF ManagedPorts
<1> QED
  BY <1>1, <1>3, <1>4

LEMMA PlanIsOptions == Spec => []PlanOfOptions
<1>1. Init => PlanOfOptions
  BY DEF Init, PlanOfOptions
<1>2. PlanOfOptions /\ [Next]_vars => PlanOfOptions'
  <2> SUFFICES ASSUME PlanOfOptions, [Next]_vars PROVE PlanOfOptions'
    OBVIOUS
  <2>0. opt' = opt
    BY DEF Next, vars, StartInstall, Prepare, SwapFails, WriteSwapFiles, CreateSwapFile,
       FormatSwapFile, SwapOn, RecordSwap, StartResume, PackagesFail, AptUpdate, DetectSource,
       InspectPackages, InstallPrerequisites, AddOndrej, AddMysqlSource, CheckCandidates,
       AptFails, AptInstall, EnableServices, ConfigurePostfix, Verify, WriteReport,
       LaterStepFails, Tls, FixDns, Rollback, Reset, Removes, Interrupt
  <2>1. CASE StartInstall
    BY <2>0, <2>1 DEF StartInstall, PlanOfOptions
  <2>2. CASE FixDns \/ Rollback \/ Reset \/ UNCHANGED vars
    BY <2>0, <2>2 DEF FixDns, Rollback, Reset, Removes, vars, memory, PlanOfOptions
  <2>3. CASE Prepare \/ WriteSwapFiles \/ SwapFails \/ CreateSwapFile \/ FormatSwapFile
             \/ SwapOn \/ RecordSwap
    BY <2>0, <2>3 DEF Prepare, WriteSwapFiles, SwapFails, CreateSwapFile, FormatSwapFile, SwapOn,
       RecordSwap, At, Goto, Ends, PlanOfOptions
  <2>4. CASE StartResume \/ PackagesFail \/ AptUpdate \/ DetectSource \/ InspectPackages
    BY <2>0, <2>4 DEF StartResume, PackagesFail, AptUpdate, DetectSource, InspectPackages,
       At, Goto, PlanOfOptions
  <2>5. CASE InstallPrerequisites \/ AddOndrej \/ AddMysqlSource \/ CheckCandidates
    BY <2>0, <2>5 DEF InstallPrerequisites, AddOndrej, AddMysqlSource, CheckCandidates,
       At, Goto, PlanOfOptions
  <2>6. CASE AptFails \/ AptInstall \/ EnableServices \/ ConfigurePostfix \/ Verify
    BY <2>0, <2>6 DEF AptFails, AptInstall, EnableServices, ConfigurePostfix, Verify,
       At, Goto, PlanOfOptions
  <2>7. CASE WriteReport \/ LaterStepFails \/ Tls \/ Interrupt
    BY <2>0, <2>7 DEF WriteReport, LaterStepFails, Tls, Interrupt, At, Goto, Ends, PlanOfOptions
  <2> QED
    BY <2>1, <2>2, <2>3, <2>4, <2>5, <2>6, <2>7 DEF Next
<1> QED
  BY <1>1, <1>2, PTL DEF Spec

(* Every plan can be carried out, for any options, as long as no SMTP port  *)
(* is that of Redis.                                                       *)
THEOREM ServicesInstalledAlways ==
    ASSUME \A o \in OptionSet : SmtpPort(o) # 6379
    PROVE  Spec => []ServicesInstalled
<1>1. PlanOfOptions => ServicesInstalled
  BY PlanProvides DEF PlanOfOptions, ServicesInstalled
<1> QED
  BY <1>1, PlanIsOptions, PTL

---------------------------------------------------------------------------
(* Routing.  Where one block only has a name, its answer is the one given.  *)
LEMMA OneAnswer ==
    ASSUME NEW blocks, Unambiguous(blocks), NEW b \in blocks, NEW a, a # Here,
           b.port = PortOf(a.scheme), a.host \in b.hosts
    PROVE  Follow(blocks, a) = b.to
<1>1. Answering(blocks, a) = {b}
  <2>1. b \in Answering(blocks, a)
    BY DEF Answering
  <2>2. ASSUME NEW c \in Answering(blocks, a) PROVE c = b
    BY <2>2 DEF Answering, Unambiguous
  <2> QED
    BY <2>1, <2>2
<1> QED
  BY <1>1 DEF Follow

LEMMA HereStays == ASSUME NEW blocks PROVE Follow(blocks, Here) = Here
  BY DEF Follow

LEMMA Addresses ==
    ASSUME NEW h
    PROVE  /\ Address("http", h) # Here /\ Address("https", h) # Here
           /\ Address("http", h).host = h /\ Address("https", h).host = h
           /\ PortOf(Address("http", h).scheme) = 80 /\ PortOf(Address("https", h).scheme) = 443
  BY DEF Address, Here, PortOf

(* A visitor of h arrives, at once or after one redirect.                   *)
LEMMA Arrives ==
    ASSUME NEW blocks, Unambiguous(blocks), NEW b \in blocks, NEW a, a # Here,
           b.port = PortOf(a.scheme), a.host \in b.hosts,
           Follow(blocks, b.to) = Here
    PROVE  Reaches(blocks, a)
  BY OneAnswer, HereStays DEF Reaches

(* Or after two.                                                           *)
LEMMA ArrivesLate ==
    ASSUME NEW blocks, Unambiguous(blocks), NEW b \in blocks, NEW a, a # Here,
           b.port = PortOf(a.scheme), a.host \in b.hosts,
           Follow(blocks, Follow(blocks, b.to)) = Here
    PROVE  Reaches(blocks, a)
  BY OneAnswer DEF Reaches

(* Before HTTPS: one block for all names, or one that sends o to n.         *)
LEMMA PlainSound ==
    ASSUME NEW blocks, NEW s \in blocks, \A c \in blocks : c = s,
           s.port = 80, s.to = Here, s.challenge
    PROVE  /\ Unambiguous(blocks)
           /\ \A h \in s.hosts :
                 /\ \E c \in Answering(blocks, Address("http", h)) : c.challenge
                 /\ Reaches(blocks, Address("http", h))
<1>1. Unambiguous(blocks)
  BY DEF Unambiguous
<1>2. ASSUME NEW h \in s.hosts
      PROVE  /\ s \in Answering(blocks, Address("http", h))
             /\ Reaches(blocks, Address("http", h))
  <2> DEFINE a == Address("http", h)
  <2>1. a # Here /\ a.host = h /\ PortOf(a.scheme) = 80
    BY Addresses
  <2> HIDE DEF a
  <2>2. s \in Answering(blocks, a)
    BY <2>1 DEF Answering
  <2>3. Follow(blocks, s.to) = Here
    BY HereStays
  <2>4. Reaches(blocks, a)
    BY <1>1, <2>1, <2>3, Arrives
  <2> QED
    BY <2>2, <2>4 DEF a
<1> QED
  BY <1>1, <1>2

LEMMA PlainRedirectSound ==
    ASSUME NEW n, NEW o, n # o,
           NEW blocks, NEW r \in blocks, NEW s \in blocks, \A c \in blocks : c \in {r, s},
           r.port = 80, r.hosts = {o}, r.to = Address("http", n), r.challenge,
           s.port = 80, s.hosts = {n}, s.to = Here, s.challenge
    PROVE  /\ Unambiguous(blocks)
           /\ \A h \in {n, o} :
                 /\ \E c \in Answering(blocks, Address("http", h)) : c.challenge
                 /\ Reaches(blocks, Address("http", h))
<1>1. Unambiguous(blocks)
  BY DEF Unambiguous
<1> DEFINE a == Address("http", n)
           b == Address("http", o)
<1>2. /\ a # Here /\ a.host = n /\ PortOf(a.scheme) = 80
      /\ b # Here /\ b.host = o /\ PortOf(b.scheme) = 80
      /\ r.to = a
  BY Addresses
<1> HIDE DEF a, b
<1>3. r \in Answering(blocks, b) /\ s \in Answering(blocks, a)
  BY <1>2 DEF Answering
<1>4. Follow(blocks, a) = Here
  BY <1>1, <1>2, OneAnswer
<1>5. Reaches(blocks, a)
  BY <1>4, HereStays DEF Reaches
<1>6. Reaches(blocks, b)
  BY <1>1, <1>2, <1>4, Arrives
<1> QED
  BY <1>1, <1>3, <1>5, <1>6 DEF a, b

(* With HTTPS: plain requests for the names S go to a name of S, where      *)
(* every name of S is the application's or sent to one that is.            *)
LEMMA SecureSound ==
    ASSUME NEW S, NEW blocks, Unambiguous(blocks),
           \A h \in S : \E c \in blocks :
               /\ c.port = 80 /\ h \in c.hosts /\ c.challenge
               /\ \E g \in S : c.to = Address("https", g),
           \A g \in S : \E c \in blocks :
               /\ c.port = 443 /\ g \in c.hosts
               /\ \/ c.to = Here
                  \/ \E k, e : /\ c.to = Address("https", k)
                               /\ e \in blocks /\ e.port = 443 /\ k \in e.hosts /\ e.to = Here
    PROVE  \A h \in S : /\ \E c \in Answering(blocks, Address("http", h)) : c.challenge
                        /\ Reaches(blocks, Address("http", h))
<1>1. ASSUME NEW g \in S PROVE Follow(blocks, Follow(blocks, Address("https", g))) = Here
  <2>1. PICK c \in blocks :
               /\ c.port = 443 /\ g \in c.hosts
               /\ \/ c.to = Here
                  \/ \E k, e : /\ c.to = Address("https", k)
                               /\ e \in blocks /\ e.port = 443 /\ k \in e.hosts /\ e.to = Here
    OBVIOUS
  <2>2. Follow(blocks, Address("https", g)) = c.to
    BY <2>1, Addresses, OneAnswer
  <2>3. CASE c.to = Here
    BY <2>2, <2>3, HereStays
  <2>4. ASSUME NEW k, NEW e \in blocks,
               c.to = Address("https", k), e.port = 443, k \in e.hosts, e.to = Here
        PROVE  Follow(blocks, c.to) = Here
    BY <2>4, Addresses, OneAnswer
  <2> QED
    BY <2>1, <2>2, <2>3, <2>4
<1>2. ASSUME NEW h \in S
      PROVE  /\ \E c \in Answering(blocks, Address("http", h)) : c.challenge
             /\ Reaches(blocks, Address("http", h))
  <2>1. PICK c \in blocks :
               /\ c.port = 80 /\ h \in c.hosts /\ c.challenge
               /\ \E g \in S : c.to = Address("https", g)
    OBVIOUS
  <2>2. c \in Answering(blocks, Address("http", h))
    BY <2>1, Addresses DEF Answering
  <2>3. Follow(blocks, Follow(blocks, c.to)) = Here
    BY <1>1, <2>1
  <2>4. Reaches(blocks, Address("http", h))
    BY <2>1, <2>3, Addresses, ArrivesLate
  <2> QED
    BY <2>1, <2>2, <2>4
<1> QED
  BY <1>2

(* The two names of a site, and the modes for www.                          *)
LEMMA SiteNames ==
    ASSUME NEW site, Www(site.domain) # site.domain, site.www \in WwwModes
    PROVE  /\ PrimaryHost(site) \in CertificateHosts(site)
           /\ CertificateHosts(site) \subseteq AppHosts(site)
              \/ /\ CertificateHosts(site) = {site.domain, Www(site.domain)}
                 /\ ~IsWww(site.domain)
                 /\ \/ site.www = "redirect-to-root" /\ AppHosts(site) = {site.domain}
                    \/ site.www = "redirect-to-www" /\ AppHosts(site) = {Www(site.domain)}
           /\ AppHosts(site) \subseteq CertificateHosts(site)
           /\ PrimaryHost(site) \in AppHosts(site)
<1> DEFINE w == Www(site.domain)
<1> HIDE DEF w
<1>2. Www(site.domain) = w
  BY DEF w
<1> QED
  BY <1>2 DEF CertificateHosts, AppHosts, PrimaryHost, WwwModes

(* Plain requests, with HTTPS: each name has one block, which sends it to   *)
(* a name of the certificate.                                              *)
LEMMA PlainRedirectsKnown ==
    ASSUME NEW site, Www(site.domain) # site.domain, site.www \in WwwModes
    PROVE  /\ Unambiguous(PlainRedirects(site))
           /\ \A c \in PlainRedirects(site) : c.port = 80
           /\ \A h \in CertificateHosts(site) : \E c \in PlainRedirects(site) :
                 /\ c.port = 80 /\ h \in c.hosts /\ c.challenge
                 /\ \E g \in CertificateHosts(site) : c.to = Address("https", g)
<1> DEFINE S == CertificateHosts(site)
<1>1. PrimaryHost(site) \in S
  BY SiteNames
<1>2. CASE site.web = "apache"
  <2> DEFINE B(h) == Block(80, {h}, Address("https", h), TRUE)
  <2>1. PlainRedirects(site) = {B(h) : h \in S}
    <3>1. S \cup {PrimaryHost(site)} = S
      BY <1>1
    <3> QED
      BY <1>2, <3>1 DEF PlainRedirects
  <2>2. \A h : B(h).port = 80 /\ B(h).hosts = {h} /\ B(h).challenge /\ B(h).to = Address("https", h)
    BY DEF Block
  <2> HIDE DEF S, B
  <2>3. Unambiguous(PlainRedirects(site))
    BY <2>1, <2>2 DEF Unambiguous
  <2>4. \A c \in PlainRedirects(site) : c.port = 80
    BY <2>1, <2>2
  <2>5. ASSUME NEW h \in S
        PROVE  \E c \in PlainRedirects(site) :
                 /\ c.port = 80 /\ h \in c.hosts /\ c.challenge
                 /\ \E g \in S : c.to = Address("https", g)
    <3>1. B(h) \in PlainRedirects(site)
      BY <2>1
    <3> QED
      BY <2>2, <3>1
  <2> QED
    BY <2>3, <2>4, <2>5 DEF S
<1>3. CASE site.web # "apache"
  <2> DEFINE b == Block(80, S, Address("https", PrimaryHost(site)), TRUE)
  <2>1. PlainRedirects(site) = {b}
    BY <1>3 DEF PlainRedirects
  <2>2. b.port = 80 /\ b.hosts = S /\ b.challenge /\ b.to = Address("https", PrimaryHost(site))
    BY DEF Block
  <2> HIDE DEF S, b
  <2> QED
    BY <1>1, <2>1, <2>2 DEF Unambiguous, S
<1> QED
  BY <1>2, <1>3

SecureBlocks(site) ==
    CanonicalRedirect(site, 443, "https") \cup {Block(443, AppHosts(site), Here, FALSE)}

(* Requests over HTTPS: each name of the certificate, and no other, has one *)
(* block, which is the application's or sends it to a name that has that.  *)
LEMMA SecureBlocksKnown ==
    ASSUME NEW site, Www(site.domain) # site.domain, site.www \in WwwModes, NEW Q,
           Q = SecureBlocks(site)
    PROVE  /\ Unambiguous(Q)
           /\ \A c \in Q : c.port = 443 /\ c.hosts \subseteq CertificateHosts(site)
           /\ \A g \in CertificateHosts(site) : \E c \in Q :
                 /\ c.port = 443 /\ g \in c.hosts
                 /\ \/ c.to = Here
                    \/ \E k, e : /\ c.to = Address("https", k)
                                 /\ e \in Q /\ e.port = 443 /\ k \in e.hosts /\ e.to = Here
<1> DEFINE d == site.domain
           w == Www(site.domain)
<1>s. PICK s : s = Block(443, AppHosts(site), Here, FALSE)
  OBVIOUS
<1>0. Q = CanonicalRedirect(site, 443, "https") \cup {s}
  BY <1>s DEF SecureBlocks
<1>1. s.port = 443 /\ s.hosts = AppHosts(site) /\ s.to = Here /\ s \in Q
  BY <1>0, <1>s DEF Block
<1>2. d # w /\ AppHosts(site) \subseteq CertificateHosts(site)
  BY SiteNames
<1>3. CASE CanonicalRedirect(site, 443, "https") = {}
  <2>1. Q = {s}
    BY <1>0, <1>3
  <2>2. CertificateHosts(site) \subseteq AppHosts(site)
    BY <1>3, SiteNames DEF CanonicalRedirect
  <2> QED
    BY <1>1, <1>2, <2>1, <2>2 DEF Unambiguous
<1>4. ASSUME NEW n, NEW o, n # o, AppHosts(site) = {n}, CertificateHosts(site) = {n, o},
             NEW r, CanonicalRedirect(site, 443, "https") = {r},
             r.port = 443, r.hosts = {o}, r.to = Address("https", n)
      PROVE  /\ Unambiguous(Q)
             /\ \A c \in Q : c.port = 443 /\ c.hosts \subseteq CertificateHosts(site)
             /\ \A g \in CertificateHosts(site) : \E c \in Q :
                   /\ c.port = 443 /\ g \in c.hosts
                   /\ \/ c.to = Here
                      \/ \E k, e : /\ c.to = Address("https", k)
                                   /\ e \in Q /\ e.port = 443 /\ k \in e.hosts /\ e.to = Here
  <2>1. Q = {r, s}
    BY <1>0, <1>4
  <2> QED
    BY <1>1, <1>4, <2>1 DEF Unambiguous
<1>5. CASE ~IsWww(d) /\ site.www \in {"redirect-to-root", "redirect-to-www"}
  <2>1. CASE site.www = "redirect-to-root"
    <3>1. AppHosts(site) = {d} /\ CertificateHosts(site) = {d, w}
      BY <1>5, <2>1 DEF AppHosts, CertificateHosts
    <3>2. PICK r : r = Block(443, {w}, Address("https", d), 443 = 80)
      OBVIOUS
    <3>3. CanonicalRedirect(site, 443, "https") = {r}
      BY <1>5, <2>1, <3>2 DEF CanonicalRedirect
    <3>4. r.port = 443 /\ r.hosts = {w} /\ r.to = Address("https", d)
      BY <3>2 DEF Block
    <3> QED
      BY <1>2, <1>4, <3>1, <3>3, <3>4
  <2>2. CASE site.www = "redirect-to-www"
    <3>1. AppHosts(site) = {w} /\ CertificateHosts(site) = {w, d}
      BY <1>5, <2>2 DEF AppHosts, CertificateHosts
    <3>2. PICK r : r = Block(443, {d}, Address("https", w), 443 = 80)
      OBVIOUS
    <3>3. CanonicalRedirect(site, 443, "https") = {r}
      BY <1>5, <2>2, <3>2 DEF CanonicalRedirect
    <3>4. r.port = 443 /\ r.hosts = {d} /\ r.to = Address("https", w)
      BY <3>2 DEF Block
    <3> QED
      BY <1>2, <1>4, <3>1, <3>3, <3>4
  <2> QED
    BY <1>5, <2>1, <2>2
<1>6. CASE IsWww(d) \/ site.www \notin {"redirect-to-root", "redirect-to-www"}
  <2>1. CanonicalRedirect(site, 443, "https") = {}
    BY <1>6 DEF CanonicalRedirect, WwwModes
  <2> QED
    BY <1>3, <2>1
<1> QED
  BY <1>5, <1>6

(* What RoutingSound says of a site.                                        *)
Routed(site) ==
    LET before == HttpBlocks(site)
        after == TlsBlocks(site)
        names == CertificateHosts(site)
    IN /\ Unambiguous(before) /\ Unambiguous(after)
       /\ ChallengeServed(site, before) /\ ChallengeServed(site, after)
       /\ \A h \in AppHosts(site) \cup {PrimaryHost(site)} :
              Reaches(before, Address("http", h))
       /\ \A h \in names : Reaches(after, Address("http", h))
       /\ \A b \in after : b.port = 443 => b.hosts \subseteq names

LEMMA SitesRouted ==
    ASSUME NEW site, Www(site.domain) # site.domain, site.www \in WwwModes
    PROVE  Routed(site)
<1> DEFINE before == HttpBlocks(site)
           after == TlsBlocks(site)
           S == CertificateHosts(site)
           Q == SecureBlocks(site)
<1>1. ASSUME NEW B, B = before
      PROVE  /\ Unambiguous(B)
             /\ \A h \in S : /\ \E c \in Answering(B, Address("http", h)) : c.challenge
                             /\ Reaches(B, Address("http", h))
  <2> DEFINE d == site.domain
             w == Www(site.domain)
  <2>s. PICK s : s = Block(80, AppHosts(site), Here, TRUE)
    OBVIOUS
  <2>0. B = CanonicalRedirect(site, 80, "http") \cup {s}
    BY <1>1, <2>s DEF HttpBlocks
  <2>1. s.port = 80 /\ s.hosts = AppHosts(site) /\ s.to = Here /\ s.challenge /\ d # w
    BY <2>s, SiteNames DEF Block
  <2>2. CASE CanonicalRedirect(site, 80, "http") = {}
    <3>1. B = {s}
      BY <2>0, <2>2
    <3>2. S \subseteq AppHosts(site)
      BY <2>2, SiteNames DEF CanonicalRedirect
    <3>3. /\ Unambiguous(B)
          /\ \A h \in s.hosts :
                /\ \E c \in Answering(B, Address("http", h)) : c.challenge
                /\ Reaches(B, Address("http", h))
      BY <2>1, <3>1, PlainSound
    <3> QED
      BY <2>1, <3>2, <3>3
  <2>3. ASSUME NEW n, NEW o, n # o, AppHosts(site) = {n}, S = {n, o},
               CanonicalRedirect(site, 80, "http") = {Block(80, {o}, Address("http", n), TRUE)}
        PROVE  /\ Unambiguous(B)
               /\ \A h \in S : /\ \E c \in Answering(B, Address("http", h)) : c.challenge
                               /\ Reaches(B, Address("http", h))
    <3>1. PICK r : r = Block(80, {o}, Address("http", n), TRUE)
      OBVIOUS
    <3>2. r.port = 80 /\ r.hosts = {o} /\ r.to = Address("http", n) /\ r.challenge
      BY <3>1 DEF Block
    <3>3. r \in B /\ s \in B /\ \A c \in B : c \in {r, s}
      BY <2>0, <2>3, <3>1
    <3>5. s.port = 80 /\ s.hosts = {n} /\ s.to = Here /\ s.challenge
      BY <2>1, <2>3
    <3>4. /\ Unambiguous(B)
          /\ \A h \in {n, o} :
                /\ \E c \in Answering(B, Address("http", h)) : c.challenge
                /\ Reaches(B, Address("http", h))
      <4> HIDE DEF d, w
      <4>1. n # o
        BY <2>3
      <4> QED
        BY <4>1, <3>2, <3>3, <3>5, PlainRedirectSound
    <3> QED
      BY <2>3, <3>4
  <2>4. CASE ~IsWww(d) /\ site.www = "redirect-to-root"
    <3>1. AppHosts(site) = {d} /\ S = {d, w}
      BY <2>4 DEF AppHosts, CertificateHosts
    <3>2. CanonicalRedirect(site, 80, "http") = {Block(80, {w}, Address("http", d), TRUE)}
      BY <2>4 DEF CanonicalRedirect
    <3> QED
      BY <2>1, <2>3, <3>1, <3>2
  <2>5. CASE ~IsWww(d) /\ site.www = "redirect-to-www"
    <3>1. AppHosts(site) = {w} /\ S = {w, d}
      BY <2>5 DEF AppHosts, CertificateHosts
    <3>2. CanonicalRedirect(site, 80, "http") = {Block(80, {d}, Address("http", w), TRUE)}
      BY <2>5 DEF CanonicalRedirect
    <3> QED
      BY <2>1, <2>3, <3>1, <3>2
  <2>6. CASE IsWww(d) \/ site.www \notin {"redirect-to-root", "redirect-to-www"}
    <3>1. CanonicalRedirect(site, 80, "http") = {}
      BY <2>6 DEF CanonicalRedirect, WwwModes
    <3> QED
      BY <2>2, <3>1
  <2> QED
    BY <2>4, <2>5, <2>6
<1>2. after = PlainRedirects(site) \cup Q
  BY DEF TlsBlocks, SecureBlocks
<1>3. /\ Unambiguous(Q)
      /\ \A c \in Q : c.port = 443 /\ c.hosts \subseteq S
      /\ \A g \in S : \E c \in Q :
            /\ c.port = 443 /\ g \in c.hosts
            /\ \/ c.to = Here
               \/ \E k, e : /\ c.to = Address("https", k)
                            /\ e \in Q /\ e.port = 443 /\ k \in e.hosts /\ e.to = Here
  BY SecureBlocksKnown
<1>4. /\ Unambiguous(PlainRedirects(site))
      /\ \A c \in PlainRedirects(site) : c.port = 80
      /\ \A h \in S : \E c \in PlainRedirects(site) :
            /\ c.port = 80 /\ h \in c.hosts /\ c.challenge
            /\ \E g \in S : c.to = Address("https", g)
  BY PlainRedirectsKnown
<1>5. AppHosts(site) \cup {PrimaryHost(site)} \subseteq S
  BY SiteNames
<1> HIDE DEF before, after, S, Q
<1>6. Unambiguous(after)
  BY <1>2, <1>3, <1>4 DEF Unambiguous
<1>7. \A h \in S : /\ \E c \in Answering(after, Address("http", h)) : c.challenge
                   /\ Reaches(after, Address("http", h))
  <2>1. \A h \in S : \E c \in after :
            /\ c.port = 80 /\ h \in c.hosts /\ c.challenge
            /\ \E g \in S : c.to = Address("https", g)
    BY <1>2, <1>4
  <2>2. \A g \in S : \E c \in after :
            /\ c.port = 443 /\ g \in c.hosts
            /\ \/ c.to = Here
               \/ \E k, e : /\ c.to = Address("https", k)
                            /\ e \in after /\ e.port = 443 /\ k \in e.hosts /\ e.to = Here
    BY <1>2, <1>3
  <2> QED
    BY <1>6, <2>1, <2>2, SecureSound
<1>8. \A b \in after : b.port = 443 => b.hosts \subseteq S
  BY <1>2, <1>3, <1>4
<1> QED
  BY <1>1, <1>5, <1>6, <1>7, <1>8 DEF Routed, ChallengeServed, before, after, S

(* Every name of every site is routed, for any domain and any options.      *)
THEOREM RoutingSoundAlways == Spec => []RoutingSound
<1> DEFINE Parts == {"www", "."} \cup STRING
<1>1. PlanOfOptions => RoutingSound
  <2> SUFFICES ASSUME PlanOfOptions, pc = "prepare" PROVE Routed(plan)
    BY DEF RoutingSound, Routed
  <2>1. plan.domain = opt.domain /\ plan.www = opt.www
    BY DEF PlanOfOptions, PlanOf
  <2>2. plan.domain \in Seq(Parts) /\ plan.www \in WwwModes
    BY <2>1, OptionsAreGiven DEF PlanOfOptions, Builds, Supported
  <2>3. Www(plan.domain) # plan.domain
    <3>1. \A p, d \in Seq(Parts) : Len(p \o d) = Len(p) + Len(d) /\ Len(d) \in Nat
      OBVIOUS
    <3>2. <<"www", ".">> \in Seq(Parts) /\ Len(<<"www", ".">>) = 2
      OBVIOUS
    <3>3. Len(Www(plan.domain)) = 2 + Len(plan.domain) /\ Len(plan.domain) \in Nat
      BY <2>2, <3>1, <3>2 DEF Www
    <3> QED
      BY <3>3
  <2> QED
    BY <2>2, <2>3, SitesRouted
<1> QED
  BY <1>1, PlanIsOptions, PTL

---------------------------------------------------------------------------
(* What every plan in memory and on record is: that of some options, with  *)
(* the PHP source settled or still open.                                   *)
FromOptions(p, o, s) ==
    /\ Builds(o) /\ {o.domain, o.user} \subseteq Seq(STRING) /\ o.port \in Nat
    /\ s \in PhpSources /\ o.source \in {"auto", s}
    /\ p = [PlanOf(o) EXCEPT !.source = s]

IsPlan(p) == \E o, s : FromOptions(p, o, s)

\* Another plan for the same site: only the PHP source, and with it the
\* packages, may differ.
SameSite(p, q) ==
    /\ p.local = q.local /\ p.web = q.web /\ p.mail = q.mail /\ p.services = q.services

---------------------------------------------------------------------------
(* The inductive invariant, part by part.                                  *)

SwapLabels == {"swap-file", "swap-format", "swap-on", "swap-record"}
FirstLabels == {"prepare", "swap-files"} \cup SwapLabels
PackageLabels ==
    {"apt-update", "source", "baseline", "prerequisites", "ondrej", "mysql", "candidates",
     "install", "enable", "postfix", "verify"}

\* Which command is where, and what the phase on disk says meanwhile.
Phases ==
    /\ pc \in {"idle", "report", "tls"} \cup FirstLabels \cup PackageLabels
    /\ op = "resume" => pc \notin FirstLabels
    /\ pc = "prepare" => state = "none"
    /\ op # "none" => state # "gone"
    /\ pc \in FirstLabels \cup PackageLabels => state # "installed"
    /\ pc = "report" => state \in {"failed", "installed"}
    /\ pc \notin {"idle", "prepare"} => state # "none"
    /\ (undone = "no") = (state # "gone")
    /\ state \in {"none", "gone"} => report = NoReport /\ recorded = {}

\* Every plan is that of some options, and the one on record is for the site
\* of the command that runs.
Plans ==
    /\ op # "none" => IsPlan(plan)
    /\ state \in {"prepared", "failed", "installed"} => IsPlan(report.plan)
    /\ op # "none" /\ pc # "prepare" => SameSite(plan, report.plan)

\* What is on record was there, and the unit with it.
SwapKept ==
    /\ swap \subseteq SwapParts
    /\ recorded # {} => "unit" \in swap
    /\ pc \in SwapLabels => "unit" \in swap
    /\ undone = "no" /\ "unit" \notin swap => swap = host.swapfile
    /\ undone = "reset" => swap \in {{}, host.swapfile}

\* Services that were checked run until they are taken away.
Running ==
    /\ state = "installed" => report.plan.services \subseteq active
    /\ report.tls = "passed" => ~report.plan.local

---------------------------------------------------------------------------
\* All packages the plan can come to install.
Wanted(p) ==
    p.packages \cup (IF p.source = "ondrej" THEN Prerequisites ELSE {})
               \cup (IF p.dbver # host.archive.mysql THEN {"mysql-apt-config"} ELSE {})

\* What was added so far is in the baseline, and what will be.
Accounted(b, p) ==
    /\ pkgs \ host.installed \subseteq Absent(b)
    /\ "ondrej" \in sources => p.source = "ondrej"
    /\ b # {} => p.source # "auto" /\ Wanted(p) \ host.installed \subseteq Absent(b)

Additions ==
    /\ "mysql" \in sources /\ state # "gone" => "mysql-apt-config" \in pkgs
    /\ op = "none" => baseline = {}
    /\ ~killed /\ state # "gone" =>
         /\ op # "none" => Accounted(baseline, plan)
         /\ pc \notin PackageLabels \cup {"report"} => Accounted(report.baseline, report.plan)
         /\ pc \in PackageLabels \ {"apt-update", "source"} => plan.source # "auto"
         /\ pc \in {"prerequisites", "ondrej"} => plan.source = "ondrej"
         /\ pc \in PackageLabels \ {"apt-update", "source", "baseline"} =>
              /\ todo \subseteq Wanted(plan)
              /\ Wanted(plan) \ host.installed \subseteq Absent(baseline)

\* What a reset could not take away.
Leftover ==
    undone = "reset" /\ ~killed =>
       sources = {} /\ \A p \in pkgs \ host.installed : IsCertbotPackage(p)

(* A plan of options can be told from none, and lists what its checks need. *)
LEMMA PlanContents ==
    ASSUME NEW p, IsPlan(p)
    PROVE  /\ p # NoPlan /\ p.source \in PhpSources
           /\ {WebPackage(p.web), "mysql-server"} \subseteq p.packages
           /\ {WebPackage(p.web), "mysql"} \subseteq p.services
           /\ p.web # "frankenphp" => "php-fpm" \in p.services
           /\ ~p.local => "certbot.timer" \in p.services
           /\ p.mail = "local-postfix" => "postfix" \in p.services
<1>1. PICK o, s : FromOptions(p, o, s)
  BY DEF IsPlan
<1>2. /\ p.source = s /\ p.packages = Packages(o) /\ p.services = ManagedServices(o)
      /\ p.web = o.web /\ p.local = o.local /\ p.mail = o.mail
  BY <1>1 DEF FromOptions, PlanOf
<1>3. p.source # "none"
  BY <1>1, <1>2 DEF FromOptions, PhpSources
<1> QED
  BY <1>1, <1>2, <1>3 DEF FromOptions, NoPlan, Packages, ManagedServices, Services

(* Options give a plan; settling the source keeps it one.                   *)
LEMMA PlanIsPlan ==
    ASSUME NEW o \in OptionSet, Builds(o)
    PROVE  IsPlan(PlanOf(o))
<1>1. PlanOf(o) = [PlanOf(o) EXCEPT !.source = o.source]
  BY DEF PlanOf
<1>2. o.source \in PhpSources /\ {o.domain, o.user} \subseteq Seq(STRING) /\ o.port \in Nat
  BY OptionsAreGiven DEF Builds, Supported
<1> QED
  BY <1>1, <1>2 DEF IsPlan, FromOptions

LEMMA SettledIsPlan ==
    ASSUME NEW p, IsPlan(p), p.source = "auto", NEW s \in {"ubuntu", "ondrej"},
           NEW q, q = [p EXCEPT !.source = s]
    PROVE  /\ IsPlan(q) /\ SameSite(q, p) /\ q.source = s
           /\ q.packages = p.packages /\ q.dbver = p.dbver
<1>1. PICK o, t : FromOptions(p, o, t)
  BY DEF IsPlan
<1>2. t = "auto" /\ o.source = "auto"
  BY <1>1 DEF FromOptions, PlanOf
<1>3. q = [PlanOf(o) EXCEPT !.source = s]
  <2>1. p = [PlanOf(o) EXCEPT !.source = t]
    BY <1>1 DEF FromOptions
  <2> DEFINE r == PlanOf(o)
  <2>2. r = [r EXCEPT !.source = r.source] /\ DOMAIN r = DOMAIN [r EXCEPT !.source = s]
    BY DEF PlanOf
  <2> HIDE DEF r
  <2>3. [p EXCEPT !.source = s] = [r EXCEPT !.source = s]
    BY <2>1 DEF r
  <2> QED
    BY <2>3 DEF r
<1>4. FromOptions(q, o, s)
  BY <1>1, <1>2, <1>3 DEF FromOptions, PhpSources
<1>5. /\ p.source = t /\ p.packages = Packages(o) /\ p.dbver = o.dbver
      /\ p.services = ManagedServices(o) /\ p.web = o.web /\ p.local = o.local /\ p.mail = o.mail
  BY <1>1 DEF FromOptions, PlanOf
<1>6. /\ q.source = s /\ q.packages = Packages(o) /\ q.dbver = o.dbver
      /\ q.services = ManagedServices(o) /\ q.web = o.web /\ q.local = o.local /\ q.mail = o.mail
  BY <1>3 DEF PlanOf
<1> QED
  BY <1>4, <1>5, <1>6 DEF IsPlan, SameSite

(* Names the plan derives are not empty.                                    *)
LEMMA Prefixed ==
    ASSUME NEW S, NEW d \in Seq(S), NEW a, NEW b
    PROVE  <<a, b>> \o d # <<>>
<1> DEFINE T == {a, b} \cup S
<1>1. d \in Seq(T) /\ <<a, b>> \in Seq(T) /\ Len(<<a, b>>) = 2
  OBVIOUS
<1> HIDE DEF T
<1>2. Len(<<a, b>> \o d) = 2 + Len(d) /\ Len(d) \in Nat
  BY <1>1
<1> QED
  BY <1>2

LEMMA DerivedNames ==
    ASSUME NEW o, {o.domain, o.user} \subseteq Seq(STRING)
    PROVE  DatabaseName(o) # <<>> /\ DatabaseUser(o) # <<>>
<1> DEFINE pre == Profile(o.app).prefix
           mark(i) == IF o.domain[i] \in Marks THEN "_" ELSE o.domain[i]
           d == [i \in DOMAIN o.domain |-> mark(i)]
           S == {"_"} \cup STRING
<1>1. d \in Seq(S)
  <2>1. o.domain \in Seq(STRING)
    OBVIOUS
  <2>2. DOMAIN o.domain = 1..Len(o.domain) /\ Len(o.domain) \in Nat
    BY <2>1
  <2>3. \A i \in DOMAIN o.domain : mark(i) \in S
    <3>1. \A i \in DOMAIN o.domain : o.domain[i] \in STRING
      BY <2>1
    <3> QED
      BY <3>1, Zenon
  <2> HIDE DEF mark, S
  <2>4. [i \in 1..Len(o.domain) |-> mark(i)] \in Seq(S)
    BY <2>2, <2>3
  <2> QED
    BY <2>2, <2>4
<1>2. o.user \in Seq(STRING)
  OBVIOUS
<1>3. /\ DatabaseName(o) = IF o.dbname # <<>> THEN o.dbname ELSE <<pre, "_">> \o d
      /\ DatabaseUser(o) = IF o.dbuser # <<>> THEN o.dbuser
                           ELSE IF o.user = DefaultUser THEN <<pre, "_", "app">>
                           ELSE <<pre, "_">> \o o.user
  BY DEF DatabaseName, DatabaseUser
<1> HIDE DEF pre, d, S
<1>4. <<pre, "_">> \o d # <<>> /\ <<pre, "_">> \o o.user # <<>> /\ <<pre, "_", "app">> # <<>>
  BY <1>1, <1>2, Prefixed
<1> QED
  BY <1>3, <1>4

(* What resume rebuilds of a plan on record: the plan itself, with the      *)
(* packages that a PHP source settled since brings.                        *)
LEMMA RoundTrip ==
    ASSUME NEW p, IsPlan(p), Builds(OptionsFromReport(p))
    PROVE  LET q == PlanOf(OptionsFromReport(p))
           IN /\ IsPlan(q) /\ SameSite(q, p) /\ q.source = p.source /\ q.dbver = p.dbver
              /\ DOMAIN q = DOMAIN p
              /\ \A f \in DOMAIN q \ {"packages"} : q[f] = p[f]
              /\ q.packages = p.packages
                             \cup (IF p.source = "ondrej" THEN {"software-properties-common",
                                                                "lsb-release"} ELSE {})
<1>1. PICK o, s : FromOptions(p, o, s)
  BY DEF IsPlan
<1> DEFINE r == OptionsFromReport(p)
           q == PlanOf(r)
<1>2. /\ p.domain = o.domain /\ p.local = o.local /\ p.app = o.app /\ p.web = o.web
      /\ p.php = PhpVersion(o) /\ p.source = s /\ p.dbver = o.dbver /\ p.user = o.user
      /\ p.rootmode = RootMode(o) /\ p.root = WebRoot(o) /\ p.document = DocumentRoot(o)
      /\ p.www = o.www /\ p.redis = o.redis /\ p.mail = o.mail /\ p.smtp = o.smtp
      /\ p.port = IF o.mail = "none" THEN NoPort ELSE SmtpPort(o)
      /\ p.encryption = IF o.mail = "none" THEN "none" ELSE o.encryption
      /\ p.dbname = DatabaseName(o) /\ p.dbuser = DatabaseUser(o)
      /\ p.dns = (o.dns /\ ~o.local)
      /\ p.packages = Packages(o) /\ p.services = ManagedServices(o) /\ p.ports = ManagedPorts(o)
  BY <1>1 DEF FromOptions, PlanOf
<1>3. /\ r.domain = o.domain /\ r.local = o.local /\ r.app = o.app /\ r.web = o.web
      /\ r.php = PhpVersion(o) /\ r.source = s /\ r.dbver = o.dbver /\ r.user = o.user
      /\ r.dbname = DatabaseName(o) /\ r.dbuser = DatabaseUser(o)
      /\ r.rootmode = RootMode(o)
      /\ r.custom = IF RootMode(o) = "custom" THEN WebRoot(o) ELSE <<>>
      /\ r.www = o.www /\ r.redis = o.redis /\ r.mail = o.mail /\ r.smtp = o.smtp
      /\ r.port = IF p.port = NoPort THEN DefaultPort ELSE p.port
      /\ r.encryption = IF o.mail = "none" THEN "starttls" ELSE p.encryption
      /\ r.dns = (o.dns /\ ~o.local)
  BY <1>2 DEF OptionsFromReport
<1>4. RootMode(r) = RootMode(o) /\ WebRoot(r) = WebRoot(o)
  <2>1. RootMode(r) = RootMode(o)
    BY <1>3 DEF RootMode
  <2>2. RootMode(o) \in RootModes
    BY <1>1 DEF FromOptions, Builds, Supported, RootMode, RootModes
  <2> QED
    BY <1>3, <2>1, <2>2 DEF WebRoot, RootModes
<1>5. DocumentRoot(r) = DocumentRoot(o) /\ PhpVersion(r) = PhpVersion(o)
  BY <1>3, <1>4 DEF DocumentRoot, PhpVersion
<1>6. o.mail # "none" => SmtpPort(o) \in Nat /\ SmtpPort(r) = SmtpPort(o)
  BY <1>1, <1>2, <1>3 DEF SmtpPort, DefaultPort, NoPort, FromOptions
<1>7. DatabaseName(r) = DatabaseName(o) /\ DatabaseUser(r) = DatabaseUser(o)
  <2>1. DatabaseName(o) # <<>> /\ DatabaseUser(o) # <<>>
    BY <1>1, DerivedNames DEF FromOptions
  <2> QED
    BY <1>3, <2>1 DEF DatabaseName, DatabaseUser
<1>8. ManagedServices(r) = ManagedServices(o) /\ ManagedPorts(r) = ManagedPorts(o)
  BY <1>3, <1>6 DEF ManagedServices, ManagedPorts, Services, Ports
<1>9. Packages(r) = Packages(o) \cup (IF s = "ondrej" THEN {"software-properties-common",
                                                           "lsb-release"} ELSE {})
  <2>1. /\ PhpPackages(r) = PhpPackages(o) /\ ProfilePackages(r) = ProfilePackages(o)
        /\ CertbotPackages(r) = CertbotPackages(o)
    BY <1>3 DEF PhpPackages, ProfilePackages, CertbotPackages
  <2>2. o.source \in {"auto", s}
    BY <1>1 DEF FromOptions
  <2> QED
    BY <1>3, <2>1, <2>2 DEF Packages
<1>10. /\ q.domain = p.domain /\ q.local = p.local /\ q.app = p.app /\ q.web = p.web
       /\ q.php = p.php /\ q.source = p.source /\ q.dbver = p.dbver /\ q.user = p.user
       /\ q.rootmode = p.rootmode /\ q.root = p.root /\ q.document = p.document
       /\ q.www = p.www /\ q.redis = p.redis /\ q.mail = p.mail /\ q.smtp = p.smtp
       /\ q.port = p.port /\ q.encryption = p.encryption
       /\ q.dbname = p.dbname /\ q.dbuser = p.dbuser /\ q.dns = p.dns
       /\ q.services = p.services /\ q.ports = p.ports
       /\ q.packages = Packages(r)
  BY <1>2, <1>3, <1>4, <1>5, <1>6, <1>7, <1>8 DEF PlanOf
<1>11. DOMAIN q = DOMAIN p
  BY <1>1 DEF FromOptions, PlanOf
<1>12. DOMAIN q = {"domain", "local", "app", "web", "php", "source", "dbver", "user", "rootmode",
                   "root", "document", "www", "redis", "mail", "smtp", "port", "encryption",
                   "dbname", "dbuser", "dns", "packages", "services", "ports"}
  BY DEF PlanOf
<1>13. IsPlan(q)
  <2>1. q = [PlanOf(r) EXCEPT !.source = s]
    BY <1>3 DEF PlanOf
  <2>2. r.port \in Nat
    BY <1>2, <1>3, <1>6 DEF DefaultPort, NoPort
  <2> QED
    BY <1>1, <1>3, <2>1, <2>2 DEF IsPlan, FromOptions
<1>14. SameSite(q, p)
  BY <1>10 DEF SameSite
<1> HIDE DEF q
<1>15. \A f \in DOMAIN q \ {"packages"} : q[f] = p[f]
  BY <1>10, <1>12
<1> QED
  BY <1>2, <1>9, <1>10, <1>11, <1>13, <1>14, <1>15 DEF q

\* What the servers and the options are does not change.
Given == host \in Hosts /\ opt \in OptionSet

ProvInv ==
    /\ Given /\ TypeOK /\ Phases /\ Plans /\ SwapKept /\ Running /\ Additions /\ Leftover

(* What the baseline is made from is all that is going to be installed.     *)
LEMMA InspectAdds ==
    ASSUME ProvInv, InspectPackages
    PROVE  Additions'
<1>1. /\ op \in {"install", "resume"} /\ pc = "baseline" /\ pc' \in {"prerequisites", "mysql"}
      /\ pc' = "prerequisites" => plan.source = "ondrej"
      /\ UNCHANGED <<host, opt, swap, sources, pkgs, active, dns, state, report, recorded, op,
                     plan, killed, undone>>
  BY DEF InspectPackages, At, Goto, server, disk
<1>2. todo' = plan.packages
              \cup (IF plan.source = "ondrej" THEN Prerequisites ELSE {})
              \cup (IF MysqlSourceRequired THEN {"mysql-apt-config"} ELSE {})
  BY DEF InspectPackages
<1>3. /\ baseline # {} => baseline' = baseline
      /\ baseline = {} =>
            baseline' = {[package |-> p, before |-> p \in pkgs] : p \in todo'}
  BY DEF InspectPackages
<1>4. Absent({[package |-> p, before |-> p \in pkgs] : p \in todo'}) = todo' \ pkgs
  <2>1. \A T, K : Absent({[package |-> p, before |-> p \in K] : p \in T}) = T \ K
    BY InspectedAbsent
  <2> QED
    BY <2>1
<1>5. state # "gone"
  BY <1>1 DEF ProvInv, Phases
<1>6. /\ "mysql" \in sources => "mysql-apt-config" \in pkgs
      /\ ~killed => Accounted(baseline, plan) /\ plan.source # "auto"
  BY <1>1, <1>5 DEF ProvInv, Additions, PackageLabels
<1>7. todo' \subseteq Wanted(plan)
  BY <1>2 DEF Wanted, MysqlSourceRequired
<1>8. ASSUME ~killed
      PROVE  /\ pkgs \ host.installed \subseteq Absent(baseline')
             /\ "ondrej" \in sources => plan.source = "ondrej"
             /\ plan.source # "auto"
             /\ Wanted(plan) \ host.installed \subseteq Absent(baseline')
  <2>1. /\ pkgs \ host.installed \subseteq Absent(baseline)
        /\ "ondrej" \in sources => plan.source = "ondrej"
        /\ baseline # {} => Wanted(plan) \ host.installed \subseteq Absent(baseline)
        /\ plan.source # "auto"
    BY <1>6, <1>8 DEF Accounted
  <2>2. CASE baseline # {}
    BY <1>3, <2>1, <2>2
  <2>3. CASE baseline = {}
    <3>1. pkgs \subseteq host.installed
      BY <2>1, <2>3, NothingAbsent
    <3>2. Wanted(plan) \ host.installed \subseteq todo'
      BY <1>2, <1>6, <3>1 DEF Wanted, MysqlSourceRequired
    <3>3. Absent(baseline') = todo' \ pkgs
      BY <1>3, <1>4, <2>3
    <3> QED
      BY <2>1, <3>1, <3>2, <3>3
  <2> QED
    BY <2>2, <2>3
<1>9. ~killed => Accounted(baseline, plan)'
  BY <1>1, <1>8 DEF Accounted, Wanted
<1>10. ~killed => /\ todo' \subseteq Wanted(plan)'
                  /\ Wanted(plan)' \ host'.installed \subseteq Absent(baseline')
  BY <1>1, <1>7, <1>8 DEF Wanted
<1> QED
  BY <1>1, <1>5, <1>6, <1>8, <1>9, <1>10 DEF Additions, PackageLabels

(* Every command keeps it, whatever fails and wherever it is killed.        *)
LEMMA ProvInvariant == Spec => []ProvInv
<1>1. Init => ProvInv
  <2> SUFFICES ASSUME Init PROVE ProvInv
    OBVIOUS
  <2>1. host.swapfile \subseteq SwapParts /\ host.dns \in {"here", "elsewhere"}
    BY HostsAreFound DEF Init, SwapParts
  <2> QED
    BY <2>1, NothingAbsent DEF Init, ProvInv, Given, TypeOK, Phases, Plans, SwapKept, Running,
       Additions, Leftover, Accounted, NoReport, NoPlan, FirstLabels, SwapLabels, PackageLabels
<1>2. ProvInv /\ [Next]_vars => ProvInv'
  <2> SUFFICES ASSUME ProvInv, [Next]_vars PROVE ProvInv'
    OBVIOUS
  <2> USE DEF ProvInv, Given, TypeOK, Phases, Plans, SwapKept, Running, Additions, Leftover,
     At, Goto, Accounted, Wanted, NoReport, SwapParts, SwapLabels, FirstLabels, PackageLabels,
     server, disk, memory
  <2>1. CASE StartInstall
    <3> USE <2>1 DEF StartInstall
    <3>a. IsPlan(plan') /\ plan' # NoPlan
      BY PlanIsPlan, PlanContents
    <3>1. TypeOK'
      BY <3>a
    <3>2. Plans'
      BY <3>a
    <3>3. Additions'
      BY NothingAbsent DEF NoPlan
    <3> QED
      BY <3>1, <3>2, <3>3
  <2>2. CASE Prepare
    <3> USE <2>2 DEF Prepare
    <3>1. Plans'
      BY DEF SameSite
    <3> QED
      BY <3>1
  <2>3. CASE SwapFails
    BY <2>3 DEF SwapFails, Ends, Forget
  <2>4. CASE WriteSwapFiles
    BY <2>4 DEF WriteSwapFiles
  <2>5. CASE CreateSwapFile
    BY <2>5 DEF CreateSwapFile
  <2>6. CASE FormatSwapFile
    BY <2>6 DEF FormatSwapFile
  <2>7. CASE SwapOn
    BY <2>7 DEF SwapOn
  <2>8. CASE RecordSwap
    BY <2>8 DEF RecordSwap
  <2>9. CASE StartResume
    <3> USE <2>9 DEF StartResume
    <3>a. /\ IsPlan(plan') /\ plan' # NoPlan /\ SameSite(plan', report.plan)
          /\ plan'.source = report.plan.source /\ Wanted(plan') = Wanted(report.plan)
      <4>1. IsPlan(report.plan)
        OBVIOUS
      <4>2. /\ IsPlan(plan') /\ SameSite(plan', report.plan)
            /\ plan'.source = report.plan.source /\ plan'.dbver = report.plan.dbver
            /\ plan'.packages = report.plan.packages
                  \cup (IF report.plan.source = "ondrej" THEN {"software-properties-common",
                                                               "lsb-release"} ELSE {})
        BY <4>1, RoundTrip
      <4> QED
        BY <4>2, PlanContents DEF Prerequisites
    <3>1. TypeOK'
      BY <3>a
    <3>2. Plans'
      BY <3>a
    <3>3. Additions'
      BY <3>a
    <3> QED
      BY <3>1, <3>2, <3>3
  <2>10. CASE PackagesFail
    BY <2>10 DEF PackagesFail
  <2>11. CASE AptUpdate
    BY <2>11 DEF AptUpdate
  <2>12. CASE DetectSource
    <3> USE <2>12 DEF DetectSource
    <3>a. /\ IsPlan(plan') /\ plan' # NoPlan /\ SameSite(plan', plan)
          /\ plan'.source # "auto" /\ plan'.packages = plan.packages /\ plan'.dbver = plan.dbver
          /\ plan.source # "auto" => plan' = plan
      <4>1. CASE plan.source # "auto"
        BY <4>1, PlanContents DEF SameSite
      <4>2. CASE plan.source = "auto"
        <5>1. PICK s \in {"ubuntu", "ondrej"} : plan' = [plan EXCEPT !.source = s]
          BY <4>2
        <5>2. /\ IsPlan(plan') /\ SameSite(plan', plan) /\ plan'.source = s
              /\ plan'.packages = plan.packages /\ plan'.dbver = plan.dbver
          BY <4>2, <5>1, SettledIsPlan
        <5> QED
          BY <4>2, <5>2, PlanContents
      <4> QED
        BY <4>1, <4>2
    <3>1. TypeOK'
      BY <3>a
    <3>2. Plans'
      BY <3>a DEF SameSite
    <3>3. Additions'
      BY <3>a
    <3> QED
      BY <3>1, <3>2, <3>3
  <2>13. CASE InspectPackages
    <3> USE <2>13 DEF InspectPackages
    <3>1. Given'
      OBVIOUS
    <3>2. TypeOK'
      OBVIOUS
    <3>3. Phases'
      OBVIOUS
    <3>4. Plans'
      OBVIOUS
    <3>5. SwapKept'
      OBVIOUS
    <3>6. Running'
      OBVIOUS
    <3>7. Additions'
      BY InspectAdds
    <3>8. Leftover'
      OBVIOUS
    <3> QED
      BY <3>1, <3>2, <3>3, <3>4, <3>5, <3>6, <3>7, <3>8
  <2>14. CASE InstallPrerequisites
    BY <2>14 DEF InstallPrerequisites
  <2>15. CASE AddOndrej
    BY <2>15 DEF AddOndrej
  <2>16. CASE AddMysqlSource
    <3> USE <2>16 DEF AddMysqlSource
    <3>1. Given'
      OBVIOUS
    <3>2. TypeOK'
      OBVIOUS
    <3>3. Phases'
      OBVIOUS
    <3>4. Plans'
      OBVIOUS
    <3>5. SwapKept'
      OBVIOUS
    <3>6. Running'
      OBVIOUS
    <3>7. Additions'
      OBVIOUS
    <3>8. Leftover'
      OBVIOUS
    <3> QED
      BY <3>1, <3>2, <3>3, <3>4, <3>5, <3>6, <3>7, <3>8
  <2>17. CASE CheckCandidates
    BY <2>17 DEF CheckCandidates
  <2>18. CASE AptFails
    <3> USE <2>18 DEF AptFails
    <3>1. Additions'
      BY PlanContents
    <3> QED
      BY <3>1
  <2>19. CASE AptInstall
    BY <2>19 DEF AptInstall
  <2>20. CASE EnableServices
    BY <2>20 DEF EnableServices
  <2>21. CASE ConfigurePostfix
    BY <2>21 DEF ConfigurePostfix
  <2>22. CASE Verify
    <3> USE <2>22 DEF Verify
    <3>1. Running'
      BY DEF SameSite
    <3> QED
      BY <3>1
  <2>23. CASE WriteReport
    <3> USE <2>23 DEF WriteReport, Ends, Forget
    <3>1. Plans'
      BY DEF SameSite
    <3>2. Running'
      BY DEF SameSite
    <3> QED
      BY <3>1, <3>2
  <2>24. CASE LaterStepFails
    BY <2>24 DEF LaterStepFails, Ends, Forget
  <2>25. CASE Tls
    <3> USE <2>25 DEF Tls, Ends, Forget
    <3>1. Running'
      BY DEF SameSite
    <3> QED
      BY <3>1
  <2>26. CASE FixDns
    BY <2>26 DEF FixDns
  <2>27. CASE Rollback
    BY <2>27 DEF Rollback, Removes, Stops, Listed, RemovedSwap, SourcesLeft
  <2>28. CASE Reset
    <3> USE <2>28 DEF Reset, Removes, Stops, Listed, RemovedSwap, SourcesLeft
    <3>1. SwapKept'
      <4>1. host.swapfile \subseteq {"file", "signature", "on"}
        BY HostsAreFound
      <4>2. CASE "unit" \in swap
        <5>1. swap' = {}
          BY <4>2
        <5> QED
          BY <5>1
      <4>3. CASE "unit" \notin swap /\ undone # "rollback"
        <5>1. swap \in {{}, host.swapfile} /\ recorded = {}
          BY <4>3
        <5>2. Listed = {}
          BY <4>1, <5>1
        <5>3. swap' = swap
          BY <4>3, <5>2
        <5> QED
          BY <5>1, <5>3
      <4>4. CASE "unit" \notin swap /\ undone = "rollback"
        BY <4>4
      <4> QED
        BY <4>2, <4>3, <4>4
    <3>2. Leftover'
      <4> SUFFICES ASSUME undone' = "reset", ~killed
                   PROVE  sources' = {} /\ \A p \in pkgs' \ host.installed : IsCertbotPackage(p)
        OBVIOUS
      <4> USE DEF ToPurge
      <4>0. pkgs' \subseteq pkgs \ ToPurge(report.baseline)
        <5>1. Purges(ToPurge(report.baseline), Protected(report.baseline))
          OBVIOUS
        <5> QED
          BY <5>1 DEF Purges
      <4>1. CASE undone = "no"
        <5>1. Accounted(report.baseline, report.plan)
          BY <4>1
        <5>2. \A p \in pkgs' \ host.installed : IsCertbotPackage(p)
          BY <4>0, <5>1
        <5>3. "ondrej" \notin sources'
          BY <5>1
        <5>4. "mysql" \in sources => "mysql-apt-config" \in Absent(report.baseline)
          BY <4>1, <5>1, HostsAreFound
        <5>5. "mysql" \notin sources'
          BY <5>4 DEF IsCertbotPackage
        <5> QED
          BY <5>2, <5>3, <5>5
      <4>2. CASE undone = "reset"
        <5>1. sources = {} /\ Absent(report.baseline) = {}
          BY <4>2, NothingAbsent
        <5> QED
          BY <4>0, <4>2, <5>1
      <4> QED
        BY <4>1, <4>2
    <3> QED
      BY <3>1, <3>2
  <2>29. CASE Interrupt
    BY <2>29 DEF Interrupt, Ends, Forget
  <2>30. CASE UNCHANGED vars
    BY <2>30 DEF vars
  <2> QED
    BY <2>1, <2>2, <2>3, <2>4, <2>5, <2>6, <2>7, <2>8, <2>9, <2>10, <2>11, <2>12, <2>13,
       <2>14, <2>15, <2>16, <2>17, <2>18, <2>19, <2>20, <2>21, <2>22, <2>23, <2>24, <2>25,
       <2>26, <2>27, <2>28, <2>29, <2>30 DEF Next
<1> QED
  BY <1>1, <1>2, PTL DEF Spec

(* Values have their types, and a command has a plan from its first step.   *)
THEOREM ProvisioningTypes == Spec => []TypeOK
  BY ProvInvariant, PTL DEF ProvInv

(* Unless something was killed, a command that ends has every package and   *)
(* source the installer added on record, whatever failed.                  *)
THEOREM AdditionsRecorded == Spec => []AddedIsRecorded
<1>1. ProvInv => AddedIsRecorded
  BY DEF ProvInv, TypeOK, Additions, Accounted, AddedIsRecorded, PackageLabels
<1> QED
  BY <1>1, ProvInvariant, PTL

(* Once reset has run no swap is left; unless something was killed, no apt  *)
(* source and no package either, but those that renew certificates.        *)
THEOREM ResetIsComplete == Spec => []ResetLeavesNothing
<1>1. ProvInv => ResetLeavesNothing
  BY DEF ProvInv, SwapKept, Leftover, ResetLeavesNothing
<1> QED
  BY <1>1, ProvInvariant, PTL

(* What the packages phase has installed passes the setup guide's checks,   *)
(* for any options and after any failures and kills.                       *)
THEOREM InstalledIsChecked == Spec => []InstalledPassesChecks
<1>1. ProvInv => InstalledPassesChecks
  <2> SUFFICES ASSUME ProvInv, op = "none", state = "installed"
               PROVE  /\ Verdict(Database(active)) = "pass"
                      /\ Verdict(Mail(report.plan, active)) # "fail"
                      /\ report.plan.web # "frankenphp" =>
                            /\ Verdict(Webserver(report.plan, active)) = "pass"
                            /\ Verdict(Php(report.plan, active)) = "pass"
                      /\ report.tls = "passed" =>
                            Verdict(Ssl(active, {"fullchain", "privkey"})) = "pass"
    BY DEF InstalledPassesChecks
  <2>1. IsPlan(report.plan) /\ report.plan.services \subseteq active
    BY DEF ProvInv, Plans, Running
  <2>2. report.tls = "passed" => ~report.plan.local
    BY DEF ProvInv, Running
  <2>3. /\ {WebPackage(report.plan.web), "mysql"} \subseteq active
        /\ report.plan.web # "frankenphp" => "php-fpm" \in active
        /\ ~report.plan.local => "certbot.timer" \in active
        /\ report.plan.mail = "local-postfix" => "postfix" \in active
    BY <2>1, PlanContents
  <2> QED
    BY <2>2, <2>3 DEF Verdict, Database, Mail, Webserver, Php, Ssl, Active, Present, ConfigTest,
       WebPackage
<1> QED
  BY <1>1, ProvInvariant, PTL

(* Before it does anything, resume has the plan of the options it rebuilt.  *)
Rebuilt ==
    op = "resume" /\ pc = "apt-update" =>
       /\ Builds(OptionsFromReport(report.plan))
       /\ plan = PlanOf(OptionsFromReport(report.plan))

(* That is the plan on record, for any options.                             *)
THEOREM ResumeIsFaithful == Spec => []ResumeKeepsPlan
<1>1. Init => Rebuilt
  BY DEF Init, Rebuilt
<1>2. ProvInv /\ Rebuilt /\ [Next]_vars => Rebuilt'
  <2> SUFFICES ASSUME ProvInv, Rebuilt, [Next]_vars PROVE Rebuilt'
    OBVIOUS
  <2> USE DEF Rebuilt, At, Goto, server, disk, memory
  <2>1. CASE StartResume
    BY <2>1 DEF StartResume
  <2>2. CASE RecordSwap
    BY <2>2 DEF RecordSwap, ProvInv, Phases, FirstLabels, SwapLabels
  <2>3. CASE FixDns \/ Rollback \/ Reset \/ UNCHANGED vars
    BY <2>3 DEF FixDns, Rollback, Reset, Removes, vars, ProvInv, TypeOK
  <2>4. CASE StartInstall \/ Prepare \/ WriteSwapFiles \/ SwapFails \/ CreateSwapFile
             \/ FormatSwapFile \/ SwapOn
    BY <2>4 DEF StartInstall, Prepare, WriteSwapFiles, SwapFails, CreateSwapFile,
       FormatSwapFile, SwapOn, Ends
  <2>5. CASE PackagesFail \/ AptUpdate \/ DetectSource \/ InspectPackages
             \/ InstallPrerequisites \/ AddOndrej \/ AddMysqlSource \/ CheckCandidates
    BY <2>5 DEF PackagesFail, AptUpdate, DetectSource, InspectPackages, InstallPrerequisites,
       AddOndrej, AddMysqlSource, CheckCandidates
  <2>6. CASE AptFails \/ AptInstall \/ EnableServices \/ ConfigurePostfix \/ Verify
             \/ WriteReport \/ LaterStepFails \/ Tls \/ Interrupt
    BY <2>6 DEF AptFails, AptInstall, EnableServices, ConfigurePostfix, Verify, WriteReport,
       LaterStepFails, Tls, Interrupt, Ends
  <2> QED
    BY <2>1, <2>2, <2>3, <2>4, <2>5, <2>6 DEF Next
<1>3. ProvInv /\ Rebuilt => ResumeKeepsPlan
  <2> SUFFICES ASSUME ProvInv, Rebuilt, op = "resume", pc = "apt-update"
               PROVE  /\ \A f \in DOMAIN plan \ {"packages"} : plan[f] = report.plan[f]
                      /\ report.plan.packages \subseteq plan.packages
    BY DEF ResumeKeepsPlan
  <2>1. IsPlan(report.plan)
    BY DEF ProvInv, TypeOK, Phases, Plans, FirstLabels, PackageLabels
  <2> QED
    BY <2>1, RoundTrip DEF Rebuilt
<1> QED
  BY <1>1, <1>2, <1>3, ProvInvariant, PTL DEF Spec

===============================================================================
