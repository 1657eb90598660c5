-------------------------------- MODULE Sizing --------------------------------
(***************************************************************************)
(* How much of a server's memory each service is given                     *)
(* (plan/sizing.rs).  Amounts are MiB.  Servers up to 32 GiB take one of   *)
(* six fixed tiers; larger ones take a formula.                            *)
(***************************************************************************)
EXTENDS Integers

Least(a, b) == IF a <= b THEN a ELSE b
Greatest(a, b) == IF a >= b THEN a ELSE b
Clamp(x, low, high) == Least(Greatest(x, low), high)

(* A fixed tier.  os: reserve of the system; children: PHP workers; db,    *)
(* conns: MySQL; slots, threads, workers: Apache; conn, files: Nginx.      *)
Tier1gb == [n |-> 1, swap |-> 2, os |-> 384, children |-> 4, db |-> 128,
    conns |-> 30, redis |-> 64, opcache |-> 64, upload |-> 32, conn |-> 512,
    files |-> 2048, slots |-> 2, threads |-> 25, workers |-> 50]
Tier2gb == [n |-> 2, swap |-> 2, os |-> 512, children |-> 8, db |-> 384,
    conns |-> 60, redis |-> 128, opcache |-> 128, upload |-> 64, conn |-> 1024,
    files |-> 4096, slots |-> 3, threads |-> 25, workers |-> 75]
Tier4gb == [n |-> 3, swap |-> 2, os |-> 768, children |-> 16, db |-> 1024,
    conns |-> 100, redis |-> 256, opcache |-> 192, upload |-> 128, conn |-> 2048,
    files |-> 8192, slots |-> 4, threads |-> 25, workers |-> 100]
Tier8gb == [n |-> 4, swap |-> 2, os |-> 1024, children |-> 32, db |-> 2048,
    conns |-> 150, redis |-> 512, opcache |-> 256, upload |-> 128, conn |-> 4096,
    files |-> 16384, slots |-> 8, threads |-> 25, workers |-> 200]
Tier16gb == [n |-> 5, swap |-> 4, os |-> 2048, children |-> 64, db |-> 5120,
    conns |-> 250, redis |-> 1024, opcache |-> 512, upload |-> 256, conn |-> 8192,
    files |-> 32768, slots |-> 12, threads |-> 25, workers |-> 300]
Tier32gb == [n |-> 6, swap |-> 4, os |-> 3072, children |-> 96, db |-> 10240,
    conns |-> 400, redis |-> 2048, opcache |-> 768, upload |-> 256, conn |-> 16384,
    files |-> 65535, slots |-> 16, threads |-> 25, workers |-> 400]

TierFor(mib) ==
    IF mib <= 1536 THEN Tier1gb
    ELSE IF mib <= 3072 THEN Tier2gb
    ELSE IF mib <= 6144 THEN Tier4gb
    ELSE IF mib <= 12288 THEN Tier8gb
    ELSE IF mib <= 24576 THEN Tier16gb
    ELSE Tier32gb

\* Slip: the spare threads of the smallest tier are those of a larger one.
ApacheSpareSlip == <<<<25, 75>>, <<25, 50>>, <<25, 75>>, <<50, 100>>, <<75, 150>>, <<100, 200>>>>

(* By tier number: what the code looks up by the tier's key.               *)
ProcessCounts == <<1, 2, 4, 6, 8, 12>>  \* start and min_spare; max_spare is twice that
WorkerMemory == <<96, 96, 112, 128, 128, 128>>
WebOverhead == <<96, 128, 160, 192, 256, 384>>
CpuMultiplier == <<4, 4, 6, 8, 10, 12>>
AdminMargin == <<12, 12, 16, 20, 24, 32>>
ApacheSpare == <<<<10, 25>>, <<25, 50>>, <<25, 75>>, <<50, 100>>, <<75, 150>>, <<100, 200>>>>
NginxWorkers == <<1, 2, 2, 4, 4, 8>>

(* What the system and the services other than PHP take.                   *)
Fixed(t) == t.os + t.db + t.redis + t.opcache + WebOverhead[t.n]

\* Slip: the memory that is left is not looked at.
ChildrenOfTier(t, mib, vcpu) == Greatest(Least(t.children, vcpu * CpuMultiplier[t.n]), 1)

(* PHP workers: what the tier allows, what the memory left over feeds, and *)
(* what the processors serve; never less than one.                         *)
Children(t, mib, vcpu) ==
    LET budget == Greatest(mib - Fixed(t), 0)
        fed == Greatest(budget \div WorkerMemory[t.n], 1)
    IN Greatest(Least(Least(t.children, fed), vcpu * CpuMultiplier[t.n]), 1)

TierSizing(mib, vcpu) ==
    LET t == TierFor(mib)
        children == Children(t, mib, vcpu)
        start == Least(ProcessCounts[t.n], children)
    IN [tier |-> t.n,
        pm |-> IF t.n = 1 THEN "ondemand" ELSE "dynamic",
        children |-> children, start |-> start, minspare |-> start,
        maxspare |-> Least(2 * ProcessCounts[t.n], children),
        worker |-> WorkerMemory[t.n],
        others |-> Fixed(t),
        connections |-> Least(Greatest(children + AdminMargin[t.n], 20), t.conns),
        swap |-> t.swap,
        upload |-> t.upload, post |-> t.upload + 16, body |-> t.upload + 24,
        nginx |-> Greatest(Least(vcpu, NginxWorkers[t.n]), 1),
        conn |-> t.conn, files |-> t.files,
        slots |-> t.slots, threads |-> t.threads, workers |-> t.workers,
        spare |-> ApacheSpare[t.n]]

(* Above 32 GiB.  The cast of the processor count to 16 bits wraps.        *)
FormulaSizing(mib, vcpu) ==
    LET gib == Greatest(mib \div 1024, 33)
        children == Least(Greatest((mib \div 4) \div 128, 32), Least(vcpu * 12, 192))
        spare == Greatest(children \div 4, 8)
        nginx == Clamp(vcpu, 1, 16)
        conn == Clamp(gib * 512, 16384, 32768)
        workers == Clamp((vcpu * 64) % 65536, 400, 800)
    IN [tier |-> 7,
        pm |-> "dynamic",
        children |-> children, start |-> Clamp(children \div 8, 4, 16),
        minspare |-> spare, maxspare |-> Least(2 * spare, children),
        worker |-> 128,
        others |-> Greatest((mib * 10) \div 100, 4096)
                 + 1024 * Clamp((gib * 40) \div 100, 10, 24)
                 + Clamp((mib * 6) \div 100, 2048, 4096)
                 + Clamp((mib * 2) \div 100, 768, 1024) + 384,
        connections |-> Clamp(gib * 12, 400, 800),
        swap |-> 4,
        upload |-> 256, post |-> 288, body |-> 296,
        nginx |-> nginx, conn |-> conn,
        files |-> Clamp(nginx * conn * 2, 65535, 131072),
        slots |-> (workers + 24) \div 25, threads |-> 25, workers |-> workers,
        spare |-> <<workers \div 4, workers \div 2>>]

(* resolve_memory_sizing: unreadable or tiny values count as one.          *)
Resolve(mib, vcpu) ==
    LET m == Greatest(mib, 1)
        v == Greatest(vcpu, 1)
    IN IF m <= 32768 THEN TierSizing(m, v) ELSE FormulaSizing(m, v)

(* What all the services may take together when they are busy.             *)
Committed(s) == s.others + s.children * s.worker

(* What php-fpm -t demands of the pool that php_pool_content writes.       *)
FpmAccepts(s) ==
    s.pm = "dynamic" => /\ s.minspare <= s.maxspare
                        /\ s.maxspare <= s.children
                        /\ s.start \in s.minspare .. s.maxspare

===============================================================================
