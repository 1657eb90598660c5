---- MODULE WebController ----
(***************************************************************************)
(* Who may work on the server: requests to the web controller, which share *)
(* a running flag (web_setup/api.rs), and other processes of the           *)
(* installer; the operation lock (g7-state/lock.rs) is between them all.   *)
(***************************************************************************)

CONSTANTS
    Operation,  \* requests for install, resume, finalize, reset and rollback
    Action,     \* requests for a provision action
    Poll,       \* requests for the recovery status, which try a rollback
    Cli,        \* processes of the command line
    Nobody

ASSUME ControllerAssumption ==
    /\ Operation \cap (Action \cup Poll \cup Cli) = {}
    /\ Action \cap (Poll \cup Cli) = {} /\ Poll \cap Cli = {}
    /\ Nobody \notin Operation \cup Action \cup Poll \cup Cli

Inline == Action \cup Poll \cup Cli
Party == Operation \cup Inline

VARIABLES
    running,    \* install_running
    lock,       \* who holds the operation lock
    pc,         \* where each party is
    waiting     \* the operations whose handler still awaits their task

vars == <<running, lock, pc, waiting>>

Init ==
    /\ running = FALSE /\ lock = Nobody
    /\ pc = [p \in Party |-> "idle"] /\ waiting = {}

Goes(p, from, to) == pc[p] = from /\ pc' = [pc EXCEPT ![p] = to]

---------------------------------------------------------------------------
\* An operation: the handler sets the flag and hands the rest to a blocking
\* task, which owns the guard that clears it.

Accept(r) ==
    /\ Goes(r, "idle", "queued")
    /\ ~running /\ running' = TRUE
    /\ waiting' = waiting \cup {r}
    /\ UNCHANGED lock

TakeLock(r) ==
    /\ Goes(r, "queued", "working")
    /\ lock = Nobody /\ lock' = r
    /\ UNCHANGED <<running, waiting>>

LockRefused(r) ==
    /\ Goes(r, "queued", "ended")
    /\ lock # Nobody
    /\ UNCHANGED <<running, lock, waiting>>

\* The lock is released before the guard is dropped, also by a panic.
Ends(r) ==
    /\ pc[r] = "working"
    /\ Goes(r, "working", "ended") \/ Goes(r, "working", "panicked")
    /\ lock' = Nobody
    /\ UNCHANGED <<running, waiting>>

\* Slip: the task has no guard; the flag is cleared by the handler.
DropGuardInHandler(r) ==
    /\ \/ Goes(r, "ended", "joined")
       \/ Goes(r, "panicked", "failed")
    /\ running' = IF r \in waiting THEN FALSE ELSE running
    /\ UNCHANGED <<lock, waiting>>

DropGuard(r) ==
    /\ \/ Goes(r, "ended", "joined")
       \/ Goes(r, "panicked", "failed")
    /\ running' = FALSE
    /\ UNCHANGED <<lock, waiting>>

\* The handler answers; after a panic it clears the flag once more.  A request
\* is used again, but for one that panicked: it stands for the panic itself.
Answer(r) ==
    /\ \/ Goes(r, "joined", "idle") /\ UNCHANGED running
       \/ /\ Goes(r, "failed", "gone")
          /\ running' = IF r \in waiting THEN FALSE ELSE running
    /\ waiting' = waiting \ {r}
    /\ UNCHANGED lock

\* Slip: the guard belongs to the handler, which goes with its client.
HangUpDropsGuard(r) ==
    /\ r \in waiting /\ waiting' = waiting \ {r}
    /\ running' = FALSE
    /\ UNCHANGED <<lock, pc>>

\* The client goes away and the handler with it; the task goes on.
HangUp(r) ==
    /\ r \in waiting /\ waiting' = waiting \ {r}
    /\ UNCHANGED <<running, lock, pc>>

---------------------------------------------------------------------------
\* A provision action looks at the flag, then takes the lock; a recovery poll
\* and the command line take the lock.  None of them sets the flag.

CheckFlag(a) ==
    /\ Goes(a, "idle", "checked")
    /\ ~running
    /\ UNCHANGED <<running, lock, waiting>>

\* Slip: the flag is taken for the lock.
TryLockByFlag(p) ==
    LET ready == IF p \in Action THEN "checked" ELSE "idle" IN
    /\ \/ Goes(p, ready, "working") /\ lock' = p
       \/ Goes(p, ready, "idle") /\ lock # Nobody /\ UNCHANGED lock
    /\ UNCHANGED <<running, waiting>>

TryLock(p) ==
    LET ready == IF p \in Action THEN "checked" ELSE "idle" IN
    /\ \/ Goes(p, ready, "working") /\ lock = Nobody /\ lock' = p
       \/ Goes(p, ready, "idle") /\ lock # Nobody /\ UNCHANGED lock
    /\ UNCHANGED <<running, waiting>>

\* Returning, or being killed: the kernel releases what a process has locked.
Release(p) ==
    /\ Goes(p, "working", "idle")
    /\ lock' = IF lock = p THEN Nobody ELSE lock
    /\ UNCHANGED <<running, waiting>>

\* The controller is killed with all its requests, and started again.
KillController ==
    /\ running' = FALSE /\ waiting' = {}
    /\ pc' = [p \in Party |-> IF p \in Cli THEN pc[p] ELSE "idle"]
    /\ lock' = IF lock \in Cli THEN lock ELSE Nobody

---------------------------------------------------------------------------
\* What the process does by itself once a request is there.
Task(r) == TakeLock(r) \/ LockRefused(r) \/ Ends(r) \/ DropGuard(r) \/ Answer(r)

Next ==
    \/ \E r \in Operation : Accept(r) \/ Task(r) \/ HangUp(r)
    \/ \E a \in Action : CheckFlag(a)
    \/ \E p \in Inline : TryLock(p) \/ Release(p)
    \/ KillController

\* A blocking task that has been started is run, and its commands return.
Spec == Init /\ [][Next]_vars /\ \A r \in Operation : WF_vars(Task(r))

---------------------------------------------------------------------------

TypeOK ==
    /\ running \in BOOLEAN
    /\ lock \in Party \cup {Nobody}
    /\ pc \in [Party -> {"idle", "queued", "working", "ended", "panicked",
                         "joined", "failed", "gone", "checked"}]
    /\ waiting \subseteq Operation

\* At most one party works on the server at a time, whatever becomes of the
\* flag: install, resume, finalize, reset, rollback and provision actions
\* (g7-state/lock.rs).
OneWorks == \A p, q \in Party : pc[p] = "working" /\ pc[q] = "working" => p = q

\* Since the controller was started, no task has panicked.
NoPanic == \A r \in Operation : pc[r] \notin {"panicked", "failed", "gone"}

\* While the task of an operation is there the flag says so, to the status
\* page (api_status) and to the next request, whether or not its client is; only
\* a panic, after which the flag is cleared twice, can spoil it.
Tasks == {r \in Operation : pc[r] \in {"queued", "working", "ended"}}
FlagShowsTask == NoPanic => \A r, s \in Tasks : running /\ r = s

\* The flag never stays set: once the tasks have ended a new operation is let
\* in (InstallRunningGuard), after a panic too.
FlagClears == running ~> ~running
====
