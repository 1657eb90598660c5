---- MODULE WebControllerProofs ----
(***************************************************************************)
(* For any number of requests and processes: at most one party works on    *)
(* the server; as long as no task has panicked, the running flag is set    *)
(* while an operation's task is there; and a task that will clear it is    *)
(* there as long as it is set, and gets on with it.                        *)
(***************************************************************************)
EXTENDS WebController, Naturals, TLAPS

---------------------------------------------------------------------------
\* The lock

\* Who works holds the lock.
WorkersHold == \A p \in Party : pc[p] = "working" => lock = p

LockInv == TypeOK /\ WorkersHold

LEMMA LockInit == Init => LockInv
BY DEF Init, LockInv, TypeOK, WorkersHold

LEMMA LockNext == LockInv /\ [Next]_vars => LockInv'
<1> SUFFICES ASSUME LockInv, [Next]_vars PROVE LockInv'
    OBVIOUS
<1> USE ControllerAssumption
    DEF LockInv, TypeOK, WorkersHold, Party, Inline, Goes
<1>1. ASSUME NEW r \in Operation, Accept(r) PROVE LockInv'
      BY <1>1 DEF Accept
<1>2. ASSUME NEW r \in Operation, TakeLock(r) PROVE LockInv'
      BY <1>2 DEF TakeLock
<1>3. ASSUME NEW r \in Operation, LockRefused(r) PROVE LockInv'
      BY <1>3 DEF LockRefused
<1>4. ASSUME NEW r \in Operation, Ends(r) PROVE LockInv'
      BY <1>4 DEF Ends
<1>5. ASSUME NEW r \in Operation, DropGuard(r) PROVE LockInv'
      BY <1>5 DEF DropGuard
<1>6. ASSUME NEW r \in Operation, Answer(r) PROVE LockInv'
      BY <1>6 DEF Answer
<1>7. ASSUME NEW r \in Operation, HangUp(r) PROVE LockInv'
      BY <1>7 DEF HangUp
<1>8. ASSUME NEW a \in Action, CheckFlag(a) PROVE LockInv'
      BY <1>8 DEF CheckFlag
<1>9. ASSUME NEW p \in Inline, TryLock(p) PROVE LockInv'
      BY <1>9 DEF TryLock
<1>10. ASSUME NEW p \in Inline, Release(p) PROVE LockInv'
      BY <1>10 DEF Release
<1>11. CASE KillController BY <1>11 DEF KillController
<1>12. CASE UNCHANGED vars BY <1>12 DEF vars
<1> QED
  BY <1>1, <1>2, <1>3, <1>4, <1>5, <1>6, <1>7, <1>8, <1>9, <1>10, <1>11, <1>12
  DEF Next, Task

\* At most one party works on the server, with panics and without, whatever the
\* running flag says (InstallerLock::acquire).
THEOREM LockExcludes == Spec => []OneWorks
<1>1. LockInv => OneWorks BY DEF LockInv, WorkersHold, OneWorks
<1> QED BY LockInit, LockNext, <1>1, PTL DEF Spec

---------------------------------------------------------------------------
\* The flag

FlagInv == TypeOK /\ FlagShowsTask

LEMMA FlagInit == Init => FlagInv
BY LockInit DEF Init, FlagInv, LockInv, NoPanic, FlagShowsTask, Tasks, Party

LEMMA FlagNext == FlagInv /\ TypeOK' /\ [Next]_vars => FlagInv'
<1> SUFFICES ASSUME FlagInv, TypeOK', [Next]_vars PROVE FlagShowsTask'
    BY DEF FlagInv
<1> USE ControllerAssumption
    DEF FlagInv, TypeOK, NoPanic, FlagShowsTask, Tasks, Party, Inline, Goes
<1>1. ASSUME NEW r \in Operation, Accept(r) PROVE FlagShowsTask'
      BY <1>1 DEF Accept
<1>2. ASSUME NEW r \in Operation, TakeLock(r) PROVE FlagShowsTask'
      BY <1>2 DEF TakeLock
<1>3. ASSUME NEW r \in Operation, LockRefused(r) PROVE FlagShowsTask'
      BY <1>3 DEF LockRefused
<1>4. ASSUME NEW r \in Operation, Ends(r) PROVE FlagShowsTask'
      BY <1>4 DEF Ends
<1>5. ASSUME NEW r \in Operation, DropGuard(r) PROVE FlagShowsTask'
      BY <1>5 DEF DropGuard
<1>6. ASSUME NEW r \in Operation, Answer(r) PROVE FlagShowsTask'
      BY <1>6 DEF Answer
<1>7. ASSUME NEW r \in Operation, HangUp(r) PROVE FlagShowsTask'
      BY <1>7 DEF HangUp
<1>8. ASSUME NEW a \in Action, CheckFlag(a) PROVE FlagShowsTask'
      BY <1>8 DEF CheckFlag
<1>9. ASSUME NEW p \in Inline, TryLock(p) PROVE FlagShowsTask'
      BY <1>9 DEF TryLock
<1>10. ASSUME NEW p \in Inline, Release(p) PROVE FlagShowsTask'
      BY <1>10 DEF Release
<1>11. CASE KillController BY <1>11 DEF KillController
<1>12. CASE UNCHANGED vars BY <1>12 DEF vars
<1> QED
  BY <1>1, <1>2, <1>3, <1>4, <1>5, <1>6, <1>7, <1>8, <1>9, <1>10, <1>11, <1>12
  DEF Next, Task

\* Until a task panics the flag is set as long as the task of an operation is
\* there, whether or not its client is, and there is one task at most (api.rs).
THEOREM FlagIsTrue == Spec => []FlagShowsTask
<1>1. FlagInv => FlagShowsTask BY DEF FlagInv
<1>2. FlagInv /\ LockInv' /\ [Next]_vars => FlagInv'
      BY FlagNext DEF LockInv
<1> QED BY LockInit, LockNext, FlagInit, <1>1, <1>2, PTL DEF Spec

---------------------------------------------------------------------------
\* What clears the flag

\* The guard of a task, and how many steps at most its task is from dropping it.
Left == [queued |-> 3, working |-> 2, ended |-> 1, panicked |-> 1]
Guards(r) == pc[r] \in DOMAIN Left

FlagIsGuarded == running => \E r \in Operation : Guards(r)

\* A task with a guard goes nearer to dropping it, and nothing else moves it.
GuardsComeCloser ==
    \A r \in Operation : Guards(r) =>
       \/ ~running'
       \/ pc'[r] = pc[r] /\ ~Task(r)
       \/ Guards(r)' /\ Left[pc'[r]] < Left[pc[r]]

LEMMA GuardedNext == TypeOK /\ FlagIsGuarded /\ [Next]_vars => FlagIsGuarded'
<1> SUFFICES ASSUME TypeOK, FlagIsGuarded, [Next]_vars PROVE FlagIsGuarded'
    OBVIOUS
<1> USE ControllerAssumption
    DEF TypeOK, FlagIsGuarded, Guards, Left, Party, Inline, Goes
<1>1. ASSUME NEW r \in Operation, Accept(r) PROVE FlagIsGuarded'
      BY <1>1 DEF Accept
<1>2. ASSUME NEW r \in Operation, TakeLock(r) PROVE FlagIsGuarded'
      BY <1>2 DEF TakeLock
<1>3. ASSUME NEW r \in Operation, LockRefused(r) PROVE FlagIsGuarded'
      BY <1>3 DEF LockRefused
<1>4. ASSUME NEW r \in Operation, Ends(r) PROVE FlagIsGuarded'
      BY <1>4 DEF Ends
<1>5. ASSUME NEW r \in Operation, DropGuard(r) PROVE FlagIsGuarded'
      BY <1>5 DEF DropGuard
<1>6. ASSUME NEW r \in Operation, Answer(r) PROVE FlagIsGuarded'
      BY <1>6 DEF Answer
<1>7. ASSUME NEW r \in Operation, HangUp(r) PROVE FlagIsGuarded'
      BY <1>7 DEF HangUp
<1>8. ASSUME NEW a \in Action, CheckFlag(a) PROVE FlagIsGuarded'
      BY <1>8 DEF CheckFlag
<1>9. ASSUME NEW p \in Inline, TryLock(p) PROVE FlagIsGuarded'
      BY <1>9 DEF TryLock
<1>10. ASSUME NEW p \in Inline, Release(p) PROVE FlagIsGuarded'
      BY <1>10 DEF Release
<1>11. CASE KillController BY <1>11 DEF KillController
<1>12. CASE UNCHANGED vars BY <1>12 DEF vars
<1> QED
  BY <1>1, <1>2, <1>3, <1>4, <1>5, <1>6, <1>7, <1>8, <1>9, <1>10, <1>11, <1>12
  DEF Next, Task

LEMMA CloserNext == TypeOK /\ [Next]_vars => [GuardsComeCloser]_vars
<1> SUFFICES ASSUME TypeOK, Next PROVE GuardsComeCloser
    OBVIOUS
<1> SUFFICES ASSUME NEW r \in Operation, Guards(r), running'
             PROVE  \/ pc'[r] = pc[r] /\ ~Task(r)
                    \/ Guards(r)' /\ Left[pc'[r]] < Left[pc[r]]
    BY DEF GuardsComeCloser
<1> USE ControllerAssumption DEF TypeOK, Guards, Left, Party, Inline, Goes
<1>1. ASSUME pc'[r] = pc[r] PROVE ~Task(r)
      BY <1>1 DEF Task, TakeLock, LockRefused, Ends, DropGuard, Answer
<1>2. CASE Task(r)
  <2>1. \/ pc[r] = "queued" /\ pc'[r] \in {"working", "ended"}
        \/ pc[r] = "working" /\ pc'[r] \in {"ended", "panicked"}
        BY <1>2 DEF Task, TakeLock, LockRefused, Ends, DropGuard, Answer
  <2> QED BY <2>1
<1>3. ASSUME NEW t \in Operation \ {r}, Accept(t) \/ Task(t) \/ HangUp(t)
      PROVE  pc'[r] = pc[r]
      BY <1>3 DEF Accept, Task, TakeLock, LockRefused, Ends, DropGuard, Answer, HangUp
<1>4. CASE Accept(r) \/ HangUp(r)
      BY <1>4, <1>1 DEF Accept, HangUp
<1>5. ASSUME NEW p \in Inline, CheckFlag(p) \/ TryLock(p) \/ Release(p)
      PROVE  pc'[r] = pc[r]
      BY <1>5 DEF CheckFlag, TryLock, Release
<1>6. ~KillController
      BY DEF KillController
<1> QED BY <1>1, <1>2, <1>3, <1>4, <1>5, <1>6 DEF Next

\* The flag is set only while a task is there that will clear it, and such a
\* task gets no further from clearing it, whatever other requests, clients and
\* processes do: with the fairness of its Task the flag is cleared.
THEOREM FlagIsOnItsWay == Spec => []FlagIsGuarded /\ [][GuardsComeCloser]_vars
<1>1. Init => FlagIsGuarded BY DEF Init, FlagIsGuarded
<1>2. LockInv => TypeOK BY DEF LockInv
<1> QED BY LockInit, LockNext, GuardedNext, CloserNext, <1>1, <1>2, PTL DEF Spec
====
