--------------------------- MODULE ProcLifeProofs ---------------------------
(***************************************************************************)
(* Proofs about module ProcLife, for every number of slots and pids: every *)
(* process has a parent that can wait for it, no process sleeps in wait()  *)
(* beside a zombie child, and no slot is freed under a running process.    *)
(***************************************************************************)
EXTENDS ProcLife, TLAPS

USE ProcAssumption

Forking == {"fork_parent", "fork_run"}

\* p->state says how far a process is; init lives as long as the kernel.
StateInv ==
  /\ \A p \in Procs :
       /\ state[p] \in {"UNUSED", "USED"} => pc[p] = "gone"
       /\ state[p] = "RUNNABLE" => pc[p] \notin {"gone", "swtch"}
       /\ state[p] = "SLEEPING" => pc[p] = "wait"
       /\ state[p] = "ZOMBIE" => pc[p] \in {"gone", "swtch"}
  /\ state[init] \in {"RUNNABLE", "SLEEPING"} /\ pc[init] # "reparented"

\* The slots that are USED are those of the forks in progress, one for each.
ForkInv ==
  /\ \A p \in Procs : pc[p] \in Forking =>
       /\ np[p] \in Procs /\ state[np[p]] = "USED"
       /\ parent[np[p]] = IF pc[p] = "fork_parent" THEN NoProc ELSE p
  /\ \A p, q \in Procs : pc[p] \in Forking /\ pc[q] \in Forking /\ np[p] = np[q] => p = q
  /\ \A q \in Procs : state[q] = "USED" => \E p \in Procs : pc[p] \in Forking /\ np[p] = q

\* Whoever is somebody's parent is alive and has not passed reparent().
ParentInv ==
  /\ parent[init] = NoProc
  /\ \A q \in Procs :
       /\ parent[q] # NoProc => /\ state[q] # "UNUSED"
                                /\ state[parent[q]] \in {"RUNNABLE", "SLEEPING"}
                                /\ pc[parent[q]] # "reparented"
       /\ q # init /\ state[q] \notin {"UNUSED", "USED"} => parent[q] # NoProc

\* wait_lock covers exit() from reparent() to ZOMBIE, and wait() from the scan
\* to the sleep.
LockInv == \A p \in Procs : pc[p] \in {"reparented", "scan", "sleep"} => waitlock = p

\* The parent of a process that is about to be a zombie is awake.
WaitInv ==
  /\ \A p \in Procs : state[p] = "SLEEPING" \/ pc[p] = "sleep" =>
                        Children(p) # {} /\ Zombies(p) = {}
  /\ \A q \in Procs : pc[q] = "reparented" => state[parent[q]] # "SLEEPING"

ProcInv == TypeOK /\ StateInv /\ ForkInv /\ ParentInv /\ LockInv /\ WaitInv
-----------------------------------------------------------------------------
\* Init establishes the invariant: only init exists.
LEMMA InitInv == Init => ProcInv
<1> SUFFICES ASSUME Init PROVE ProcInv
  OBVIOUS
<1> USE DEF Init
<1>1. TypeOK
  BY DEF TypeOK
<1>2. StateInv /\ ForkInv /\ ParentInv /\ LockInv
  BY DEF StateInv, ForkInv, ParentInv, LockInv, Forking
<1>3. WaitInv
  BY DEF WaitInv
<1> QED
  BY <1>1, <1>2, <1>3 DEF ProcInv

Step(p) ==
  \/ KernelStep(p) \/ exit_call(p) \/ setkilled(p) \/ wait_call(p)
  \/ \E q \in Procs : fork_alloc(p, q) \/ fork_nomem(p, q)
  \/ \E n \in KillArgs, q \in Procs : kill(p, n, q)
  \/ fork_full \/ exit_panic

\* Every step keeps the variables within their types.
LEMMA NextType ==
  ASSUME ProcInv, NEW p \in Procs, Step(p)
  PROVE  TypeOK'
<1> USE DEF ProcInv, At, Calls, Forks, Goto, Fails
<1>1. CASE fork_parent(p)
  BY <1>1 DEF fork_parent, TypeOK, StateInv, ForkInv, Forking
<1>2. CASE fork_run(p)
  BY <1>2 DEF fork_run, TypeOK, StateInv, ForkInv, Forking
<1>3. CASE exit_reparent(p)
  BY <1>3 DEF exit_reparent, Wakeup, Children, TypeOK, StateInv, ForkInv, Forking
<1>4. CASE exit_zombie(p)
  BY <1>4 DEF exit_zombie, TypeOK, StateInv, ForkInv, Forking
<1>5. CASE exit_swtch(p)
  BY <1>5 DEF exit_swtch, TypeOK, StateInv, ForkInv, Forking
<1>6. CASE wait_acquire(p)
  BY <1>6 DEF wait_acquire, TypeOK, StateInv, ForkInv, Forking
<1>7. CASE wait_fails(p)
  BY <1>7 DEF wait_fails, TypeOK, StateInv, ForkInv, Forking
<1>8. CASE wait_check(p)
  BY <1>8 DEF wait_check, TypeOK, StateInv, ForkInv, Forking
<1>9. CASE wait_sleep(p)
  BY <1>9 DEF wait_sleep, TypeOK, StateInv, ForkInv, Forking
<1>10. CASE exit_call(p)
  BY <1>10 DEF exit_call, TypeOK, StateInv, ForkInv, Forking
<1>11. CASE setkilled(p)
  BY <1>11 DEF setkilled, TypeOK, StateInv, ForkInv, Forking
<1>12. CASE wait_call(p)
  BY <1>12 DEF wait_call, TypeOK, StateInv, ForkInv, Forking
<1>13. ASSUME NEW q \in Procs, wait_reap(p, q) PROVE TypeOK'
  BY <1>13 DEF wait_reap, Zombies, Children, pp_lock, TypeOK, StateInv, ForkInv, Forking
<1>14. ASSUME NEW q \in Procs, fork_alloc(p, q) PROVE TypeOK'
  BY <1>14 DEF fork_alloc, allocpid, TypeOK, StateInv, ForkInv, Forking
<1>15. ASSUME NEW q \in Procs, fork_nomem(p, q) PROVE TypeOK'
  BY <1>15 DEF fork_nomem, allocpid, TypeOK, StateInv, ForkInv, Forking
<1>16. ASSUME NEW m \in KillArgs, NEW q \in Procs, kill(p, m, q) PROVE TypeOK'
  BY <1>16 DEF kill, Wakeup, TypeOK, StateInv, ForkInv, Forking
<1>17. CASE fork_full \/ exit_panic
  BY <1>17 DEF fork_full, exit_panic, TypeOK, StateInv, ForkInv, Forking
<1> QED
  BY <1>1, <1>2, <1>3, <1>4, <1>5, <1>6, <1>7, <1>8, <1>9, <1>10, <1>11, <1>12, <1>13, <1>14, <1>15, <1>16, <1>17 DEF Step, KernelStep

\* Every step keeps p->state and the place of the process in step.
LEMMA NextState ==
  ASSUME ProcInv, NEW p \in Procs, Step(p)
  PROVE  StateInv'
<1> USE DEF ProcInv, At, Calls, Forks, Goto, Fails
<1>1. CASE fork_parent(p)
  BY <1>1 DEF fork_parent, TypeOK, StateInv, ForkInv, Forking, LockInv
<1>2. CASE fork_run(p)
  BY <1>2 DEF fork_run, TypeOK, StateInv, ForkInv, Forking, LockInv
<1>3. CASE exit_reparent(p)
  BY <1>3 DEF exit_reparent, Wakeup, Children, TypeOK, StateInv, ForkInv, Forking, LockInv
<1>4. CASE exit_zombie(p)
  BY <1>4 DEF exit_zombie, TypeOK, StateInv, ForkInv, Forking, LockInv
<1>5. CASE exit_swtch(p)
  BY <1>5 DEF exit_swtch, TypeOK, StateInv, ForkInv, Forking, LockInv
<1>6. CASE wait_acquire(p)
  BY <1>6 DEF wait_acquire, TypeOK, StateInv, ForkInv, Forking, LockInv
<1>7. CASE wait_fails(p)
  BY <1>7 DEF wait_fails, TypeOK, StateInv, ForkInv, Forking, LockInv
<1>8. CASE wait_check(p)
  BY <1>8 DEF wait_check, TypeOK, StateInv, ForkInv, Forking, LockInv
<1>9. CASE wait_sleep(p)
  BY <1>9 DEF wait_sleep, TypeOK, StateInv, ForkInv, Forking, LockInv
<1>10. CASE exit_call(p)
  BY <1>10 DEF exit_call, TypeOK, StateInv, ForkInv, Forking, LockInv
<1>11. CASE setkilled(p)
  BY <1>11 DEF setkilled, TypeOK, StateInv, ForkInv, Forking, LockInv
<1>12. CASE wait_call(p)
  BY <1>12 DEF wait_call, TypeOK, StateInv, ForkInv, Forking, LockInv
<1>13. ASSUME NEW q \in Procs, wait_reap(p, q) PROVE StateInv'
  BY <1>13 DEF wait_reap, Zombies, Children, pp_lock, TypeOK, StateInv, ForkInv, Forking, LockInv
<1>14. ASSUME NEW q \in Procs, fork_alloc(p, q) PROVE StateInv'
  BY <1>14 DEF fork_alloc, allocpid, TypeOK, StateInv, ForkInv, Forking, LockInv
<1>15. ASSUME NEW q \in Procs, fork_nomem(p, q) PROVE StateInv'
  BY <1>15 DEF fork_nomem, allocpid, TypeOK, StateInv, ForkInv, Forking, LockInv
<1>16. ASSUME NEW m \in KillArgs, NEW q \in Procs, kill(p, m, q) PROVE StateInv'
  BY <1>16 DEF kill, Wakeup, TypeOK, StateInv, ForkInv, Forking, LockInv
<1>17. CASE fork_full \/ exit_panic
  BY <1>17 DEF fork_full, exit_panic, TypeOK, StateInv, ForkInv, Forking, LockInv
<1> QED
  BY <1>1, <1>2, <1>3, <1>4, <1>5, <1>6, <1>7, <1>8, <1>9, <1>10, <1>11, <1>12, <1>13, <1>14, <1>15, <1>16, <1>17 DEF Step, KernelStep

\* A slot that fork() has taken stays with that fork() until it runs.
LEMMA NextFork ==
  ASSUME ProcInv, NEW p \in Procs, Step(p)
  PROVE  ForkInv'
<1> USE DEF ProcInv, At, Calls, Forks, Goto, Fails
<1>1. CASE fork_parent(p)
  BY <1>1 DEF fork_parent, TypeOK, StateInv, ForkInv, ParentInv, Forking
<1>2. CASE fork_run(p)
  BY <1>2 DEF fork_run, TypeOK, StateInv, ForkInv, ParentInv, Forking
<1>3. CASE exit_reparent(p)
  BY <1>3 DEF exit_reparent, Wakeup, Children, TypeOK, StateInv, ForkInv, ParentInv, Forking
<1>4. CASE exit_zombie(p)
  BY <1>4 DEF exit_zombie, TypeOK, StateInv, ForkInv, ParentInv, Forking
<1>5. CASE exit_swtch(p)
  BY <1>5 DEF exit_swtch, TypeOK, StateInv, ForkInv, ParentInv, Forking
<1>6. CASE wait_acquire(p)
  BY <1>6 DEF wait_acquire, TypeOK, StateInv, ForkInv, ParentInv, Forking
<1>7. CASE wait_fails(p)
  BY <1>7 DEF wait_fails, TypeOK, StateInv, ForkInv, ParentInv, Forking
<1>8. CASE wait_check(p)
  BY <1>8 DEF wait_check, TypeOK, StateInv, ForkInv, ParentInv, Forking
<1>9. CASE wait_sleep(p)
  BY <1>9 DEF wait_sleep, TypeOK, StateInv, ForkInv, ParentInv, Forking
<1>10. CASE exit_call(p)
  BY <1>10 DEF exit_call, TypeOK, StateInv, ForkInv, ParentInv, Forking
<1>11. CASE setkilled(p)
  BY <1>11 DEF setkilled, TypeOK, StateInv, ForkInv, ParentInv, Forking
<1>12. CASE wait_call(p)
  BY <1>12 DEF wait_call, TypeOK, StateInv, ForkInv, ParentInv, Forking
<1>13. ASSUME NEW q \in Procs, wait_reap(p, q) PROVE ForkInv'
  BY <1>13 DEF wait_reap, Zombies, Children, pp_lock, TypeOK, StateInv, ForkInv, ParentInv, Forking
<1>14. ASSUME NEW q \in Procs, fork_alloc(p, q) PROVE ForkInv'
  BY <1>14 DEF fork_alloc, allocpid, TypeOK, StateInv, ForkInv, ParentInv, Forking
<1>15. ASSUME NEW q \in Procs, fork_nomem(p, q) PROVE ForkInv'
  BY <1>15 DEF fork_nomem, allocpid, TypeOK, StateInv, ForkInv, ParentInv, Forking
<1>16. ASSUME NEW m \in KillArgs, NEW q \in Procs, kill(p, m, q) PROVE ForkInv'
  BY <1>16 DEF kill, Wakeup, TypeOK, StateInv, ForkInv, ParentInv, Forking
<1>17. CASE fork_full \/ exit_panic
  BY <1>17 DEF fork_full, exit_panic, TypeOK, StateInv, ForkInv, ParentInv, Forking
<1> QED
  BY <1>1, <1>2, <1>3, <1>4, <1>5, <1>6, <1>7, <1>8, <1>9, <1>10, <1>11, <1>12, <1>13, <1>14, <1>15, <1>16, <1>17 DEF Step, KernelStep

\* reparent() leaves no child behind, and nobody gets a child after it.
LEMMA NextParent ==
  ASSUME ProcInv, NEW p \in Procs, Step(p)
  PROVE  ParentInv'
<1> USE DEF ProcInv, At, Calls, Forks, Goto, Fails
<1>1. CASE fork_parent(p)
  BY <1>1 DEF fork_parent, TypeOK, StateInv, ForkInv, ParentInv, Forking
<1>2. CASE fork_run(p)
  BY <1>2 DEF fork_run, TypeOK, StateInv, ForkInv, ParentInv, Forking
<1>3. CASE exit_reparent(p)
  BY <1>3 DEF exit_reparent, Wakeup, Children, TypeOK, StateInv, ForkInv, ParentInv, Forking
<1>4. CASE exit_zombie(p)
  BY <1>4 DEF exit_zombie, TypeOK, StateInv, ForkInv, ParentInv, Forking
<1>5. CASE exit_swtch(p)
  BY <1>5 DEF exit_swtch, TypeOK, StateInv, ForkInv, ParentInv, Forking
<1>6. CASE wait_acquire(p)
  BY <1>6 DEF wait_acquire, TypeOK, StateInv, ForkInv, ParentInv, Forking
<1>7. CASE wait_fails(p)
  BY <1>7 DEF wait_fails, TypeOK, StateInv, ForkInv, ParentInv, Forking
<1>8. CASE wait_check(p)
  BY <1>8 DEF wait_check, TypeOK, StateInv, ForkInv, ParentInv, Forking
<1>9. CASE wait_sleep(p)
  BY <1>9 DEF wait_sleep, TypeOK, StateInv, ForkInv, ParentInv, Forking
<1>10. CASE exit_call(p)
  BY <1>10 DEF exit_call, TypeOK, StateInv, ForkInv, ParentInv, Forking
<1>11. CASE setkilled(p)
  BY <1>11 DEF setkilled, TypeOK, StateInv, ForkInv, ParentInv, Forking
<1>12. CASE wait_call(p)
  BY <1>12 DEF wait_call, TypeOK, StateInv, ForkInv, ParentInv, Forking
<1>13. ASSUME NEW q \in Procs, wait_reap(p, q) PROVE ParentInv'
  BY <1>13 DEF wait_reap, Zombies, Children, pp_lock, TypeOK, StateInv, ForkInv, ParentInv, Forking
<1>14. ASSUME NEW q \in Procs, fork_alloc(p, q) PROVE ParentInv'
  BY <1>14 DEF fork_alloc, allocpid, TypeOK, StateInv, ForkInv, ParentInv, Forking
<1>15. ASSUME NEW q \in Procs, fork_nomem(p, q) PROVE ParentInv'
  BY <1>15 DEF fork_nomem, allocpid, TypeOK, StateInv, ForkInv, ParentInv, Forking
<1>16. ASSUME NEW m \in KillArgs, NEW q \in Procs, kill(p, m, q) PROVE ParentInv'
  BY <1>16 DEF kill, Wakeup, TypeOK, StateInv, ForkInv, ParentInv, Forking
<1>17. CASE fork_full \/ exit_panic
  BY <1>17 DEF fork_full, exit_panic, TypeOK, StateInv, ForkInv, ParentInv, Forking
<1> QED
  BY <1>1, <1>2, <1>3, <1>4, <1>5, <1>6, <1>7, <1>8, <1>9, <1>10, <1>11, <1>12, <1>13, <1>14, <1>15, <1>16, <1>17 DEF Step, KernelStep

\* wait_lock stays with the process that is inside its section.
LEMMA NextLock ==
  ASSUME ProcInv, NEW p \in Procs, Step(p)
  PROVE  LockInv'
<1> USE DEF ProcInv, At, Calls, Forks, Goto, Fails
<1>1. CASE fork_parent(p)
  BY <1>1 DEF fork_parent, TypeOK, StateInv, ForkInv, LockInv, Forking
<1>2. CASE fork_run(p)
  BY <1>2 DEF fork_run, TypeOK, StateInv, ForkInv, LockInv, Forking
<1>3. CASE exit_reparent(p)
  BY <1>3 DEF exit_reparent, Wakeup, Children, TypeOK, StateInv, ForkInv, LockInv, Forking
<1>4. CASE exit_zombie(p)
  BY <1>4 DEF exit_zombie, TypeOK, StateInv, ForkInv, LockInv, Forking
<1>5. CASE exit_swtch(p)
  BY <1>5 DEF exit_swtch, TypeOK, StateInv, ForkInv, LockInv, Forking
<1>6. CASE wait_acquire(p)
  BY <1>6 DEF wait_acquire, TypeOK, StateInv, ForkInv, LockInv, Forking
<1>7. CASE wait_fails(p)
  BY <1>7 DEF wait_fails, TypeOK, StateInv, ForkInv, LockInv, Forking
<1>8. CASE wait_check(p)
  BY <1>8 DEF wait_check, TypeOK, StateInv, ForkInv, LockInv, Forking
<1>9. CASE wait_sleep(p)
  BY <1>9 DEF wait_sleep, TypeOK, StateInv, ForkInv, LockInv, Forking
<1>10. CASE exit_call(p)
  BY <1>10 DEF exit_call, TypeOK, StateInv, ForkInv, LockInv, Forking
<1>11. CASE setkilled(p)
  BY <1>11 DEF setkilled, TypeOK, StateInv, ForkInv, LockInv, Forking
<1>12. CASE wait_call(p)
  BY <1>12 DEF wait_call, TypeOK, StateInv, ForkInv, LockInv, Forking
<1>13. ASSUME NEW q \in Procs, wait_reap(p, q) PROVE LockInv'
  BY <1>13 DEF wait_reap, Zombies, Children, pp_lock, TypeOK, StateInv, ForkInv, LockInv, Forking
<1>14. ASSUME NEW q \in Procs, fork_alloc(p, q) PROVE LockInv'
  BY <1>14 DEF fork_alloc, allocpid, TypeOK, StateInv, ForkInv, LockInv, Forking
<1>15. ASSUME NEW q \in Procs, fork_nomem(p, q) PROVE LockInv'
  BY <1>15 DEF fork_nomem, allocpid, TypeOK, StateInv, ForkInv, LockInv, Forking
<1>16. ASSUME NEW m \in KillArgs, NEW q \in Procs, kill(p, m, q) PROVE LockInv'
  BY <1>16 DEF kill, Wakeup, TypeOK, StateInv, ForkInv, LockInv, Forking
<1>17. CASE fork_full \/ exit_panic
  BY <1>17 DEF fork_full, exit_panic, TypeOK, StateInv, ForkInv, LockInv, Forking
<1> QED
  BY <1>1, <1>2, <1>3, <1>4, <1>5, <1>6, <1>7, <1>8, <1>9, <1>10, <1>11, <1>12, <1>13, <1>14, <1>15, <1>16, <1>17 DEF Step, KernelStep

\* A child becomes a zombie only while its parent is awake, and the parent does
\* not fall asleep between its scan and the sleep: both hold wait_lock.
LEMMA NextWait ==
  ASSUME ProcInv, NEW p \in Procs, Step(p)
  PROVE  WaitInv'
<1> USE DEF ProcInv, At, Calls, Forks, Goto, Fails
<1>1. CASE fork_parent(p)
  BY <1>1 DEF fork_parent, TypeOK, StateInv, ForkInv, ParentInv, LockInv, WaitInv, Forking, Children, Zombies
<1>2. CASE fork_run(p)
  BY <1>2 DEF fork_run, TypeOK, StateInv, ForkInv, ParentInv, LockInv, WaitInv, Forking, Children, Zombies
<1>3. CASE exit_reparent(p)
  BY <1>3 DEF exit_reparent, Wakeup, TypeOK, StateInv, ForkInv, ParentInv, LockInv, WaitInv, Forking, Children, Zombies
<1>4. CASE exit_zombie(p)
  BY <1>4 DEF exit_zombie, TypeOK, StateInv, ForkInv, ParentInv, LockInv, WaitInv, Forking, Children, Zombies
<1>5. CASE exit_swtch(p)
  BY <1>5 DEF exit_swtch, TypeOK, StateInv, ForkInv, ParentInv, LockInv, WaitInv, Forking, Children, Zombies
<1>6. CASE wait_acquire(p)
  BY <1>6 DEF wait_acquire, TypeOK, StateInv, ForkInv, ParentInv, LockInv, WaitInv, Forking, Children, Zombies
<1>7. CASE wait_fails(p)
  BY <1>7 DEF wait_fails, TypeOK, StateInv, ForkInv, ParentInv, LockInv, WaitInv, Forking, Children, Zombies
<1>8. CASE wait_check(p)
  BY <1>8 DEF wait_check, TypeOK, StateInv, ForkInv, ParentInv, LockInv, WaitInv, Forking, Children, Zombies
<1>9. CASE wait_sleep(p)
  BY <1>9 DEF wait_sleep, TypeOK, StateInv, ForkInv, ParentInv, LockInv, WaitInv, Forking, Children, Zombies
<1>10. CASE exit_call(p)
  BY <1>10 DEF exit_call, TypeOK, StateInv, ForkInv, ParentInv, LockInv, WaitInv, Forking, Children, Zombies
<1>11. CASE setkilled(p)
  BY <1>11 DEF setkilled, TypeOK, StateInv, ForkInv, ParentInv, LockInv, WaitInv, Forking, Children, Zombies
<1>12. CASE wait_call(p)
  BY <1>12 DEF wait_call, TypeOK, StateInv, ForkInv, ParentInv, LockInv, WaitInv, Forking, Children, Zombies
<1>13. ASSUME NEW q \in Procs, wait_reap(p, q) PROVE WaitInv'
  BY <1>13 DEF wait_reap, pp_lock, TypeOK, StateInv, ForkInv, ParentInv, LockInv, WaitInv, Forking, Children, Zombies
<1>14. ASSUME NEW q \in Procs, fork_alloc(p, q) PROVE WaitInv'
  BY <1>14 DEF fork_alloc, allocpid, TypeOK, StateInv, ForkInv, ParentInv, LockInv, WaitInv, Forking, Children, Zombies
<1>15. ASSUME NEW q \in Procs, fork_nomem(p, q) PROVE WaitInv'
  BY <1>15 DEF fork_nomem, allocpid, TypeOK, StateInv, ForkInv, ParentInv, LockInv, WaitInv, Forking, Children, Zombies
<1>16. ASSUME NEW m \in KillArgs, NEW q \in Procs, kill(p, m, q) PROVE WaitInv'
  BY <1>16 DEF kill, Wakeup, TypeOK, StateInv, ForkInv, ParentInv, LockInv, WaitInv, Forking, Children, Zombies
<1>17. CASE fork_full \/ exit_panic
  BY <1>17 DEF fork_full, exit_panic, TypeOK, StateInv, ForkInv, ParentInv, LockInv, WaitInv, Forking, Children, Zombies
<1> QED
  BY <1>1, <1>2, <1>3, <1>4, <1>5, <1>6, <1>7, <1>8, <1>9, <1>10, <1>11, <1>12, <1>13, <1>14, <1>15, <1>16, <1>17 DEF Step, KernelStep

\* ProcInv is inductive.
LEMMA NextInv == ProcInv /\ [Next]_vars => ProcInv'
<1> SUFFICES ASSUME ProcInv, [Next]_vars PROVE ProcInv'
  OBVIOUS
<1>1. CASE UNCHANGED vars
  BY <1>1 DEF vars, ProcInv, TypeOK, StateInv, ForkInv, ParentInv, LockInv, WaitInv, Children, Zombies
<1>2. ASSUME NEW p \in Procs, Step(p) PROVE ProcInv'
  BY <1>2, NextType, NextState, NextFork, NextParent, NextLock, NextWait DEF ProcInv
<1> QED
  BY <1>1, <1>2 DEF Next, Step

\* The inductive invariant of the process table holds in every reachable state.
THEOREM ProcInvariant == Spec => []ProcInv
  BY InitInv, NextInv, PTL DEF Spec

\* Every process but init has a parent that is alive and has not passed
\* reparent() (proc.c:330-341), or is still being forked.
THEOREM ParentAliveHolds == Spec => []ParentAlive
<1>1. ASSUME ProcInv PROVE ParentAlive
  <2> SUFFICES ASSUME NEW q \in Procs \ {init}, state[q] # "UNUSED"
               PROVE  \/ /\ parent[q] \in Procs /\ state[parent[q]] \in {"RUNNABLE", "SLEEPING"}
                         /\ pc[parent[q]] # "reparented"
                      \/ state[q] = "USED" /\ parent[q] = NoProc
                         /\ \E p \in Procs : pc[p] = "fork_parent" /\ np[p] = q /\ state[p] = "RUNNABLE"
    BY <1>1 DEF ProcInv, ParentAlive
  <2>1. CASE parent[q] # NoProc
    BY <1>1, <2>1 DEF ProcInv, TypeOK, ParentInv
  <2>2. CASE parent[q] = NoProc
    BY <1>1, <2>2 DEF ProcInv, TypeOK, ParentInv, ForkInv, StateInv, Forking
  <2> QED
    BY <2>1, <2>2
<1> QED
  BY <1>1, ProcInvariant, PTL

\* A process asleep in wait() has children, and none of them is a zombie
\* (proc.c:368-383, 427-433).
THEOREM ZombieNoticedHolds == Spec => []ZombieNoticed
<1>1. ProcInv => ZombieNoticed
  BY DEF ProcInv, WaitInv, ZombieNoticed
<1> QED
  BY <1>1, ProcInvariant, PTL

\* A slot that is free or being set up belongs to nobody who still runs
\* (proc.c:404).
THEOREM NotFreedOnCpuHolds == Spec => []NotFreedOnCpu
<1>1. ProcInv => NotFreedOnCpu
  BY DEF ProcInv, StateInv, NotFreedOnCpu
<1> QED
  BY <1>1, ProcInvariant, PTL
=============================================================================
