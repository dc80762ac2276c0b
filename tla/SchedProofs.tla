---------------------------- MODULE SchedProofs ----------------------------
(***************************************************************************)
(* Proofs about module Sched, for every number of processes and CPUs: the  *)
(* handover of p->lock through swtch() is safe, sleep locks exclude, and   *)
(* no wakeup is lost.                                                      *)
(***************************************************************************)
EXTENDS Sched, TLAPS

USE SchedAssumption

\* Where a running process holds its own p->lock, and where it holds lk->lk.
PLocked == {"sleep_release", "sleep_state", "sched_sleep", "woken", "sched_yield", "resumed"}
LkLocked == {"test", "sleep", "sleep_release", "releasesleep", "wakeup"}

On(c, p) == spc[c] # "scan" /\ proc[c] = p

\* What is known of the process on a CPU, while it runs and while the
\* scheduler takes it off.
CpuInv ==
  \A c \in CPUs :
    /\ spc[c] # "scan" => proc[c] \in Procs /\ si[c] = proc[c]
    /\ spc[c] = "run" =>
         /\ kpc[proc[c]] \in PLocked => plock[proc[c]] = c
         /\ kpc[proc[c]] \notin PLocked => plock[proc[c]] = Free
         /\ kpc[proc[c]] = "sched_sleep" => state[proc[c]] = "SLEEPING"
         /\ kpc[proc[c]] = "sched_yield" => state[proc[c]] = "RUNNABLE"
         /\ kpc[proc[c]] \notin {"sched_sleep", "sched_yield"} => state[proc[c]] = "RUNNING"
    /\ spc[c] = "back" =>
         /\ plock[proc[c]] = c
         /\ \/ kpc[proc[c]] = "woken" /\ state[proc[c]] = "SLEEPING"
            \/ kpc[proc[c]] = "resumed" /\ state[proc[c]] = "RUNNABLE"

\* p->lock is held only on behalf of the CPU that p is on, and a process on
\* no CPU stands behind the swtch() of sched().
OffInv ==
  \A p \in Procs :
    /\ plock[p] # Free => On(plock[p], p)
    /\ (\A c \in CPUs : ~On(c, p)) => kpc[p] \in {"woken", "resumed"} /\ state[p] # "RUNNING"

\* lk->lk is held exactly by the CPU whose process stands in a section of it.
LkInv ==
  /\ lk # Free => spc[lk] = "run" /\ kpc[proc[lk]] \in LkLocked
  /\ \A c \in CPUs : spc[c] = "run" /\ kpc[proc[c]] \in LkLocked => lk = c

\* Somebody holds the sleep lock or has yet to visit p in wakeup().
Watched(p) == locked # NoProc \/ \E q \in Procs : kpc[q] = "wakeup" /\ wi[q] <= p

\* A process is watched from the moment it lets go of lk->lk.
SleepInv ==
  \A p \in Procs :
    /\ state[p] = "SLEEPING" => chan[p] = 1 /\ kpc[p] \in {"sched_sleep", "woken"}
    /\ kpc[p] \in {"sleep", "sleep_release"} => locked # NoProc
    /\ kpc[p] = "sleep_state" \/ state[p] = "SLEEPING" => Watched(p)

SchedInv == TypeOK /\ CpuInv /\ OneCpu /\ OffInv /\ LkInv /\ SleepMutex /\ SleepInv
-----------------------------------------------------------------------------
\* Init establishes the invariant.
LEMMA InitInv == Init => SchedInv
<1> SUFFICES ASSUME Init PROVE SchedInv
  OBVIOUS
<1> USE DEF Init
<1>1. TypeOK
  BY DEF TypeOK, Procs
<1>2. CpuInv /\ OneCpu
  BY DEF CpuInv, OneCpu
<1>3. OffInv
  BY DEF OffInv
<1>4. LkInv /\ SleepMutex /\ SleepInv
  BY DEF LkInv, SleepMutex, SleepInv, Holding
<1> QED
  BY <1>1, <1>2, <1>3, <1>4 DEF SchedInv

\* A process in a section of lk->lk runs on the CPU that holds it, so there is
\* one such process at most.
LEMMA LkOwner ==
  ASSUME SchedInv, NEW p \in Procs, kpc[p] \in LkLocked
  PROVE  lk \in CPUs /\ spc[lk] = "run" /\ proc[lk] = p
<1>1. PICK c \in CPUs : On(c, p)
  BY DEF SchedInv, OffInv, LkLocked
<1>2. spc[c] = "run"
  BY <1>1 DEF SchedInv, TypeOK, CpuInv, LkLocked, On
<1> QED
  BY <1>1, <1>2 DEF SchedInv, LkInv, On

\* A process that may be chosen, woken or killed while nobody holds its p->lock
\* is on no CPU unless it is RUNNING.
LEMMA Unlocked ==
  ASSUME SchedInv, NEW q \in Procs, plock[q] = Free, state[q] # "RUNNING"
  PROVE  \A c \in CPUs : ~On(c, q)
  BY DEF SchedInv, TypeOK, CpuInv, On, PLocked

Step(c) == KernelStep(c) \/ acquiresleep_call(c) \/ \E q \in Procs : kill(c, q)

\* Every step keeps the variables within their types.
LEMMA NextType ==
  ASSUME SchedInv, NEW c \in CPUs, Step(c)
  PROVE  TypeOK'
<1> USE DEF SchedInv, At, Goto, cpuvars
<1>1. CASE scheduler_skip(c)
  BY <1>1 DEF scheduler_skip, TypeOK, CpuInv, NextSlot, Procs
<1>2. CASE scheduler_run(c)
  BY <1>2 DEF scheduler_run, TypeOK, CpuInv, NextSlot, Procs
<1>3. CASE scheduler_back(c)
  BY <1>3, SMTT(60) DEF scheduler_back, TypeOK, CpuInv, NextSlot, Procs
<1>4. CASE sched(c)
  <2>1. proc[c] \in Procs
    BY <1>4 DEF CpuInv, sched, At
  <2> QED
    BY <2>1, <1>4 DEF sched, TypeOK
<1>5. CASE yield(c)
  BY <1>5 DEF yield, TypeOK, CpuInv, NextSlot, Procs
<1>6. CASE resume(c)
  BY <1>6 DEF resume, TypeOK, CpuInv, NextSlot, Procs
<1>7. CASE sleep_acquire(c)
  BY <1>7 DEF sleep_acquire, TypeOK, CpuInv, NextSlot, Procs
<1>8. CASE sleep_release(c)
  BY <1>8 DEF sleep_release, TypeOK, CpuInv, NextSlot, Procs
<1>9. CASE sleep_state(c)
  BY <1>9 DEF sleep_state, TypeOK, CpuInv, NextSlot, Procs
<1>10. CASE sleep_woken(c)
  BY <1>10 DEF sleep_woken, TypeOK, CpuInv, NextSlot, Procs
<1>11. CASE acquiresleep_acquire(c)
  BY <1>11 DEF acquiresleep_acquire, TypeOK, CpuInv, NextSlot, Procs
<1>12. CASE acquiresleep_wait(c)
  BY <1>12 DEF acquiresleep_wait, TypeOK, CpuInv, NextSlot, Procs
<1>13. CASE acquiresleep_take(c)
  BY <1>13 DEF acquiresleep_take, TypeOK, CpuInv, NextSlot, Procs
<1>14. CASE releasesleep_acquire(c)
  BY <1>14 DEF releasesleep_acquire, TypeOK, CpuInv, NextSlot, Procs
<1>15. CASE releasesleep_free(c)
  BY <1>15 DEF releasesleep_free, TypeOK, CpuInv, NextSlot, Procs
<1>16. CASE wakeup_visit(c)
  BY <1>16, SMTT(60) DEF wakeup_visit, TypeOK, CpuInv, NextSlot, Procs
<1>17. CASE releasesleep_done(c)
  BY <1>17 DEF releasesleep_done, TypeOK, CpuInv, NextSlot, Procs
<1>18. CASE acquiresleep_call(c)
  BY <1>18 DEF acquiresleep_call, TypeOK, CpuInv, NextSlot, Procs
<1>19. ASSUME NEW q \in Procs, kill(c, q) PROVE TypeOK'
  BY <1>19 DEF kill, TypeOK, CpuInv, NextSlot, Procs
<1> QED
  BY <1>1, <1>2, <1>3, <1>4, <1>5, <1>6, <1>7, <1>8, <1>9, <1>10, <1>11, <1>12, <1>13, <1>14, <1>15, <1>16, <1>17, <1>18, <1>19 DEF Step, KernelStep

\* Processes move between CPUs and the process table without ever being on two
\* CPUs, and p->lock moves with them (swtch() in sched() and scheduler()).
LEMMA NextCpu ==
  ASSUME SchedInv, NEW c \in CPUs, Step(c)
  PROVE  (CpuInv /\ OneCpu /\ OffInv)'
<1> USE DEF SchedInv, At, Goto, cpuvars
<1>1. CASE scheduler_skip(c)
  BY <1>1 DEF scheduler_skip, TypeOK, CpuInv, OneCpu, OffInv, On, PLocked
<1>2. CASE scheduler_run(c)
  BY <1>2 DEF scheduler_run, TypeOK, CpuInv, OneCpu, OffInv, On, PLocked
<1>3. CASE scheduler_back(c)
  BY <1>3 DEF scheduler_back, TypeOK, CpuInv, OneCpu, OffInv, On, PLocked
<1>4. CASE sched(c)
  BY <1>4 DEF sched, TypeOK, CpuInv, OneCpu, OffInv, On, PLocked
<1>5. CASE yield(c)
  BY <1>5 DEF yield, TypeOK, CpuInv, OneCpu, OffInv, On, PLocked
<1>6. CASE resume(c)
  BY <1>6 DEF resume, TypeOK, CpuInv, OneCpu, OffInv, On, PLocked
<1>7. CASE sleep_acquire(c)
  BY <1>7 DEF sleep_acquire, TypeOK, CpuInv, OneCpu, OffInv, On, PLocked
<1>8. CASE sleep_release(c)
  BY <1>8 DEF sleep_release, TypeOK, CpuInv, OneCpu, OffInv, On, PLocked
<1>9. CASE sleep_state(c)
  BY <1>9 DEF sleep_state, TypeOK, CpuInv, OneCpu, OffInv, On, PLocked
<1>10. CASE sleep_woken(c)
  BY <1>10 DEF sleep_woken, TypeOK, CpuInv, OneCpu, OffInv, On, PLocked
<1>11. CASE acquiresleep_acquire(c)
  BY <1>11 DEF acquiresleep_acquire, TypeOK, CpuInv, OneCpu, OffInv, On, PLocked
<1>12. CASE acquiresleep_wait(c)
  BY <1>12 DEF acquiresleep_wait, TypeOK, CpuInv, OneCpu, OffInv, On, PLocked
<1>13. CASE acquiresleep_take(c)
  BY <1>13 DEF acquiresleep_take, TypeOK, CpuInv, OneCpu, OffInv, On, PLocked
<1>14. CASE releasesleep_acquire(c)
  BY <1>14 DEF releasesleep_acquire, TypeOK, CpuInv, OneCpu, OffInv, On, PLocked
<1>15. CASE releasesleep_free(c)
  BY <1>15 DEF releasesleep_free, TypeOK, CpuInv, OneCpu, OffInv, On, PLocked
<1>16. CASE wakeup_visit(c)
  <2>1. CASE state' = state
    BY <2>1, <1>16 DEF wakeup_visit, TypeOK, CpuInv, OneCpu, OffInv, On, PLocked
  <2>2. CASE state' # state
    <3> DEFINE q == wi[proc[c]]
    <3>1. proc[c] \in Procs /\ wi[proc[c]] \in 1 .. NPROC + 1 /\ wi[proc[c]] <= NPROC
      BY <1>16 DEF wakeup_visit, TypeOK, CpuInv
    <3>2. q \in Procs
      BY <3>1 DEF Procs
    <3>3. plock[q] = Free /\ state[q] = "SLEEPING" /\ state' = [state EXCEPT ![q] = "RUNNABLE"]
      BY <2>2, <1>16 DEF wakeup_visit, Wakes
    <3>4. \A d \in CPUs : ~On(d, q)
      BY <3>2, <3>3, Unlocked
    <3> QED
      BY <3>2, <3>3, <3>4, <1>16 DEF wakeup_visit, TypeOK, CpuInv, OneCpu, OffInv, On, PLocked
  <2> QED
    BY <2>1, <2>2
<1>17. CASE releasesleep_done(c)
  BY <1>17 DEF releasesleep_done, TypeOK, CpuInv, OneCpu, OffInv, On, PLocked
<1>18. CASE acquiresleep_call(c)
  BY <1>18 DEF acquiresleep_call, TypeOK, CpuInv, OneCpu, OffInv, On, PLocked
<1>19. ASSUME NEW q \in Procs, kill(c, q) PROVE (CpuInv /\ OneCpu /\ OffInv)'
  <2>1. CASE state[q] # "SLEEPING"
    BY <2>1, <1>19 DEF kill, TypeOK, CpuInv, OneCpu, OffInv, On, PLocked
  <2>2. CASE state[q] = "SLEEPING"
    <3>1. \A d \in CPUs : ~On(d, q)
      BY <2>2, <1>19, Unlocked DEF kill
    <3> QED
      BY <2>2, <3>1, <1>19 DEF kill, TypeOK, CpuInv, OneCpu, OffInv, On, PLocked
  <2> QED
    BY <2>1, <2>2
<1> QED
  BY <1>1, <1>2, <1>3, <1>4, <1>5, <1>6, <1>7, <1>8, <1>9, <1>10, <1>11, <1>12, <1>13, <1>14, <1>15, <1>16, <1>17, <1>18, <1>19 DEF Step, KernelStep

\* lk->lk stays with the CPU whose process is inside one of its sections.
LEMMA NextLk ==
  ASSUME SchedInv, NEW c \in CPUs, Step(c)
  PROVE  LkInv'
<1> USE DEF SchedInv, At, Goto, cpuvars
<1>1. CASE scheduler_skip(c)
  BY <1>1 DEF scheduler_skip, TypeOK, CpuInv, OneCpu, LkInv, LkLocked
<1>2. CASE scheduler_run(c)
  <2>1. \A d \in CPUs : ~On(d, si[c])
    BY <1>2, Unlocked DEF scheduler_run, TypeOK
  <2>2. kpc[si[c]] \in {"woken", "resumed"}
    BY <2>1 DEF TypeOK, OffInv
  <2> QED
    BY <2>2, <2>1, <1>2 DEF scheduler_run, On, TypeOK, CpuInv, LkInv, LkLocked
<1>3. CASE scheduler_back(c)
  BY <1>3 DEF scheduler_back, TypeOK, CpuInv, OneCpu, LkInv, LkLocked
<1>4. CASE sched(c)
  BY <1>4 DEF sched, TypeOK, CpuInv, OneCpu, LkInv, LkLocked
<1>5. CASE yield(c)
  BY <1>5 DEF yield, TypeOK, CpuInv, OneCpu, LkInv, LkLocked
<1>6. CASE resume(c)
  BY <1>6 DEF resume, TypeOK, CpuInv, OneCpu, LkInv, LkLocked
<1>7. CASE sleep_acquire(c)
  BY <1>7 DEF sleep_acquire, TypeOK, CpuInv, OneCpu, LkInv, LkLocked
<1>8. CASE sleep_release(c)
  BY <1>8 DEF sleep_release, TypeOK, CpuInv, OneCpu, LkInv, LkLocked
<1>9. CASE sleep_state(c)
  BY <1>9 DEF sleep_state, TypeOK, CpuInv, OneCpu, LkInv, LkLocked
<1>10. CASE sleep_woken(c)
  BY <1>10 DEF sleep_woken, TypeOK, CpuInv, OneCpu, LkInv, LkLocked
<1>11. CASE acquiresleep_acquire(c)
  BY <1>11 DEF acquiresleep_acquire, TypeOK, CpuInv, OneCpu, LkInv, LkLocked
<1>12. CASE acquiresleep_wait(c)
  BY <1>12 DEF acquiresleep_wait, TypeOK, CpuInv, OneCpu, LkInv, LkLocked
<1>13. CASE acquiresleep_take(c)
  BY <1>13 DEF acquiresleep_take, TypeOK, CpuInv, OneCpu, LkInv, LkLocked
<1>14. CASE releasesleep_acquire(c)
  BY <1>14 DEF releasesleep_acquire, TypeOK, CpuInv, OneCpu, LkInv, LkLocked
<1>15. CASE releasesleep_free(c)
  BY <1>15 DEF releasesleep_free, TypeOK, CpuInv, OneCpu, LkInv, LkLocked
<1>16. CASE wakeup_visit(c)
  BY <1>16 DEF wakeup_visit, TypeOK, CpuInv, OneCpu, LkInv, LkLocked
<1>17. CASE releasesleep_done(c)
  BY <1>17 DEF releasesleep_done, TypeOK, CpuInv, OneCpu, LkInv, LkLocked
<1>18. CASE acquiresleep_call(c)
  BY <1>18 DEF acquiresleep_call, TypeOK, CpuInv, OneCpu, LkInv, LkLocked
<1>19. ASSUME NEW q \in Procs, kill(c, q) PROVE LkInv'
  BY <1>19 DEF kill, TypeOK, CpuInv, OneCpu, LkInv, LkLocked
<1> QED
  BY <1>1, <1>2, <1>3, <1>4, <1>5, <1>6, <1>7, <1>8, <1>9, <1>10, <1>11, <1>12, <1>13, <1>14, <1>15, <1>16, <1>17, <1>18, <1>19 DEF Step, KernelStep

\* Only the process that the sleep lock names is between acquiresleep() and
\* releasesleep().
LEMMA NextMutex ==
  ASSUME SchedInv, NEW c \in CPUs, Step(c)
  PROVE  SleepMutex'
<1> USE DEF SchedInv, At, Goto, cpuvars
<1>1. CASE scheduler_skip(c)
  BY <1>1 DEF scheduler_skip, TypeOK, CpuInv, SleepMutex, Holding
<1>2. CASE scheduler_run(c)
  BY <1>2 DEF scheduler_run, TypeOK, CpuInv, SleepMutex, Holding
<1>3. CASE scheduler_back(c)
  BY <1>3 DEF scheduler_back, TypeOK, CpuInv, SleepMutex, Holding
<1>4. CASE sched(c)
  BY <1>4 DEF sched, TypeOK, CpuInv, SleepMutex, Holding
<1>5. CASE yield(c)
  BY <1>5 DEF yield, TypeOK, CpuInv, SleepMutex, Holding
<1>6. CASE resume(c)
  BY <1>6 DEF resume, TypeOK, CpuInv, SleepMutex, Holding
<1>7. CASE sleep_acquire(c)
  BY <1>7 DEF sleep_acquire, TypeOK, CpuInv, SleepMutex, Holding
<1>8. CASE sleep_release(c)
  BY <1>8 DEF sleep_release, TypeOK, CpuInv, SleepMutex, Holding
<1>9. CASE sleep_state(c)
  BY <1>9 DEF sleep_state, TypeOK, CpuInv, SleepMutex, Holding
<1>10. CASE sleep_woken(c)
  BY <1>10 DEF sleep_woken, TypeOK, CpuInv, SleepMutex, Holding
<1>11. CASE acquiresleep_acquire(c)
  BY <1>11 DEF acquiresleep_acquire, TypeOK, CpuInv, SleepMutex, Holding
<1>12. CASE acquiresleep_wait(c)
  BY <1>12 DEF acquiresleep_wait, TypeOK, CpuInv, SleepMutex, Holding
<1>13. CASE acquiresleep_take(c)
  BY <1>13 DEF acquiresleep_take, TypeOK, CpuInv, SleepMutex, Holding
<1>14. CASE releasesleep_acquire(c)
  BY <1>14 DEF releasesleep_acquire, TypeOK, CpuInv, SleepMutex, Holding
<1>15. CASE releasesleep_free(c)
  BY <1>15 DEF releasesleep_free, TypeOK, CpuInv, SleepMutex, Holding
<1>16. CASE wakeup_visit(c)
  BY <1>16 DEF wakeup_visit, TypeOK, CpuInv, SleepMutex, Holding
<1>17. CASE releasesleep_done(c)
  BY <1>17 DEF releasesleep_done, TypeOK, CpuInv, SleepMutex, Holding
<1>18. CASE acquiresleep_call(c)
  BY <1>18 DEF acquiresleep_call, TypeOK, CpuInv, SleepMutex, Holding
<1>19. ASSUME NEW q \in Procs, kill(c, q) PROVE SleepMutex'
  BY <1>19 DEF kill, TypeOK, CpuInv, SleepMutex, Holding
<1> QED
  BY <1>1, <1>2, <1>3, <1>4, <1>5, <1>6, <1>7, <1>8, <1>9, <1>10, <1>11, <1>12, <1>13, <1>14, <1>15, <1>16, <1>17, <1>18, <1>19 DEF Step, KernelStep

\* A process that is about to sleep or asleep stays watched: lk->lk covers it up
\* to sleep(), then p->lock keeps wakeup() from passing it by.
LEMMA NextSleep ==
  ASSUME SchedInv, NEW c \in CPUs, Step(c)
  PROVE  SleepInv'
<1> USE DEF SchedInv, At, Goto, cpuvars
<1>1. CASE scheduler_skip(c)
  BY <1>1 DEF scheduler_skip, TypeOK, CpuInv, OneCpu, LkInv, LkLocked, SleepInv, Watched
<1>2. CASE scheduler_run(c)
  BY <1>2 DEF scheduler_run, TypeOK, CpuInv, OneCpu, LkInv, LkLocked, SleepInv, Watched
<1>3. CASE scheduler_back(c)
  BY <1>3 DEF scheduler_back, TypeOK, CpuInv, OneCpu, LkInv, LkLocked, SleepInv, Watched
<1>4. CASE sched(c)
  BY <1>4 DEF sched, TypeOK, CpuInv, OneCpu, LkInv, LkLocked, SleepInv, Watched
<1>5. CASE yield(c)
  BY <1>5 DEF yield, TypeOK, CpuInv, OneCpu, LkInv, LkLocked, SleepInv, Watched
<1>6. CASE resume(c)
  BY <1>6 DEF resume, TypeOK, CpuInv, OneCpu, LkInv, LkLocked, SleepInv, Watched
<1>7. CASE sleep_acquire(c)
  BY <1>7 DEF sleep_acquire, TypeOK, CpuInv, OneCpu, LkInv, LkLocked, SleepInv, Watched
<1>8. CASE sleep_release(c)
  BY <1>8 DEF sleep_release, TypeOK, CpuInv, OneCpu, LkInv, LkLocked, SleepInv, Watched
<1>9. CASE sleep_state(c)
  BY <1>9 DEF sleep_state, TypeOK, CpuInv, OneCpu, LkInv, LkLocked, SleepInv, Watched
<1>10. CASE sleep_woken(c)
  BY <1>10 DEF sleep_woken, TypeOK, CpuInv, OneCpu, LkInv, LkLocked, SleepInv, Watched
<1>11. CASE acquiresleep_acquire(c)
  BY <1>11 DEF acquiresleep_acquire, TypeOK, CpuInv, OneCpu, LkInv, LkLocked, SleepInv, Watched
<1>12. CASE acquiresleep_wait(c)
  BY <1>12 DEF acquiresleep_wait, TypeOK, CpuInv, OneCpu, LkInv, LkLocked, SleepInv, Watched
<1>13. CASE acquiresleep_take(c)
  BY <1>13 DEF acquiresleep_take, TypeOK, CpuInv, OneCpu, LkInv, LkLocked, SleepInv, Watched
<1>14. CASE releasesleep_acquire(c)
  BY <1>14 DEF releasesleep_acquire, TypeOK, CpuInv, OneCpu, LkInv, LkLocked, SleepInv, Watched
<1>15. CASE releasesleep_free(c)
  <2>1. proc[c] \in Procs /\ kpc[proc[c]] = "releasesleep"
    BY <1>15 DEF releasesleep_free, CpuInv
  <2>2. ASSUME NEW p \in Procs PROVE kpc[p] \notin {"sleep", "sleep_release"}
    BY <2>1, LkOwner DEF LkLocked
  <2>3. kpc'[proc[c]] = "wakeup" /\ wi'[proc[c]] = 1
    BY <2>1, <1>15 DEF releasesleep_free, TypeOK
  <2>4. \A p \in Procs : Watched(p)'
    BY <2>1, <2>3 DEF Watched, Procs
  <2> QED
    BY <2>1, <2>2, <2>4, <1>15 DEF releasesleep_free, TypeOK, SleepInv
<1>16. CASE wakeup_visit(c)
  <2> DEFINE r == proc[c]
  <2>1. r \in Procs /\ kpc[r] = "wakeup" /\ wi[r] \in Procs /\ wi' = [wi EXCEPT ![r] = wi[r] + 1]
    BY <1>16, SMTT(60) DEF wakeup_visit, CpuInv, TypeOK, Procs
  <2>2. ASSUME NEW p \in Procs, p # wi[r], Watched(p) PROVE Watched(p)'
    BY <2>1, <2>2, <1>16 DEF wakeup_visit, TypeOK, Watched, Procs
  <2>3. state'[wi[r]] # "SLEEPING" /\ kpc[wi[r]] # "sleep_state"
    BY <2>1, <1>16, SMTT(60) DEF wakeup_visit, Wakes, TypeOK, CpuInv, OffInv, On, PLocked, SleepInv
  <2> QED
    BY <2>1, <2>2, <2>3, <1>16, SMTT(60) DEF wakeup_visit, TypeOK, SleepInv
<1>17. CASE releasesleep_done(c)
  <2>1. proc[c] \in Procs /\ kpc[proc[c]] = "wakeup" /\ wi[proc[c]] > NPROC
    BY <1>17 DEF releasesleep_done, CpuInv
  <2>2. ASSUME NEW p \in Procs, Watched(p) PROVE Watched(p)'
    BY <2>1, <2>2, <1>17 DEF releasesleep_done, TypeOK, Watched, Procs
  <2> QED
    BY <2>1, <2>2, <1>17 DEF releasesleep_done, TypeOK, SleepInv
<1>18. CASE acquiresleep_call(c)
  BY <1>18 DEF acquiresleep_call, TypeOK, CpuInv, OneCpu, LkInv, LkLocked, SleepInv, Watched
<1>19. ASSUME NEW q \in Procs, kill(c, q) PROVE SleepInv'
  BY <1>19 DEF kill, TypeOK, CpuInv, OneCpu, LkInv, LkLocked, SleepInv, Watched
<1> QED
  BY <1>1, <1>2, <1>3, <1>4, <1>5, <1>6, <1>7, <1>8, <1>9, <1>10, <1>11, <1>12, <1>13, <1>14, <1>15, <1>16, <1>17, <1>18, <1>19 DEF Step, KernelStep

\* SchedInv is inductive.
LEMMA NextInv == SchedInv /\ [Next]_vars => SchedInv'
<1> SUFFICES ASSUME SchedInv, [Next]_vars PROVE SchedInv'
  OBVIOUS
<1>1. CASE UNCHANGED vars
  BY <1>1, SMTT(60) DEF vars, SchedInv, TypeOK, CpuInv, OneCpu, OffInv, On, LkInv, SleepMutex, Holding,
              SleepInv, Watched
<1>2. ASSUME NEW c \in CPUs, Step(c) PROVE SchedInv'
  BY <1>2, NextType, NextCpu, NextLk, NextMutex, NextSleep DEF SchedInv
<1> QED
  BY <1>1, <1>2 DEF Next, Step

\* The inductive invariant of the scheduler, sleep() and the sleep lock holds in
\* every reachable state.
THEOREM SchedInvariant == Spec => []SchedInv
  BY InitInv, NextInv, PTL DEF Spec

\* Sleep locks exclude each other, also across preemption: the process inside the
\* critical section is the one that lk->pid names (sleeplock.c:21-41).
THEOREM SleepMutexHolds == Spec => []SleepMutex
<1>1. SchedInv => SleepMutex
  BY DEF SchedInv
<1> QED
  BY <1>1, SchedInvariant, PTL

\* No wakeup is lost between the test of lk->locked and the sleep, in whatever
\* order wakeup() visits the slots (proc.c:536-580).
THEOREM NoLostWakeupHolds == Spec => []NoLostWakeup
<1>1. SchedInv => NoLostWakeup
  BY DEF SchedInv, SleepInv, Watched, NoLostWakeup
<1> QED
  BY <1>1, SchedInvariant, PTL

\* A kernel thread never runs on two CPUs, and no assertion of sched() fails
\* (proc.c:455-510).
THEOREM SwtchSafeHolds == Spec => []SwtchSafe
<1>1. ASSUME SchedInv PROVE SchedAsserts
  <2> SUFFICES ASSUME NEW c \in CPUs, At(c, "sched_sleep") \/ At(c, "sched_yield")
               PROVE  /\ plock[proc[c]] = c /\ lk # c
                      /\ \A p \in Procs : plock[p] = c => p = proc[c]
                      /\ state[proc[c]] # "RUNNING"
    BY DEF SchedAsserts
  <2>1. plock[proc[c]] = c /\ state[proc[c]] # "RUNNING"
    BY <1>1 DEF SchedInv, CpuInv, At, PLocked
  <2>2. lk # c
    BY <1>1 DEF SchedInv, LkInv, LkLocked, At
  <2>3. \A p \in Procs : plock[p] = c => p = proc[c]
    BY <1>1 DEF SchedInv, OffInv, On
  <2> QED
    BY <2>1, <2>2, <2>3
<1>2. SchedInv => SwtchSafe
  BY <1>1 DEF SchedInv, SwtchSafe
<1> QED
  BY <1>2, SchedInvariant, PTL
=============================================================================
