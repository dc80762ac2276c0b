------------------------------- MODULE Sched -------------------------------
(***************************************************************************)
(* sleep(), wakeup(), sched(), yield(), kill() and scheduler() of          *)
(* kernel/proc.c at the granularity of their spinlocks, with the sleep     *)
(* lock of kernel/sleeplock.c as the client: NPROC processes on several    *)
(* CPUs compete for one sleep lock.  p->lock and the spinlock lk->lk are   *)
(* held by CPUs, so p->lock passes between a process and the scheduler     *)
(* across swtch().  A spinlock section that touches one process only       *)
(* (wakeup's and kill's visit of a slot) is one step.                      *)
(***************************************************************************)
EXTENDS Naturals, FiniteSets

CONSTANTS NPROC,   \* slots of proc[]
          CPUs,    \* running hardware threads
          Free,    \* "no CPU": the spinlock is free
          NoProc   \* "no process"

Procs == 1 .. NPROC

ASSUME SchedAssumption ==
  NPROC \in Nat \ {0} /\ Free \notin CPUs /\ NoProc \notin Procs

VARIABLES
  state,    \* p->state
  chan,     \* p->chan: 1 while sleeping on the sleep lock, else 0
  plock,    \* p->lock: the CPU that holds it, or Free
  kpc,      \* where each process's kernel thread stands
  ret,      \* where yield() returns to
  wi,       \* loop index of wakeup()
  proc,     \* c->proc
  spc,      \* where each CPU's scheduler() stands
  si,       \* loop index of scheduler()
  lk,       \* lk->lk, the spinlock of the sleep lock
  locked    \* the process that holds the sleep lock (lk->locked, lk->pid), or NoProc

vars == <<state, chan, plock, kpc, ret, wi, proc, spc, si, lk, locked>>
cpuvars == <<proc, spc, si>>

\* Every process is a forked child that has not run yet.
Init ==
  /\ state = [p \in Procs |-> "RUNNABLE"] /\ chan = [p \in Procs |-> 0]
  /\ plock = [p \in Procs |-> Free]
  /\ kpc = [p \in Procs |-> "resumed"] /\ ret = [p \in Procs |-> "user"]
  /\ wi = [p \in Procs |-> 1]
  /\ proc = [c \in CPUs |-> NoProc] /\ spc = [c \in CPUs |-> "scan"]
  /\ si = [c \in CPUs |-> 1]
  /\ lk = Free /\ locked = NoProc

\* The process on CPU c is at label l of its kernel code.
At(c, l) == spc[c] = "run" /\ kpc[proc[c]] = l
Goto(c, l) == kpc' = [kpc EXCEPT ![proc[c]] = l]
-----------------------------------------------------------------------------
(* scheduler(): scan proc[], swtch to a RUNNABLE process, release its lock  *)

NextSlot(i) == IF i = NPROC THEN 1 ELSE i + 1

scheduler_skip(c) ==
  /\ spc[c] = "scan" /\ plock[si[c]] = Free /\ state[si[c]] # "RUNNABLE"
  /\ si' = [si EXCEPT ![c] = NextSlot(@)]
  /\ UNCHANGED <<state, chan, plock, kpc, ret, wi, proc, spc, lk, locked>>

\* Mutant of scheduler_run: p->state is tested without p->lock.
scheduler_run_unlocked(c) ==
  /\ spc[c] = "scan" /\ state[si[c]] = "RUNNABLE"
  /\ plock' = [plock EXCEPT ![si[c]] = c]
  /\ state' = [state EXCEPT ![si[c]] = "RUNNING"]
  /\ proc' = [proc EXCEPT ![c] = si[c]]
  /\ spc' = [spc EXCEPT ![c] = "run"]
  /\ UNCHANGED <<chan, kpc, ret, wi, si, lk, locked>>
scheduler_run(c) ==
  /\ spc[c] = "scan" /\ plock[si[c]] = Free /\ state[si[c]] = "RUNNABLE"
  /\ plock' = [plock EXCEPT ![si[c]] = c]
  /\ state' = [state EXCEPT ![si[c]] = "RUNNING"]
  /\ proc' = [proc EXCEPT ![c] = si[c]]
  /\ spc' = [spc EXCEPT ![c] = "run"]
  /\ UNCHANGED <<chan, kpc, ret, wi, si, lk, locked>>

\* Mutant of scheduler_back: the scan starts over after each process.
scheduler_back_restart(c) ==
  /\ spc[c] = "back"
  /\ proc' = [proc EXCEPT ![c] = NoProc]
  /\ plock' = [plock EXCEPT ![si[c]] = Free]
  /\ si' = [si EXCEPT ![c] = 1]
  /\ spc' = [spc EXCEPT ![c] = "scan"]
  /\ UNCHANGED <<state, chan, kpc, ret, wi, lk, locked>>
scheduler_back(c) ==
  /\ spc[c] = "back"
  /\ proc' = [proc EXCEPT ![c] = NoProc]
  /\ plock' = [plock EXCEPT ![si[c]] = Free]
  /\ si' = [si EXCEPT ![c] = NextSlot(@)]
  /\ spc' = [spc EXCEPT ![c] = "scan"]
  /\ UNCHANGED <<state, chan, kpc, ret, wi, lk, locked>>

\* sched(): swtch to the scheduler with p->lock held.
sched(c) ==
  /\ \/ At(c, "sched_sleep") /\ Goto(c, "woken")
     \/ At(c, "sched_yield") /\ Goto(c, "resumed")
  /\ spc' = [spc EXCEPT ![c] = "back"]
  /\ UNCHANGED <<state, chan, plock, ret, wi, proc, si, lk, locked>>
-----------------------------------------------------------------------------
(* yield(), forkret()                                                      *)

\* A timer interrupt, possible where no spinlock is held.
yield(c) ==
  /\ \E l \in {"user", "holds"} :
       At(c, l) /\ ret' = [ret EXCEPT ![proc[c]] = l]
  /\ plock[proc[c]] = Free
  /\ plock' = [plock EXCEPT ![proc[c]] = c]
  /\ state' = [state EXCEPT ![proc[c]] = "RUNNABLE"]
  /\ Goto(c, "sched_yield")
  /\ UNCHANGED <<chan, wi, cpuvars, lk, locked>>

\* The end of yield(), and forkret() for a new process: release p->lock.
resume(c) ==
  /\ At(c, "resumed")
  /\ plock' = [plock EXCEPT ![proc[c]] = Free]
  /\ Goto(c, ret[proc[c]])
  /\ UNCHANGED <<state, chan, ret, wi, cpuvars, lk, locked>>
-----------------------------------------------------------------------------
(* sleep()                                                                 *)

sleep_acquire(c) ==
  /\ At(c, "sleep") /\ plock[proc[c]] = Free
  /\ plock' = [plock EXCEPT ![proc[c]] = c]
  /\ Goto(c, "sleep_release")
  /\ UNCHANGED <<state, chan, ret, wi, cpuvars, lk, locked>>

sleep_release(c) ==
  /\ At(c, "sleep_release")
  /\ lk' = Free
  /\ Goto(c, "sleep_state")
  /\ UNCHANGED <<state, chan, plock, ret, wi, cpuvars, locked>>

sleep_state(c) ==
  /\ At(c, "sleep_state")
  /\ chan' = [chan EXCEPT ![proc[c]] = 1]
  /\ state' = [state EXCEPT ![proc[c]] = "SLEEPING"]
  /\ Goto(c, "sched_sleep")
  /\ UNCHANGED <<plock, ret, wi, cpuvars, lk, locked>>

\* Back from sched(): tidy up, release p->lock, reacquire lk.
sleep_woken(c) ==
  /\ At(c, "woken")
  /\ chan' = [chan EXCEPT ![proc[c]] = 0]
  /\ plock' = [plock EXCEPT ![proc[c]] = Free]
  /\ Goto(c, "acquiresleep")
  /\ UNCHANGED <<state, ret, wi, cpuvars, lk, locked>>
-----------------------------------------------------------------------------
(* acquiresleep(), releasesleep(), wakeup(), kill()                        *)

acquiresleep_call(c) ==
  /\ At(c, "user") /\ Goto(c, "acquiresleep")
  /\ UNCHANGED <<state, chan, plock, ret, wi, cpuvars, lk, locked>>

acquiresleep_acquire(c) ==
  /\ At(c, "acquiresleep") /\ lk = Free
  /\ lk' = c /\ Goto(c, "test")
  /\ UNCHANGED <<state, chan, plock, ret, wi, cpuvars, locked>>

acquiresleep_wait(c) ==
  /\ At(c, "test") /\ locked # NoProc
  /\ Goto(c, "sleep")
  /\ UNCHANGED <<state, chan, plock, ret, wi, cpuvars, lk, locked>>

\* Mutant of acquiresleep_take: lk->locked is not tested.
acquiresleep_take_untested(c) ==
  /\ At(c, "test")
  /\ locked' = proc[c] /\ lk' = Free /\ Goto(c, "holds")
  /\ UNCHANGED <<state, chan, plock, ret, wi, cpuvars>>
acquiresleep_take(c) ==
  /\ At(c, "test") /\ locked = NoProc
  /\ locked' = proc[c] /\ lk' = Free /\ Goto(c, "holds")
  /\ UNCHANGED <<state, chan, plock, ret, wi, cpuvars>>

releasesleep_acquire(c) ==
  /\ At(c, "holds") /\ lk = Free
  /\ lk' = c /\ Goto(c, "releasesleep")
  /\ UNCHANGED <<state, chan, plock, ret, wi, cpuvars, locked>>

\* Mutant of releasesleep_free: no wakeup(lk).
releasesleep_free_silent(c) ==
  /\ At(c, "releasesleep")
  /\ locked' = NoProc /\ Goto(c, "wakeup")
  /\ wi' = [wi EXCEPT ![proc[c]] = NPROC + 1]
  /\ UNCHANGED <<state, chan, plock, ret, cpuvars, lk>>
releasesleep_free(c) ==
  /\ At(c, "releasesleep")
  /\ locked' = NoProc /\ Goto(c, "wakeup")
  /\ wi' = [wi EXCEPT ![proc[c]] = 1]
  /\ UNCHANGED <<state, chan, plock, ret, cpuvars, lk>>

\* One visit of wakeup(): another process's slot under its p->lock.
Wakes(q) == state[q] = "SLEEPING" /\ chan[q] = 1
\* Mutant of wakeup_visit: the slot is read without its p->lock.
wakeup_visit_unlocked(c) ==
  LET q == wi[proc[c]] IN
  /\ At(c, "wakeup") /\ q <= NPROC
  /\ state' = IF q # proc[c] /\ Wakes(q) THEN [state EXCEPT ![q] = "RUNNABLE"] ELSE state
  /\ wi' = [wi EXCEPT ![proc[c]] = q + 1]
  /\ UNCHANGED <<chan, plock, kpc, ret, cpuvars, lk, locked>>
wakeup_visit(c) ==
  LET q == wi[proc[c]] IN
  /\ At(c, "wakeup") /\ q <= NPROC
  /\ q # proc[c] => plock[q] = Free
  /\ state' = IF q # proc[c] /\ Wakes(q) THEN [state EXCEPT ![q] = "RUNNABLE"] ELSE state
  /\ wi' = [wi EXCEPT ![proc[c]] = q + 1]
  /\ UNCHANGED <<chan, plock, kpc, ret, cpuvars, lk, locked>>

releasesleep_done(c) ==
  /\ At(c, "wakeup") /\ wi[proc[c]] > NPROC
  /\ lk' = Free /\ Goto(c, "user")
  /\ UNCHANGED <<state, chan, plock, ret, wi, cpuvars, locked>>

\* kill(pid of q): a sleeping victim is woken whatever it waits for.
kill(c, q) ==
  /\ At(c, "user") /\ plock[q] = Free
  /\ state' = IF state[q] = "SLEEPING" THEN [state EXCEPT ![q] = "RUNNABLE"] ELSE state
  /\ UNCHANGED <<chan, plock, kpc, ret, wi, cpuvars, lk, locked>>
-----------------------------------------------------------------------------
\* Steps a thread takes without a choice of its own.
KernelStep(c) ==
  \/ scheduler_skip(c) \/ scheduler_run(c) \/ scheduler_back(c) \/ sched(c)
  \/ yield(c) \/ resume(c)
  \/ sleep_acquire(c) \/ sleep_release(c) \/ sleep_state(c) \/ sleep_woken(c)
  \/ acquiresleep_acquire(c) \/ acquiresleep_wait(c) \/ acquiresleep_take(c)
  \/ releasesleep_acquire(c) \/ releasesleep_free(c) \/ wakeup_visit(c)
  \/ releasesleep_done(c)

Next == \E c \in CPUs : \/ KernelStep(c) \/ acquiresleep_call(c)
                        \/ \E q \in Procs : kill(c, q)

Spec == Init /\ [][Next]_vars

\* Every CPU keeps executing instructions.  A timer interrupt stays pending
\* until interrupts are on, so a CPU that enables them again and again takes it:
\* strong fairness of yield().  Spinlocks are not assumed fair.
FairSpec == Spec /\ \A c \in CPUs : WF_vars(KernelStep(c)) /\ SF_vars(yield(c))

\* A CPU spinning in acquire() on a lock that is released again and again gets
\* it.  This is an assumption about amoswap under contention, not something
\* spinlock.c enforces.
FairSpinlocks == \A c \in CPUs : SF_vars(KernelStep(c))
-----------------------------------------------------------------------------
(* Properties                                                              *)

\* Every variable keeps to its values; loop indices stay inside proc[].
TypeOK ==
  /\ state \in [Procs -> {"RUNNABLE", "RUNNING", "SLEEPING"}]
  /\ chan \in [Procs -> {0, 1}] /\ plock \in [Procs -> CPUs \cup {Free}]
  /\ kpc \in [Procs -> {"user", "acquiresleep", "test", "sleep", "sleep_release",
                        "sleep_state", "sched_sleep", "woken", "holds", "releasesleep",
                        "wakeup", "sched_yield", "resumed"}]
  /\ ret \in [Procs -> {"user", "holds"}] /\ wi \in [Procs -> 1 .. NPROC + 1]
  /\ proc \in [CPUs -> Procs \cup {NoProc}]
  /\ spc \in [CPUs -> {"scan", "run", "back"}] /\ si \in [CPUs -> Procs]
  /\ lk \in CPUs \cup {Free} /\ locked \in Procs \cup {NoProc}

\* p is between acquiresleep() and the assignment in releasesleep().
Holding(p) == \/ kpc[p] \in {"holds", "releasesleep"}
              \/ kpc[p] \in {"sched_yield", "resumed"} /\ ret[p] = "holds"

\* Sleep locks exclude each other: the one process inside the critical section
\* is the one lk->pid names, even across preemption (sleeplock.c:21-41).
SleepMutex == \A p \in Procs : Holding(p) <=> locked = p

\* No lost wakeup (proc.c:540-545): while a process sleeps on the sleep lock,
\* the lock is held or a releasing process has yet to visit the sleeper.
NoLostWakeup ==
  \A p \in Procs : state[p] = "SLEEPING" =>
     locked # NoProc \/ \E q \in Procs : kpc[q] = "wakeup" /\ wi[q] <= p

\* A kernel thread runs on one CPU at a time.
OneCpu == \A c, d \in CPUs : c # d /\ spc[c] # "scan" /\ spc[d] # "scan"
                               => proc[c] # proc[d]

\* The panics of sched(): p->lock is held, it is the only spinlock held
\* (noff = 1), and p->state has changed.
SchedAsserts ==
  \A c \in CPUs : At(c, "sched_sleep") \/ At(c, "sched_yield") =>
     /\ plock[proc[c]] = c /\ lk # c
     /\ \A p \in Procs : plock[p] = c => p = proc[c]
     /\ state[proc[c]] # "RUNNING"

\* The handover of p->lock through swtch() is safe: a kernel thread never runs
\* on two CPUs at once, although wakeup() and yield() make a process RUNNABLE
\* before it has left its CPU, and no assertion of sched() fails.
SwtchSafe == TypeOK /\ OneCpu /\ SchedAsserts

\* scheduler() is round-robin: a RUNNABLE process gets a CPU.
RunnableRuns == \A p \in Procs : state[p] = "RUNNABLE" ~> state[p] = "RUNNING"

\* A free sleep lock with a process waiting for it does not stay free, if
\* spinlocks are fair: releasesleep() wakes a waiter that takes the lock.
Waiting(p) == kpc[p] \in {"acquiresleep", "test", "sleep", "sleep_release", "sleep_state",
                          "sched_sleep", "woken"}
FreeLockTaken ==
  FairSpinlocks => ((locked = NoProc /\ \E p \in Procs : Waiting(p)) ~> (locked # NoProc))
=============================================================================
