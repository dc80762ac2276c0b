------------------------------ MODULE ProcLife ------------------------------
(***************************************************************************)
(* The life of a process, kernel/proc.c: fork, exit, wait, kill, and the   *)
(* process table they share, with user/init.c as the program of the first  *)
(* process.  wait_lock is held across steps; a section under one p->lock   *)
(* is one step, except that an exiting process keeps its own p->lock until *)
(* the scheduler has left its stack.  RUNNABLE stands for RUNNABLE and     *)
(* RUNNING, and sleep() is one step: module Sched is about both.           *)
(***************************************************************************)
EXTENDS Naturals, FiniteSets

CONSTANTS Procs,     \* slots of proc[]
          init,      \* initproc
          NoProc,    \* a null struct proc*
          KillArgs,  \* pids that programs pass to kill()
          MaxPid     \* bound on nextpid

ASSUME ProcAssumption ==
  /\ init \in Procs /\ NoProc \notin Procs /\ IsFiniteSet(Procs)
  /\ KillArgs \subseteq Nat /\ MaxPid \in Nat \ {0}

VARIABLES
  state,     \* p->state
  pid,       \* p->pid, 0 in a free slot
  parent,    \* p->parent
  killed,    \* p->killed
  pc,        \* where each process stands
  np,        \* the child a fork() in progress sets up
  waitlock,  \* the holder of wait_lock, or NoProc
  nextpid,   \* nextpid
  sh,        \* init's variable pid: the shell it waits for, 0 before fork()
  panicked   \* 1 once the kernel has stopped in panic("init exiting")

vars == <<state, pid, parent, killed, pc, np, waitlock, nextpid, sh, panicked>>

\* userinit() has set up the first process, and it runs user/init.c.
Init ==
  /\ state = [p \in Procs |-> IF p = init THEN "RUNNABLE" ELSE "UNUSED"]
  /\ pid = [p \in Procs |-> IF p = init THEN 1 ELSE 0]
  /\ parent = [p \in Procs |-> NoProc] /\ killed = [p \in Procs |-> 0]
  /\ pc = [p \in Procs |-> IF p = init THEN "user" ELSE "gone"]
  /\ np = [p \in Procs |-> NoProc]
  /\ waitlock = NoProc /\ nextpid = 2 /\ sh = 0 /\ panicked = 0

Children(p) == {q \in Procs : parent[q] = p}
Zombies(p) == {q \in Children(p) : state[q] = "ZOMBIE"}

\* p executes kernel code at label l.
At(p, l) == panicked = 0 /\ state[p] = "RUNNABLE" /\ pc[p] = l

\* p enters a system call; usertrap() has found p->killed clear.
Calls(p) == At(p, "user") /\ killed[p] = 0

Goto(p, l) == pc' = [pc EXCEPT ![p] = l]
\* A system call returns -1: init.c answers with exit(1).
Fails(p) == Goto(p, IF p = init THEN "exit" ELSE "user")
-----------------------------------------------------------------------------
(* fork()                                                                  *)

\* allocpid()
allocpid == nextpid <= MaxPid /\ nextpid' = nextpid + 1

\* init.c forks only when it has no shell.
Forks(p) == Calls(p) /\ (p = init => sh = 0)

\* allocproc() and the copying of the parent, up to release(&np->lock).  The
\* scan takes whichever slot is UNUSED when it gets there.
fork_alloc(p, q) ==
  /\ Forks(p) /\ state[q] = "UNUSED" /\ allocpid
  /\ state' = [state EXCEPT ![q] = "USED"]
  /\ pid' = [pid EXCEPT ![q] = nextpid]
  /\ np' = [np EXCEPT ![p] = q]
  /\ sh' = IF p = init THEN nextpid ELSE sh
  /\ Goto(p, "fork_parent")
  /\ UNCHANGED <<parent, killed, waitlock, panicked>>

\* kalloc() fails in allocproc() or uvmcopy(): freeproc() undoes the slot.
fork_nomem(p, q) ==
  /\ Forks(p) /\ state[q] = "UNUSED" /\ allocpid
  /\ killed' = [killed EXCEPT ![q] = 0]
  /\ Fails(p)
  /\ UNCHANGED <<state, pid, parent, np, waitlock, sh, panicked>>

\* No free slot; only init does anything about it.
fork_full ==
  /\ Forks(init) /\ \A q \in Procs : state[q] # "UNUSED"
  /\ Fails(init)
  /\ UNCHANGED <<state, pid, parent, killed, np, waitlock, nextpid, sh, panicked>>

fork_parent(p) ==
  /\ At(p, "fork_parent") /\ waitlock = NoProc
  /\ parent' = [parent EXCEPT ![np[p]] = p]
  /\ Goto(p, "fork_run")
  /\ UNCHANGED <<state, pid, killed, np, waitlock, nextpid, sh, panicked>>

fork_run(p) ==
  /\ At(p, "fork_run")
  /\ state' = [state EXCEPT ![np[p]] = "RUNNABLE"]
  /\ np' = [np EXCEPT ![p] = NoProc]
  /\ pc' = [pc EXCEPT ![p] = "user", ![np[p]] = "user"]
  /\ UNCHANGED <<pid, parent, killed, waitlock, nextpid, sh, panicked>>
-----------------------------------------------------------------------------
(* exit()                                                                  *)

\* exit(2), or usertrap() finding p->killed set.
exit_call(p) ==
  /\ At(p, "user") /\ (killed[p] = 1 \/ p # init)
  /\ Goto(p, "exit")
  /\ UNCHANGED <<state, pid, parent, killed, np, waitlock, nextpid, sh, panicked>>

\* usertrap() of a program that faults; init does not.
setkilled(p) ==
  /\ At(p, "user") /\ p # init
  /\ killed' = [killed EXCEPT ![p] = 1]
  /\ Goto(p, "exit")
  /\ UNCHANGED <<state, pid, parent, np, waitlock, nextpid, sh, panicked>>

exit_panic ==
  /\ At(init, "exit")
  /\ panicked' = 1
  /\ UNCHANGED <<state, pid, parent, killed, pc, np, waitlock, nextpid, sh>>

\* state after wakeup(q) for each q of Q: a process sleeps on its own address.
Wakeup(Q) == [q \in Procs |-> IF q \in Q /\ state[q] = "SLEEPING" THEN "RUNNABLE" ELSE state[q]]

\* Mutant of exit_reparent: children keep their parent.
exit_reparent_not(p) ==
  /\ At(p, "exit") /\ p # init /\ waitlock = NoProc
  /\ state' = Wakeup({parent[p]})
  /\ waitlock' = p /\ Goto(p, "reparented")
  /\ UNCHANGED <<parent, pid, killed, np, nextpid, sh, panicked>>
\* reparent(p); wakeup(p->parent).
exit_reparent(p) ==
  /\ At(p, "exit") /\ p # init /\ waitlock = NoProc
  /\ parent' = [q \in Procs |-> IF parent[q] = p THEN init ELSE parent[q]]
  /\ state' = Wakeup({parent[p]} \cup IF Children(p) = {} THEN {} ELSE {init})
  /\ waitlock' = p /\ Goto(p, "reparented")
  /\ UNCHANGED <<pid, killed, np, nextpid, sh, panicked>>

\* From here p holds p->lock.
exit_zombie(p) ==
  /\ At(p, "reparented")
  /\ state' = [state EXCEPT ![p] = "ZOMBIE"]
  /\ waitlock' = NoProc /\ Goto(p, "swtch")
  /\ UNCHANGED <<pid, parent, killed, np, nextpid, sh, panicked>>

\* sched(); the scheduler, off p's stack, releases p->lock.
exit_swtch(p) ==
  /\ panicked = 0 /\ pc[p] = "swtch"
  /\ Goto(p, "gone")
  /\ UNCHANGED <<state, pid, parent, killed, np, waitlock, nextpid, sh, panicked>>
-----------------------------------------------------------------------------
(* wait()                                                                  *)

\* init.c waits only while it has a shell.
wait_call(p) ==
  /\ Calls(p) /\ (p = init => sh # 0)
  /\ Goto(p, "wait")
  /\ UNCHANGED <<state, pid, parent, killed, np, waitlock, nextpid, sh, panicked>>

\* acquire(&wait_lock), at the start or at the end of sleep().
wait_acquire(p) ==
  /\ At(p, "wait") /\ waitlock = NoProc
  /\ waitlock' = p /\ Goto(p, "scan")
  /\ UNCHANGED <<state, pid, parent, killed, np, nextpid, sh, panicked>>

\* Mutant of pp_lock: pp->lock is not acquired.
pp_lock_not(q) == TRUE
\* acquire(&pp->lock) does not return while q is still in exit() or swtch().
pp_lock(q) == pc[q] # "swtch"

\* freeproc(pp), return its pid.  Any zombie child may be the first in proc[].
wait_reap(p, q) ==
  /\ At(p, "scan") /\ q \in Zombies(p) /\ pp_lock(q)
  /\ state' = [state EXCEPT ![q] = "UNUSED"] /\ pid' = [pid EXCEPT ![q] = 0]
  /\ parent' = [parent EXCEPT ![q] = NoProc] /\ killed' = [killed EXCEPT ![q] = 0]
  /\ waitlock' = NoProc /\ Goto(p, "user")
  /\ sh' = IF p = init /\ pid[q] = sh THEN 0 ELSE sh
  /\ UNCHANGED <<np, nextpid, panicked>>

\* copyout() of the status fails (init passes a null address); or there are no
\* children; or p was killed: return -1.
wait_fails(p) ==
  /\ At(p, "scan")
  /\ \/ p # init /\ \E q \in Zombies(p) : pp_lock(q)
     \/ Children(p) = {}
     \/ Zombies(p) = {} /\ killed[p] = 1
  /\ waitlock' = NoProc /\ Fails(p)
  /\ UNCHANGED <<state, pid, parent, killed, np, nextpid, sh, panicked>>

\* Mutant of wait_check: wait_lock is released before sleep().
wait_check_unlock(p) ==
  /\ At(p, "scan") /\ Children(p) # {} /\ Zombies(p) = {} /\ killed[p] = 0
  /\ Goto(p, "sleep") /\ waitlock' = NoProc
  /\ UNCHANGED <<state, pid, parent, killed, np, nextpid, sh, panicked>>
wait_check(p) ==
  /\ At(p, "scan") /\ Children(p) # {} /\ Zombies(p) = {} /\ killed[p] = 0
  /\ Goto(p, "sleep")
  /\ UNCHANGED <<state, pid, parent, killed, np, waitlock, nextpid, sh, panicked>>

\* sleep(p, &wait_lock)
wait_sleep(p) ==
  /\ At(p, "sleep")
  /\ state' = [state EXCEPT ![p] = "SLEEPING"]
  /\ waitlock' = NoProc /\ Goto(p, "wait")
  /\ UNCHANGED <<pid, parent, killed, np, nextpid, sh, panicked>>

\* kill(n) by p.  A free slot has pid 0.
kill(p, n, q) ==
  /\ Calls(p) /\ p # init /\ pid[q] = n
  /\ killed' = [killed EXCEPT ![q] = 1]
  /\ state' = Wakeup({q})
  /\ UNCHANGED <<pid, parent, pc, np, waitlock, nextpid, sh, panicked>>
-----------------------------------------------------------------------------
\* Steps inside the kernel, which a process takes without choosing.
KernelStep(p) ==
  \/ fork_parent(p) \/ fork_run(p) \/ exit_reparent(p) \/ exit_zombie(p)
  \/ exit_swtch(p) \/ wait_acquire(p) \/ wait_fails(p) \/ wait_check(p)
  \/ wait_sleep(p) \/ \E q \in Procs : wait_reap(p, q)

Next ==
  \/ \E p \in Procs : \/ KernelStep(p) \/ exit_call(p) \/ setkilled(p) \/ wait_call(p)
                      \/ \E q \in Procs : fork_alloc(p, q) \/ fork_nomem(p, q)
                      \/ \E n \in KillArgs, q \in Procs : kill(p, n, q)
  \/ fork_full \/ exit_panic

Spec == Init /\ [][Next]_vars

\* Processes in the kernel run on, and a process that spins for wait_lock gets
\* it (module Sched says what this assumes); init.c keeps calling fork and wait.
Fairness ==
  /\ \A p \in Procs : SF_vars(KernelStep(p))
  /\ WF_vars(wait_call(init)) /\ WF_vars(exit_panic)
  /\ WF_vars(fork_full \/ \E q \in Procs : fork_alloc(init, q))

FairSpec == Spec /\ Fairness
-----------------------------------------------------------------------------
(* Properties                                                              *)

\* Every variable keeps to its values.
TypeOK ==
  /\ state \in [Procs -> {"UNUSED", "USED", "RUNNABLE", "SLEEPING", "ZOMBIE"}]
  /\ pid \in [Procs -> 0 .. MaxPid] /\ nextpid \in 2 .. MaxPid + 1 /\ sh \in 0 .. MaxPid
  /\ parent \in [Procs -> Procs \cup {NoProc}] /\ killed \in [Procs -> {0, 1}]
  /\ pc \in [Procs -> {"user", "fork_parent", "fork_run", "exit", "reparented", "swtch",
                       "gone", "wait", "scan", "sleep"}]
  /\ np \in [Procs -> Procs \cup {NoProc}] /\ waitlock \in Procs \cup {NoProc}
  /\ panicked \in {0, 1}

\* Every process but init has a parent that is alive and not exiting any more,
\* across reparent() and the reuse of slots, so that somebody can wait for it;
\* only a child whose fork() has not reached proc.c:318 has none, and its parent
\* will be that fork()'s caller.
ParentAlive == TypeOK /\
  \A q \in Procs \ {init} : state[q] # "UNUSED" =>
     \/ /\ parent[q] \in Procs /\ state[parent[q]] \in {"RUNNABLE", "SLEEPING"}
        /\ pc[parent[q]] # "reparented"
     \/ state[q] = "USED" /\ parent[q] = NoProc
        /\ \E p \in Procs : pc[p] = "fork_parent" /\ np[p] = q /\ state[p] = "RUNNABLE"

\* No lost wakeup in wait(): a process asleep in wait() has children and none of
\* them is a zombie, also after reparent() has given it other people's zombies.
ZombieNoticed ==
  \A p \in Procs : state[p] = "SLEEPING" => Children(p) # {} /\ Zombies(p) = {}

\* freeproc() never takes the slot, the page table or the kernel stack of a
\* process that is still in exit() or swtch() (proc.c:404).
NotFreedOnCpu ==
  \A p \in Procs : state[p] \in {"UNUSED", "USED"} => pc[p] = "gone"

\* The bound MaxPid, and nothing in the code, stops init.c's loop.
Exhausted == sh = 0 /\ nextpid > MaxPid

\* Orphans do not stay zombies: init reaps every one of them, unless it has
\* been killed itself.
OrphanReaped ==
  \A q \in Procs : (state[q] = "ZOMBIE" /\ parent[q] = init)
                     ~> (state[q] = "UNUSED" \/ panicked = 1 \/ killed[init] = 1 \/ Exhausted)
=============================================================================
