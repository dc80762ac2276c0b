------------------------------ MODULE Spinlock ------------------------------
(***************************************************************************)
(* Spinlocks and interrupts, kernel/spinlock.c: acquire, release, push_off *)
(* and pop_off, in a step for each access to memory or to a CSR that an    *)
(* interrupt or another CPU can tell from the one before; with interrupts  *)
(* between any two instructions, and sched() moving kernel threads between *)
(* CPUs in the middle of a critical section.  Threads, schedulers and      *)
(* handlers are lists of the operations that proc.c and trap.c perform.    *)
(***************************************************************************)
EXTENDS Naturals, Sequences, FiniteSets

CONSTANTS CPUs,     \* hardware threads; also names each one's scheduler context
          Threads,  \* kernel threads; also names each one's p->lock
          Lk,       \* a lock that interrupt handlers take as well (tickslock)
          NoCpu     \* lk->cpu = 0

Locks == Threads \cup {Lk}

ASSUME SpinlockAssumption ==
  CPUs \cap Threads = {} /\ Lk \notin Threads /\ NoCpu \notin CPUs

VARIABLES
  intr,           \* SSTATUS_SIE of each CPU
  noff, intena,   \* c->noff, c->intena
  cur,            \* the context each CPU executes
  frames,         \* each context: its code, and above it a trap handler
  suspended,      \* 1 for a thread that has left its CPU in sched()
  locked, lkcpu,  \* lk->locked, lk->cpu
  panicked        \* 1 after a panic() of spinlock.c or sched()

vars == <<intr, noff, intena, cur, frames, suspended, locked, lkcpu, panicked>>

Op(o, l) == [op |-> o, lk |-> l]
On == Op("intr_on", Lk)
Off == Op("intr_off", Lk)
Wakeup == Op("wakeup", Lk)

\* A piece of code about to run.  sie: what the code itself last made of SIE (a
\* trap clears it); Unset in a scheduler, and in forkret() up to usertrapret().
Unset == 2
Frame(code, s) == [todo |-> code, step |-> "start", old |-> 0, sie |-> s]

\* The thread of a new process starts in forkret() with p->lock held, and goes
\* to user space (todo = <<>>); a scheduler starts with its loop.
Init ==
  /\ intr = [c \in CPUs |-> 0] /\ noff = [c \in CPUs |-> 0] /\ intena = [c \in CPUs |-> 0]
  /\ cur = [c \in CPUs |-> c]
  /\ frames = [x \in CPUs \cup Threads |->
                 <<Frame(IF x \in CPUs THEN <<On>> ELSE <<Op("release", x), Off>>, Unset)>>]
  /\ suspended = [t \in Threads |-> 1]
  /\ locked = [l \in Locks |-> 0] /\ lkcpu = [l \in Locks |-> NoCpu]
  /\ panicked = 0
-----------------------------------------------------------------------------
(* The code that contexts run                                              *)

\* A critical section with a wakeup(), and sleep(chan, Lk) in it, as pipewrite() has.
sleep_code(t) == <<Op("acquire", Lk), Wakeup, Op("acquire", t), Op("release", Lk), Op("sched", t),
                   Op("release", t), Op("acquire", Lk), Op("release", Lk)>>
clockintr_code == <<Op("acquire", Lk), Wakeup, Op("release", Lk)>>
yield_code(t) == <<Op("acquire", t), Op("sched", t), Op("release", t)>>
killed_code(t) == <<Op("acquire", t), Op("release", t)>>
\* A slot of scheduler()'s loop.
scheduler_code(t) == <<Op("acquire", t), Op("swtch", t), Op("release", t)>>

\* usertrap() and usertrapret(): a system call, a device, or the timer, which
\* only CPU 0 counts.
usertrap_code(t) ==
  {killed_code(t) \o <<On>> \o sleep_code(t) \o killed_code(t) \o <<Off>>}
    \cup {intr_code \o killed_code(t) \o yield \o <<Off>> :
            intr_code \in {<<>>, clockintr_code}, yield \in {<<>>, yield_code(t)}}
\* kerneltrap(): a device or the timer; a scheduler has no process to yield().
kerneltrap_code(x) ==
  {clockintr_code} \cup (IF x \in Threads THEN {yield_code(x), clockintr_code \o yield_code(x)} ELSE {})
-----------------------------------------------------------------------------
Depth(c) == Len(frames[cur[c]])
Top(c) == frames[cur[c]][Depth(c)]
SetTop(c, f) == frames' = [frames EXCEPT ![cur[c]][Depth(c)] = f]
\* CPU c is at step s of operation o.
At(c, o, s) == /\ panicked = 0 /\ Top(c).todo # <<>>
               /\ Head(Top(c).todo).op = o /\ Top(c).step = s
lk(c) == Head(Top(c).todo).lk
Goto(c, s) == SetTop(c, [Top(c) EXCEPT !.step = s])
Return(c) == SetTop(c, [Top(c) EXCEPT !.todo = Tail(@), !.step = "start", !.old = 0])
panic_if(b) == panicked' = IF b THEN 1 ELSE 0

holding(c, l) == locked[l] = 1 /\ lkcpu[l] = c

\* acquire(): push_off() reads SIE, ...
push_off_get(c) ==
  /\ At(c, "acquire", "start")
  /\ SetTop(c, [Top(c) EXCEPT !.step = "off", !.old = intr[c]])
  /\ UNCHANGED <<intr, noff, intena, cur, suspended, locked, lkcpu, panicked>>
\* ... clears it, and counts; with interrupts off c->noff and c->intena are this
\* context's alone, and so is what holding() says of this CPU.
push_off_off(c) ==
  /\ At(c, "acquire", "off")
  /\ intr' = [intr EXCEPT ![c] = 0]
  /\ intena' = IF noff[c] = 0 THEN [intena EXCEPT ![c] = Top(c).old] ELSE intena
  /\ noff' = [noff EXCEPT ![c] = @ + 1]
  /\ panic_if(holding(c, lk(c))) /\ Goto(c, "spin")
  /\ UNCHANGED <<cur, suspended, locked, lkcpu>>

\* ... amoswap succeeds, and lk->cpu is set: nobody else writes it while the lock
\* is held, and what it says of this CPU only this CPU looks at.
acquire(c) ==
  /\ At(c, "acquire", "spin") /\ locked[lk(c)] = 0
  /\ locked' = [locked EXCEPT ![lk(c)] = 1] /\ lkcpu' = [lkcpu EXCEPT ![lk(c)] = c]
  /\ Return(c)
  /\ UNCHANGED <<intr, noff, intena, cur, suspended, panicked>>

\* Mutant of pop_off: interrupts come back at the first release.
pop_off_first(c) ==
  /\ panic_if(intr[c] = 1 \/ noff[c] < 1)
  /\ noff' = [noff EXCEPT ![c] = @ - 1]
  /\ intr' = IF intena[c] = 1 THEN [intr EXCEPT ![c] = 1] ELSE intr
pop_off(c) ==
  /\ panic_if(intr[c] = 1 \/ noff[c] < 1)
  /\ noff' = [noff EXCEPT ![c] = @ - 1]
  /\ intr' = IF noff[c] = 1 /\ intena[c] = 1 THEN [intr EXCEPT ![c] = 1] ELSE intr

\* release(): lk->cpu is cleared, then the lock is free for other CPUs; pop_off()
\* works on what is this CPU's alone.
release_disown(c) ==
  /\ At(c, "release", "start")
  /\ panic_if(~holding(c, lk(c)))
  /\ lkcpu' = [lkcpu EXCEPT ![lk(c)] = NoCpu] /\ Goto(c, "free")
  /\ UNCHANGED <<intr, noff, intena, cur, suspended, locked>>
release_free(c) ==
  /\ At(c, "release", "free")
  /\ locked' = [locked EXCEPT ![lk(c)] = 0] /\ pop_off(c) /\ Return(c)
  /\ UNCHANGED <<intena, cur, suspended, lkcpu>>
-----------------------------------------------------------------------------
\* sched(): save intena, swtch to the scheduler ...
sched(c) ==
  /\ At(c, "sched", "start")
  /\ panic_if(~holding(c, lk(c)) \/ noff[c] # 1 \/ intr[c] = 1)
  /\ SetTop(c, [Top(c) EXCEPT !.step = "back", !.old = intena[c]])
  /\ suspended' = [suspended EXCEPT ![cur[c]] = 1]
  /\ cur' = [cur EXCEPT ![c] = c]
  /\ UNCHANGED <<intr, noff, intena, locked, lkcpu>>
\* Mutant of sched_return: intena is left to the CPU.
sched_return_cpu(c) ==
  /\ At(c, "sched", "back") /\ Return(c)
  /\ UNCHANGED <<intr, noff, intena, cur, suspended, locked, lkcpu, panicked>>
\* ... and, some day, on some CPU, come back.
sched_return(c) ==
  /\ At(c, "sched", "back")
  /\ intena' = [intena EXCEPT ![c] = Top(c).old] /\ Return(c)
  /\ UNCHANGED <<intr, noff, cur, suspended, locked, lkcpu, panicked>>

\* scheduler(): the next slot of this scan, or intr_on() and the first of a new
\* one.  The order of the slots, and how many a scan has, are left open.
scheduler_turn(c) ==
  /\ panicked = 0 /\ cur[c] = c /\ Depth(c) = 1 /\ Top(c).todo = <<>>
  /\ \E t \in Threads, scan \in {<<>>, <<On>>} :
       SetTop(c, [Top(c) EXCEPT !.todo = scan \o scheduler_code(t)])
  /\ UNCHANGED <<intr, noff, intena, cur, suspended, locked, lkcpu, panicked>>
\* swtch() to the thread if it can run; sched() comes back behind it.
scheduler_swtch(c) ==
  /\ At(c, "swtch", "start") /\ Return(c)
  /\ IF suspended[lk(c)] = 1
     THEN /\ suspended' = [suspended EXCEPT ![lk(c)] = 0]
          /\ cur' = [cur EXCEPT ![c] = lk(c)]
     ELSE UNCHANGED <<suspended, cur>>
  /\ UNCHANGED <<intr, noff, intena, locked, lkcpu, panicked>>

\* intr_on() and intr_off() in the code itself.
intr_on(c) ==
  /\ At(c, "intr_on", "start") /\ intr' = [intr EXCEPT ![c] = 1]
  /\ SetTop(c, [Top(c) EXCEPT !.todo = Tail(@), !.sie = IF cur[c] = c THEN Unset ELSE 1])
  /\ UNCHANGED <<noff, intena, cur, suspended, locked, lkcpu, panicked>>
intr_off(c) ==
  /\ At(c, "intr_off", "start") /\ intr' = [intr EXCEPT ![c] = 0]
  /\ SetTop(c, [Top(c) EXCEPT !.todo = Tail(@), !.sie = 0])
  /\ UNCHANGED <<noff, intena, cur, suspended, locked, lkcpu, panicked>>

\* wakeup(): another slot, or return; again in any order and any number.
wakeup_slot(c) ==
  /\ At(c, "wakeup", "start")
  /\ \E q \in Threads \ {cur[c]} :
       SetTop(c, [Top(c) EXCEPT !.todo = <<Op("acquire", q), Op("release", q)>> \o @])
  /\ UNCHANGED <<intr, noff, intena, cur, suspended, locked, lkcpu, panicked>>
wakeup_return(c) ==
  /\ At(c, "wakeup", "start") /\ Return(c)
  /\ UNCHANGED <<intr, noff, intena, cur, suspended, locked, lkcpu, panicked>>

\* A thread traps from user space; stvec is kernelvec until usertrapret().
usertrap(c) ==
  /\ panicked = 0 /\ cur[c] \in Threads /\ Depth(c) = 1 /\ Top(c).todo = <<>>
  /\ \E code \in usertrap_code(cur[c]) : SetTop(c, Frame(code, 0))
  /\ UNCHANGED <<intr, noff, intena, cur, suspended, locked, lkcpu, panicked>>

\* An interrupt in the kernel: the hardware clears SIE, kernelvec calls kerneltrap().
kerneltrap(c) ==
  /\ panicked = 0 /\ intr[c] = 1
  /\ intr' = [intr EXCEPT ![c] = 0]
  /\ \E code \in kerneltrap_code(cur[c]) :
       frames' = [frames EXCEPT ![cur[c]] = Append(@, Frame(code, 0))]
  /\ UNCHANGED <<noff, intena, cur, suspended, locked, lkcpu, panicked>>
sret(c) ==
  /\ panicked = 0 /\ Depth(c) > 1 /\ Top(c).todo = <<>>
  /\ intr' = [intr EXCEPT ![c] = 1]
  /\ frames' = [frames EXCEPT ![cur[c]] = SubSeq(@, 1, Len(@) - 1)]
  /\ UNCHANGED <<noff, intena, cur, suspended, locked, lkcpu, panicked>>

Next == \E c \in CPUs :
  \/ push_off_get(c) \/ push_off_off(c) \/ acquire(c)
  \/ release_disown(c) \/ release_free(c)
  \/ sched(c) \/ sched_return(c) \/ scheduler_turn(c) \/ scheduler_swtch(c)
  \/ intr_on(c) \/ intr_off(c) \/ wakeup_slot(c) \/ wakeup_return(c)
  \/ usertrap(c) \/ kerneltrap(c) \/ sret(c)

Spec == Init /\ [][Next]_vars
-----------------------------------------------------------------------------
(* Properties                                                              *)

\* Every variable keeps to its values.
TypeOK ==
  /\ intr \in [CPUs -> {0, 1}] /\ intena \in [CPUs -> {0, 1}] /\ noff \in [CPUs -> 0 .. 2]
  /\ cur \in [CPUs -> CPUs \cup Threads] /\ suspended \in [Threads -> {0, 1}]
  /\ locked \in [Locks -> {0, 1}] /\ lkcpu \in [Locks -> CPUs \cup {NoCpu}]
  /\ panicked \in {0, 1}

\* No assertion of spinlock.c or sched() fails: a CPU does not acquire a lock it
\* holds or release one it does not, push_off() and pop_off() match, and a
\* thread leaves its CPU with one lock held and interrupts off.  A CPU that
\* holds a spinlock takes no interrupt, so a handler never spins for a lock its
\* own CPU holds (spinlock.c:24).
LocksSound ==
  /\ TypeOK /\ panicked = 0
  /\ \A l \in Locks, c \in CPUs : holding(c, l) => intr[c] = 0

\* Matched push_off() and pop_off() leave interrupts as they were: with no lock
\* held they are on from usertrap()'s intr_on() to usertrapret(), and off in a
\* handler and in the rest of usertrap(), whatever happened in between to
\* c->intena on this CPU or on the one the thread came from.
IntrRestored ==
  \A c \in CPUs : noff[c] = 0 /\ Top(c).sie # Unset => intr[c] = Top(c).sie
=============================================================================
