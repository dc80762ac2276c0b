-------------------------------- MODULE Pipe --------------------------------
(***************************************************************************)
(* Pipes, kernel/pipe.c: several processes share the write end and several *)
(* the read end.  pi->lock is held across steps, since killed() looks at   *)
(* p->killed, which kill() may set at any time; a byte is one step.  The   *)
(* counters nread and nwrite are unsigned and wrap: W stands for 2^32.     *)
(* sleep() releases pi->lock and sleeps in one step, and wakeup() is part  *)
(* of its caller's step (module Sched is about both).                      *)
(***************************************************************************)
EXTENDS Naturals, Sequences, FiniteSets

CONSTANTS Writers, Readers,  \* processes that have the end open
          Killable,          \* those somebody kills
          MaxKilled,         \* bound: how many of them
          Bytes, Sizes,      \* bytes written; lengths of reads and writes
          PIPESIZE, W,       \* size of data[]; range of the counters
          NoProc

Procs == Writers \cup Readers

ASSUME PipeAssumption ==
  /\ PIPESIZE \in Nat \ {0} /\ W \in Nat \ {0} /\ W % PIPESIZE = 0 /\ PIPESIZE < W
  /\ Sizes \subseteq Nat /\ Writers \cap Readers = {} /\ NoProc \notin Procs

VARIABLES
  data, nread, nwrite, readopen, writeopen,  \* struct pipe
  lock,     \* pi->lock: its holder, or NoProc
  pc,       \* where each process stands
  left,     \* n - i: bytes the call still has to transfer
  killed,   \* p->killed
  last      \* the byte piperead() took out last

pipevars == <<data, nread, nwrite, readopen, writeopen, last>>
vars == <<data, nread, nwrite, readopen, writeopen, lock, pc, left, killed, last>>

\* pipealloc(), on a page that kalloc() has filled with one byte.
Init ==
  /\ \E v \in Bytes : data = [i \in 0 .. PIPESIZE - 1 |-> v] /\ last = v
  /\ nread = 0 /\ nwrite = 0
  /\ readopen = 1 /\ writeopen = 1 /\ lock = NoProc
  /\ pc = [p \in Procs |-> "user"] /\ left = [p \in Procs |-> 0]
  /\ killed = [p \in Procs |-> 0]

\* Mutant of Full: no wrapping.
Full_wide == nwrite = nread + PIPESIZE
Full == nwrite = (nread + PIPESIZE) % W
Empty == nread = nwrite

\* wakeup() of the processes P: those asleep go on to reacquire pi->lock.
Wake(P) == [p \in Procs |-> IF p \in P /\ pc[p] = "asleep" THEN "acquire" ELSE pc[p]]
Goto(p, l) == pc' = [pc EXCEPT ![p] = l]

\* read(2) or write(2) of n bytes; left[p] is 0 outside a call.
call(p, n) ==
  /\ pc[p] = "user" /\ killed[p] = 0
  /\ left' = [left EXCEPT ![p] = n] /\ Goto(p, "acquire")
  /\ UNCHANGED <<pipevars, lock, killed>>

acquire(p) ==
  /\ pc[p] = "acquire" /\ lock = NoProc
  /\ lock' = p /\ Goto(p, "loop")
  /\ UNCHANGED <<pipevars, left, killed>>
-----------------------------------------------------------------------------
(* pipewrite()                                                             *)

pipewrite_check(p) ==
  /\ p \in Writers /\ pc[p] = "loop" /\ left[p] > 0
  /\ IF readopen = 0 \/ killed[p] = 1
     THEN lock' = NoProc /\ Goto(p, "user") /\ left' = [left EXCEPT ![p] = 0]
     ELSE lock' = lock /\ Goto(p, "body") /\ left' = left
  /\ UNCHANGED <<pipevars, killed>>

pipewrite_full(p) ==
  /\ p \in Writers /\ pc[p] = "body" /\ Full
  /\ pc' = [Wake(Readers) EXCEPT ![p] = "asleep"] /\ lock' = NoProc
  /\ UNCHANGED <<pipevars, left, killed>>

\* Mutant of pipewrite_copy: i is not advanced.
pipewrite_copy_stuck(p, v) ==
  /\ p \in Writers /\ pc[p] = "body" /\ ~Full
  /\ data' = [data EXCEPT ![nwrite % PIPESIZE] = v]
  /\ nwrite' = (nwrite + 1) % W
  /\ Goto(p, "loop")
  /\ UNCHANGED <<nread, readopen, writeopen, last, lock, left, killed>>
pipewrite_copy(p, v) ==
  /\ p \in Writers /\ pc[p] = "body" /\ ~Full
  /\ data' = [data EXCEPT ![nwrite % PIPESIZE] = v]
  /\ nwrite' = (nwrite + 1) % W
  /\ left' = [left EXCEPT ![p] = @ - 1] /\ Goto(p, "loop")
  /\ UNCHANGED <<nread, readopen, writeopen, last, lock, killed>>

\* All bytes are written, or copyin() failed.
pipewrite_end(p) ==
  /\ p \in Writers
  /\ \/ pc[p] = "loop" /\ left[p] = 0
     \/ pc[p] = "body" /\ ~Full
  /\ pc' = [Wake(Readers) EXCEPT ![p] = "user"] /\ lock' = NoProc
  /\ left' = [left EXCEPT ![p] = 0]
  /\ UNCHANGED <<pipevars, killed>>
-----------------------------------------------------------------------------
(* piperead()                                                              *)

\* Mutant of piperead_check: pi->lock is released before sleep().
piperead_check_unlock(p) ==
  /\ p \in Readers /\ pc[p] = "loop" /\ Empty /\ writeopen = 1
  /\ lock' = NoProc /\ Goto(p, IF killed[p] = 1 THEN "user" ELSE "sleep")
  /\ UNCHANGED <<pipevars, left, killed>>
piperead_check(p) ==
  /\ p \in Readers /\ pc[p] = "loop" /\ Empty /\ writeopen = 1
  /\ IF killed[p] = 1
     THEN lock' = NoProc /\ Goto(p, "user") /\ left' = [left EXCEPT ![p] = 0]
     ELSE lock' = lock /\ Goto(p, "sleep") /\ left' = left
  /\ UNCHANGED <<pipevars, killed>>

piperead_sleep(p) ==
  /\ pc[p] = "sleep" /\ Goto(p, "asleep") /\ lock' = NoProc
  /\ UNCHANGED <<pipevars, left, killed>>

Ready(p) == p \in Readers /\ (pc[p] = "copy" \/ (pc[p] = "loop" /\ ~(Empty /\ writeopen = 1)))

\* One byte, and copyout(): if it fails the loop ends and the byte is gone.
piperead_copy(p) ==
  /\ Ready(p) /\ left[p] > 0 /\ ~Empty
  /\ last' = data[nread % PIPESIZE] /\ nread' = (nread + 1) % W
  /\ \E l \in {0, left[p] - 1} : left' = [left EXCEPT ![p] = l]
  /\ Goto(p, "copy")
  /\ UNCHANGED <<data, nwrite, readopen, writeopen, lock, killed>>

piperead_end(p) ==
  /\ Ready(p) /\ (left[p] = 0 \/ Empty)
  /\ pc' = [Wake(Writers) EXCEPT ![p] = "user"] /\ lock' = NoProc
  /\ left' = [left EXCEPT ![p] = 0]
  /\ UNCHANGED <<pipevars, killed>>
-----------------------------------------------------------------------------
\* fileclose(), by close(2) or exit(); pipeclose() when the last process that
\* shares the end closes it.
Last(p, P) == p \in P /\ \A q \in P \ {p} : pc[q] = "closed"
close(p) ==
  /\ pc[p] = "user"
  /\ Last(p, Writers) \/ Last(p, Readers) => lock = NoProc
  /\ writeopen' = IF Last(p, Writers) THEN 0 ELSE writeopen
  /\ readopen' = IF Last(p, Readers) THEN 0 ELSE readopen
  /\ pc' = [Wake(IF Last(p, Writers) THEN Readers
                 ELSE IF Last(p, Readers) THEN Writers ELSE {}) EXCEPT ![p] = "closed"]
  /\ UNCHANGED <<data, nread, nwrite, last, lock, left, killed>>

kill(p) ==
  /\ p \in Killable /\ killed[p] = 0 /\ pc[p] # "closed"
  /\ Cardinality({q \in Procs : killed[q] = 1}) < MaxKilled
  /\ killed' = [killed EXCEPT ![p] = 1]
  /\ pc' = Wake({p})
  /\ UNCHANGED <<pipevars, lock, left>>

KernelStep(p) ==
  \/ acquire(p)
  \/ pipewrite_check(p) \/ pipewrite_full(p) \/ pipewrite_end(p)
  \/ \E v \in Bytes : pipewrite_copy(p, v)
  \/ piperead_check(p) \/ piperead_sleep(p) \/ piperead_copy(p) \/ piperead_end(p)

\* Everybody has closed the pipe, and it is freed.
Closed == (\A p \in Procs : pc[p] = "closed") /\ UNCHANGED vars

Next == \/ \E p \in Procs : \/ KernelStep(p) \/ close(p) \/ kill(p)
                            \/ \E n \in Sizes : call(p, n)
        \/ Closed

Spec == Init /\ [][Next]_vars

\* Processes in the kernel run on and get pi->lock (module Sched); a program
\* keeps using its end of the pipe until it closes it, and does not pass a bad
\* buffer forever.
FairSpec ==
  /\ Spec
  /\ \A p \in Procs : SF_vars(KernelStep(p)) /\ WF_vars(close(p) \/ \E n \in Sizes : call(p, n))
  /\ \A p \in Writers : SF_vars(\E v \in Bytes : pipewrite_copy(p, v))
-----------------------------------------------------------------------------
(* Properties                                                              *)

\* Every variable keeps to its values, the counters to the range of uint.
TypeOK ==
  /\ data \in [0 .. PIPESIZE - 1 -> Bytes] /\ last \in Bytes
  /\ nread \in 0 .. W - 1 /\ nwrite \in 0 .. W - 1
  /\ readopen \in {0, 1} /\ writeopen \in {0, 1} /\ lock \in Procs \cup {NoProc}
  /\ pc \in [Procs -> {"user", "acquire", "loop", "body", "sleep", "copy", "asleep", "closed"}]
  /\ left \in [Procs -> Nat] /\ killed \in [Procs -> {0, 1}]

\* Bytes in the pipe, across the wrapping of the counters.
Count == (nwrite + W - nread) % W
Queue == [i \in 1 .. Count |-> data[(nread + i - 1) % PIPESIZE]]
Abs == INSTANCE ByteQueue WITH Capacity <- PIPESIZE, queue <- Queue

\* Readers take out the bytes the writers put in, each once and in order, with
\* at most PIPESIZE in between, even when the counters wrap and several
\* processes share an end.
Fifo == Abs!Spec

\* No wakeup is lost.  A writer sleeps only while the pipe is full and can still
\* be read from: nobody who makes room or closes the read end forgets it.  A
\* reader sleeps only while the pipe is empty and can still be written to
\* (pipe.c:113, "pipe-empty"), as long as no writer is killed: a killed writer
\* returns at pipe.c:84-87 without the wakeup() that its bytes call for.
PipeAwake == TypeOK /\ (lock = NoProc =>
  /\ \A p \in Writers : pc[p] = "asleep" => Full /\ readopen = 1
  /\ (\A p \in Writers : killed[p] = 0) =>
       \A p \in Readers : pc[p] = "asleep" => Empty /\ writeopen = 1)

\* A read or write that has started returns, as long as the processes at the
\* other end go on reading, writing or closing.  A process that shares its end
\* may find the pipe full (or empty) each time it gets pi->lock, so this is said
\* of the last process that has the end open.
Alone(p) == \A q \in Procs \ {p} : (q \in Writers <=> p \in Writers) => pc[q] = "closed"
CallReturns == \A p \in Procs : (pc[p] = "acquire" /\ Alone(p)) ~> pc[p] = "user"
=============================================================================
