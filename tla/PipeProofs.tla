----------------------------- MODULE PipeProofs -----------------------------
(***************************************************************************)
(* Proofs about module Pipe, for every number of readers and writers and   *)
(* every size of the buffer and the counters: no wakeup is lost, and the   *)
(* pipe is a queue although nread and nwrite wrap.                         *)
(***************************************************************************)
EXTENDS Pipe, Rings, SequenceTheorems

USE PipeAssumption

\* Where a process holds pi->lock.
Locked == {"loop", "body", "sleep", "copy"}

\* pi->lock has one holder, and an end that is closed has no users.
LockInv ==
  /\ \A p \in Procs : pc[p] \in Locked <=> lock = p
  /\ readopen = 0 => \A p \in Readers : pc[p] = "closed"
  /\ writeopen = 0 => \A p \in Writers : pc[p] = "closed"

\* What a process has tested under pi->lock.
TestedInv ==
  /\ \A p \in Writers : /\ pc[p] \notin {"sleep", "copy"}
                        /\ pc[p] = "body" => readopen = 1 /\ left[p] > 0
  /\ \A p \in Readers : /\ pc[p] # "body"
                        /\ pc[p] = "sleep" => Empty /\ writeopen = 1

\* Sleepers may be overtaken only by the holder of pi->lock, who has bytes or
\* room to announce and will do so before the lock is released.
AwakeInv ==
  /\ \A p \in Writers : pc[p] = "asleep" =>
       \/ Full /\ readopen = 1
       \/ \E q \in Readers : pc[q] = "copy"
  /\ (\A p \in Writers : killed[p] = 0) =>
       \A p \in Readers : pc[p] = "asleep" =>
         \/ Empty /\ writeopen = 1
         \/ \E q \in Writers : pc[q] \in {"loop", "body"}

PipeInv == TypeOK /\ LockInv /\ TestedInv /\ AwakeInv
-----------------------------------------------------------------------------
\* Init establishes the invariant: pipealloc() makes an empty pipe.
LEMMA InitInv == Init => PipeInv
  BY DEF Init, PipeInv, TypeOK, LockInv, TestedInv, AwakeInv, Locked, Procs

Step(p) == KernelStep(p) \/ close(p) \/ kill(p) \/ \E n \in Sizes : call(p, n)

\* Every step keeps the variables within their types; the counters wrap.
LEMMA NextType ==
  ASSUME PipeInv, NEW p \in Procs, Step(p)
  PROVE  TypeOK'
<1> USE DEF PipeInv, Goto, pipevars,
            TypeOK, TestedInv, Procs, Wake, Ready
<1>1. CASE acquire(p)
  BY <1>1 DEF acquire
<1>2. CASE pipewrite_check(p)
  BY <1>2 DEF pipewrite_check
<1>3. CASE pipewrite_full(p)
  BY <1>3 DEF pipewrite_full
<1>4. CASE pipewrite_end(p)
  BY <1>4 DEF pipewrite_end
<1>5. CASE piperead_check(p)
  <2>1. \/ lock' = lock /\ left' = left /\ pc' = [pc EXCEPT ![p] = "sleep"]
        \/ /\ lock' = NoProc /\ left' = [left EXCEPT ![p] = 0]
           /\ pc' = [pc EXCEPT ![p] = "user"]
    BY <1>5, Zenon DEF piperead_check
  <2>2. UNCHANGED <<data, nread, nwrite, readopen, writeopen, last, killed>>
    BY <1>5 DEF piperead_check
  <2> QED
    BY <2>1, <2>2 DEF TypeOK
<1>6. CASE piperead_sleep(p)
  BY <1>6 DEF piperead_sleep
<1>7. CASE piperead_copy(p)
  BY <1>7 DEF piperead_copy
<1>8. CASE piperead_end(p)
  BY <1>8 DEF piperead_end
<1>9. CASE close(p)
  BY <1>9 DEF close
<1>10. CASE kill(p)
  BY <1>10 DEF kill
<1>11. ASSUME NEW v \in Bytes, pipewrite_copy(p, v) PROVE TypeOK'
  BY <1>11 DEF pipewrite_copy
<1>12. ASSUME NEW n \in Sizes, call(p, n) PROVE TypeOK'
  BY <1>12 DEF call
<1> QED
  BY <1>1, <1>2, <1>3, <1>4, <1>5, <1>6, <1>7, <1>8, <1>9, <1>10, <1>11, <1>12 DEF Step, KernelStep

\* pi->lock passes from one holder to the next, and no end closes under a holder.
LEMMA NextLock ==
  ASSUME PipeInv, NEW p \in Procs, Step(p)
  PROVE  LockInv'
<1> USE DEF PipeInv, Goto, pipevars,
            TypeOK, LockInv, TestedInv, Locked, Procs, Wake, Ready, Last
<1>1. CASE acquire(p)
  BY <1>1 DEF acquire
<1>2. CASE pipewrite_check(p)
  BY <1>2 DEF pipewrite_check
<1>3. CASE pipewrite_full(p)
  BY <1>3 DEF pipewrite_full
<1>4. CASE pipewrite_end(p)
  BY <1>4 DEF pipewrite_end
<1>5. CASE piperead_check(p)
  BY <1>5 DEF piperead_check
<1>6. CASE piperead_sleep(p)
  BY <1>6 DEF piperead_sleep
<1>7. CASE piperead_copy(p)
  BY <1>7 DEF piperead_copy
<1>8. CASE piperead_end(p)
  BY <1>8 DEF piperead_end
<1>9. CASE close(p)
  BY <1>9 DEF close
<1>10. CASE kill(p)
  BY <1>10 DEF kill
<1>11. ASSUME NEW v \in Bytes, pipewrite_copy(p, v) PROVE LockInv'
  BY <1>11 DEF pipewrite_copy
<1>12. ASSUME NEW n \in Sizes, call(p, n) PROVE LockInv'
  BY <1>12 DEF call
<1> QED
  BY <1>1, <1>2, <1>3, <1>4, <1>5, <1>6, <1>7, <1>8, <1>9, <1>10, <1>11, <1>12 DEF Step, KernelStep

\* What was tested under pi->lock stays true while the lock is held.
LEMMA NextTested ==
  ASSUME PipeInv, NEW p \in Procs, Step(p)
  PROVE  TestedInv'
<1> USE DEF PipeInv, Goto, pipevars,
            TypeOK, LockInv, TestedInv, Locked, Procs, Wake, Ready, Last, Empty
<1>1. CASE acquire(p)
  BY <1>1 DEF acquire
<1>2. CASE pipewrite_check(p)
  BY <1>2 DEF pipewrite_check
<1>3. CASE pipewrite_full(p)
  BY <1>3 DEF pipewrite_full
<1>4. CASE pipewrite_end(p)
  BY <1>4 DEF pipewrite_end
<1>5. CASE piperead_check(p)
  BY <1>5 DEF piperead_check
<1>6. CASE piperead_sleep(p)
  BY <1>6 DEF piperead_sleep
<1>7. CASE piperead_copy(p)
  BY <1>7 DEF piperead_copy
<1>8. CASE piperead_end(p)
  BY <1>8 DEF piperead_end
<1>9. CASE close(p)
  BY <1>9 DEF close
<1>10. CASE kill(p)
  BY <1>10 DEF kill
<1>11. ASSUME NEW v \in Bytes, pipewrite_copy(p, v) PROVE TestedInv'
  BY <1>11 DEF pipewrite_copy
<1>12. ASSUME NEW n \in Sizes, call(p, n) PROVE TestedInv'
  BY <1>12 DEF call
<1> QED
  BY <1>1, <1>2, <1>3, <1>4, <1>5, <1>6, <1>7, <1>8, <1>9, <1>10, <1>11, <1>12 DEF Step, KernelStep

\* Nobody releases pi->lock after a change that a sleeper waits for without a
\* wakeup().
LEMMA NextAwake ==
  ASSUME PipeInv, NEW p \in Procs, Step(p)
  PROVE  AwakeInv'
<1> USE DEF PipeInv, Goto, pipevars,
            TypeOK, LockInv, TestedInv, AwakeInv, Locked, Procs, Wake, Ready, Last, Empty, Full
<1>1. CASE acquire(p)
  BY <1>1 DEF acquire
<1>2. CASE pipewrite_check(p)
  BY <1>2 DEF pipewrite_check
<1>3. CASE pipewrite_full(p)
  BY <1>3 DEF pipewrite_full
<1>4. CASE pipewrite_end(p)
  BY <1>4 DEF pipewrite_end
<1>5. CASE piperead_check(p)
  BY <1>5 DEF piperead_check
<1>6. CASE piperead_sleep(p)
  BY <1>6 DEF piperead_sleep
<1>7. CASE piperead_copy(p)
  BY <1>7 DEF piperead_copy
<1>8. CASE piperead_end(p)
  BY <1>8 DEF piperead_end
<1>9. CASE close(p)
  BY <1>9 DEF close
<1>10. CASE kill(p)
  BY <1>10 DEF kill
<1>11. ASSUME NEW v \in Bytes, pipewrite_copy(p, v) PROVE AwakeInv'
  BY <1>11 DEF pipewrite_copy
<1>12. ASSUME NEW n \in Sizes, call(p, n) PROVE AwakeInv'
  BY <1>12 DEF call
<1> QED
  BY <1>1, <1>2, <1>3, <1>4, <1>5, <1>6, <1>7, <1>8, <1>9, <1>10, <1>11, <1>12 DEF Step, KernelStep

\* PipeInv is inductive.
LEMMA NextInv == PipeInv /\ [Next]_vars => PipeInv'
<1> SUFFICES ASSUME PipeInv, [Next]_vars PROVE PipeInv'
  OBVIOUS
<1>1. CASE UNCHANGED vars
  BY <1>1 DEF vars, PipeInv, TypeOK, LockInv, TestedInv, AwakeInv, Empty, Full
<1>2. ASSUME NEW p \in Procs, Step(p) PROVE PipeInv'
  BY <1>2, NextType, NextLock, NextTested, NextAwake DEF PipeInv
<1> QED
  BY <1>1, <1>2 DEF Next, Step, Closed

\* The inductive invariant of the pipe holds in every reachable state.
THEOREM PipeInvariant == Spec => []PipeInv
  BY InitInv, NextInv, PTL DEF Spec

\* When pi->lock is free, a sleeping writer has a full pipe before it, and, as
\* long as no writer was killed, a sleeping reader an empty one (pipe.c:77-126).
THEOREM PipeAwakeHolds == Spec => []PipeAwake
<1>1. PipeInv => PipeAwake
  BY DEF PipeInv, LockInv, AwakeInv, PipeAwake, Locked, Procs
<1> QED
  BY <1>1, PipeInvariant, PTL
-----------------------------------------------------------------------------
(* The pipe implements ByteQueue.                                          *)

\* The sizes of the ring and of its counters.
LEMMA Sized == PIPESIZE \in Nat /\ PIPESIZE > 0 /\ W \in Nat /\ W > 1 /\ W > 0 /\ PIPESIZE < W
  OBVIOUS

\* The range of the counters is a multiple of the ring.
LEMMA Multiple == W % PIPESIZE = 0
  OBVIOUS

HIDE PipeAssumption

\* The ring never holds more than PIPESIZE bytes.
RingInv == Count \in 0 .. PIPESIZE

\* What the two tests of pipe.c mean for the ring.
LEMMA Tests ==
  ASSUME TypeOK, RingInv
  PROVE  (Full <=> Count = PIPESIZE) /\ (Empty <=> Count = 0)
<1>1. Count = IF nread <= nwrite THEN nwrite - nread ELSE nwrite + W - nread
  BY Sized, Distance DEF TypeOK, Count
<1>2. PICK a \in 0 .. 2 * W - 1 : a = nread + PIPESIZE
  BY Sized DEF TypeOK
<1> DEFINE f == a % W
<1>3. f = IF a < W THEN a ELSE a - W
  BY Sized, SmallMod
<1>4. Full <=> nwrite = f
  BY <1>2, Zenon DEF Full
<1> HIDE DEF f
<1> QED
  BY <1>1, <1>2, <1>3, <1>4, Sized DEF TypeOK, Empty

\* The slot that pipewrite() fills lies behind the last byte of the queue.
LEMMA WriteSlot ==
  ASSUME TypeOK, RingInv
  PROVE  nwrite % PIPESIZE = (nread + Count) % PIPESIZE
<1>1. Count = IF nread <= nwrite THEN nwrite - nread ELSE nwrite + W - nread
  BY Sized, Distance DEF TypeOK, Count
<1>2. nread + Count = nwrite \/ nread + Count = nwrite + W
  BY <1>1, Sized DEF TypeOK
<1>3. (nwrite + W) % PIPESIZE = nwrite % PIPESIZE
  <2>1. nwrite \in Nat
    BY Sized DEF TypeOK
  <2> QED
    BY <2>1, Sized, Multiple, AddMultiple
<1> QED
  BY <1>2, <1>3

\* The queue is a sequence of the bytes in the ring.
LEMMA QueueSeq ==
  ASSUME TypeOK, RingInv
  PROVE  /\ Queue \in Seq(Bytes) /\ Len(Queue) = Count
         /\ \A i \in 1 .. Count : Queue[i] = data[(nread + i - 1) % PIPESIZE]
<1>1. \A i \in 1 .. Count : (nread + i - 1) % PIPESIZE \in 0 .. PIPESIZE - 1
  BY Sized DEF TypeOK, RingInv
<1>2. Queue \in [1 .. Count -> Bytes]
  BY <1>1 DEF TypeOK, Queue
<1>3. Count \in Nat
  BY DEF RingInv
<1> QED
  BY <1>2, <1>3 DEF Queue

\* A byte written is appended to the queue.
LEMMA WriteQueue ==
  ASSUME TypeOK, RingInv, TypeOK', ~Full, NEW v \in Bytes,
         data' = [data EXCEPT ![nwrite % PIPESIZE] = v], nwrite' = (nwrite + 1) % W,
         nread' = nread
  PROVE  RingInv' /\ Queue' = Append(Queue, v) /\ Len(Queue) < PIPESIZE
<1>1. Count < PIPESIZE /\ Count \in Nat
  BY Sized, Tests DEF RingInv
<1>2. Count' = Count + 1
  <2>1. nwrite \in 0 .. W - 1 /\ nread \in 0 .. W - 1
    BY DEF TypeOK
  <2>2. (nwrite + W - nread) % W < W - 1
    BY <1>1, Sized DEF Count
  <2>3. nwrite' \in 0 .. W - 1
    BY DEF TypeOK
  <2>4. (nwrite' + W - nread) % W = ((nwrite + W - nread) % W) + 1
    BY <2>1, <2>2, <2>3, Sized, Grow
  <2> QED
    BY <2>4, Zenon DEF Count
<1>3. RingInv'
  BY <1>1, <1>2, Sized DEF RingInv
<1>4. /\ Queue \in Seq(Bytes) /\ Len(Queue) = Count
      /\ \A i \in 1 .. Count : Queue[i] = data[(nread + i - 1) % PIPESIZE]
  BY QueueSeq
<1>5. Queue' = [i \in 1 .. Count + 1 |-> data'[(nread + i - 1) % PIPESIZE]]
  BY <1>2 DEF Queue
<1>6. ASSUME NEW i \in 1 .. Count
      PROVE  data'[(nread + i - 1) % PIPESIZE] = data[(nread + i - 1) % PIPESIZE]
  <2>1. PICK a \in Nat, b \in Nat : a = nread + i - 1 /\ b = nread + Count
    BY <1>1, Sized DEF TypeOK
  <2>2. a < b /\ b < a + PIPESIZE
    BY <1>1, <2>1, Sized DEF TypeOK
  <2>3. a % PIPESIZE # b % PIPESIZE
    BY <2>2, Sized, Distinct
  <2>4. a % PIPESIZE # nwrite % PIPESIZE
    BY <2>1, <2>3, WriteSlot
  <2> QED
    BY <2>1, <2>4 DEF TypeOK
<1>7. data'[(nread + (Count + 1) - 1) % PIPESIZE] = v
  <2>1. nread + (Count + 1) - 1 = nread + Count
    BY <1>1 DEF TypeOK
  <2>2. nwrite % PIPESIZE \in 0 .. PIPESIZE - 1
    BY Sized DEF TypeOK
  <2> QED
    BY <2>1, <2>2, WriteSlot DEF TypeOK
<1>8. \A i \in 1 .. Count + 1 : data'[(nread + i - 1) % PIPESIZE] = Append(Queue, v)[i]
  BY <1>1, <1>4, <1>6, <1>7
<1>9. Append(Queue, v) = [i \in 1 .. Count + 1 |-> Append(Queue, v)[i]]
  <2>1. Append(Queue, v) \in Seq(Bytes) /\ Len(Append(Queue, v)) = Count + 1
    BY <1>1, <1>4
  <2>2. Append(Queue, v) \in [1 .. Count + 1 -> Bytes]
    BY <2>1, LenProperties
  <2> QED
    BY <2>2
<1> QED
  BY <1>1, <1>3, <1>4, <1>5, <1>8, <1>9

\* A byte read is the head of the queue.
LEMMA ReadQueue ==
  ASSUME TypeOK, RingInv, TypeOK', ~Empty, nread' = (nread + 1) % W, UNCHANGED <<data, nwrite>>
  PROVE  RingInv' /\ Queue # <<>> /\ Head(Queue) = data[nread % PIPESIZE] /\ Queue' = Tail(Queue)
<1>1. Count > 0 /\ Count \in 0 .. PIPESIZE
  BY Sized, Tests DEF RingInv
<1>2. Count' = Count - 1
  <2>1. nwrite \in 0 .. W - 1 /\ nread \in 0 .. W - 1
    BY DEF TypeOK
  <2>2. (nwrite + W - nread) % W > 0
    BY <1>1, Sized DEF Count
  <2>3. nread' \in 0 .. W - 1 /\ nwrite' = nwrite
    BY DEF TypeOK
  <2>4. (nwrite + W - nread') % W = ((nwrite + W - nread) % W) - 1
    BY <2>1, <2>2, <2>3, Sized, Shrink
  <2> QED
    BY <2>3, <2>4, Zenon DEF Count
<1>3. RingInv'
  BY <1>1, <1>2, Sized DEF RingInv
<1>4. /\ Queue \in Seq(Bytes) /\ Len(Queue) = Count
      /\ \A i \in 1 .. Count : Queue[i] = data[(nread + i - 1) % PIPESIZE]
  BY QueueSeq
<1>5. Queue' = [i \in 1 .. Count - 1 |-> data[(nread' + i - 1) % PIPESIZE]]
  BY <1>2 DEF Queue
<1>6. ASSUME NEW i \in 1 .. Count - 1
      PROVE  (nread' + i - 1) % PIPESIZE = (nread + (i + 1) - 1) % PIPESIZE
  <2>1. nread' = IF nread = W - 1 THEN 0 ELSE nread + 1
    BY Sized, Increment DEF TypeOK
  <2>2. PICK a \in Nat : a = nread' + i - 1
    BY <1>1, Sized DEF TypeOK
  <2>3. nread + (i + 1) - 1 = a \/ nread + (i + 1) - 1 = a + W
    BY <1>1, <2>1, <2>2, Sized DEF TypeOK
  <2>4. (a + W) % PIPESIZE = a % PIPESIZE
    BY Sized, Multiple, AddMultiple
  <2> QED
    BY <2>2, <2>3, <2>4
<1>7. \A i \in 1 .. Count - 1 : data[(nread' + i - 1) % PIPESIZE] = Queue[i + 1]
  BY <1>1, <1>4, <1>6
<1>8. Tail(Queue) = [i \in 1 .. Count - 1 |-> Queue[i + 1]]
  <2>1. Queue # <<>>
    BY <1>1, <1>4
  <2>2. /\ Tail(Queue) \in Seq(Bytes) /\ Len(Tail(Queue)) = Count - 1
        /\ \A i \in 1 .. Count - 1 : Tail(Queue)[i] = Queue[i + 1]
    BY <1>4, <2>1, HeadTailProperties
  <2>3. Tail(Queue) \in [1 .. Count - 1 -> Bytes]
    BY <2>2, LenProperties
  <2> QED
    BY <2>2, <2>3
<1>9. Head(Queue) = data[nread % PIPESIZE]
  <2>1. Head(Queue) = data[(nread + 1 - 1) % PIPESIZE]
    BY <1>1, <1>4
  <2>2. nread + 1 - 1 = nread
    BY DEF TypeOK
  <2> QED
    BY <2>1, <2>2
<1> QED
  BY <1>1, <1>3, <1>4, <1>5, <1>7, <1>8, <1>9

\* The ring stays within its size, and every step sends or receives a byte of
\* the queue or leaves the queue alone.
LEMMA RefineNext ==
  PipeInv /\ PipeInv' /\ RingInv /\ [Next]_vars =>
    RingInv' /\ (Abs!Next \/ UNCHANGED <<Queue, last>>)
<1> SUFFICES ASSUME PipeInv, PipeInv', RingInv, [Next]_vars
             PROVE  RingInv' /\ (Abs!Next \/ UNCHANGED <<Queue, last>>)
  OBVIOUS
<1>1. ASSUME UNCHANGED <<data, nread, nwrite, last>>
      PROVE  RingInv' /\ UNCHANGED <<Queue, last>>
  BY <1>1 DEF RingInv, Queue, Count
<1>2. ASSUME NEW p \in Procs, NEW v \in Bytes, pipewrite_copy(p, v) PROVE RingInv' /\ Abs!Next
  <2>1. RingInv' /\ Queue' = Append(Queue, v) /\ Len(Queue) < PIPESIZE
    BY <1>2, WriteQueue DEF pipewrite_copy, PipeInv
  <2>2. Abs!Send(v)
    BY <1>2, <2>1 DEF pipewrite_copy, Abs!Send
  <2> QED
    BY <2>1, <2>2 DEF Abs!Next
<1>3. ASSUME NEW p \in Procs, piperead_copy(p) PROVE RingInv' /\ Abs!Next
  <2>1. RingInv' /\ Queue # <<>> /\ Head(Queue) = data[nread % PIPESIZE] /\ Queue' = Tail(Queue)
    BY <1>3, ReadQueue DEF piperead_copy, PipeInv
  <2>2. Abs!Receive
    BY <1>3, <2>1 DEF piperead_copy, Abs!Receive
  <2> QED
    BY <2>1, <2>2 DEF Abs!Next
<1>4. \/ UNCHANGED <<data, nread, nwrite, last>>
      \/ \E p \in Procs : piperead_copy(p) \/ \E v \in Bytes : pipewrite_copy(p, v)
  BY ZenonT(60) DEF Next, KernelStep, Closed, vars, pipevars, acquire, pipewrite_check, pipewrite_full,
         pipewrite_end, piperead_check, piperead_sleep, piperead_end, close, kill, call
<1> QED
  BY <1>1, <1>2, <1>3, <1>4

\* A new pipe is an empty queue.
LEMMA RefineInit == Init => RingInv /\ Abs!Init
<1> SUFFICES ASSUME Init PROVE RingInv /\ Abs!Init
  OBVIOUS
<1>1. (0 + W - 0) % W = 0
  BY Sized, Distance
<1>2. Count = 0
  BY <1>1 DEF Init, Count
<1>3. Queue = <<>>
  BY <1>2 DEF Queue
<1> QED
  BY <1>2, <1>3, Sized DEF Init, RingInv, Abs!Init

\* The pipe implements ByteQueue for every size of the ring and the counters:
\* bytes come out once and in order, at most PIPESIZE are in between, and
\* nread and nwrite may wrap (pipe.c:77-134).
THEOREM FifoHolds == Spec => Fifo
<1>1. Spec => []RingInv
  BY RefineInit, RefineNext, InitInv, NextInv, PTL DEF Spec
<1> QED
  BY <1>1, RefineInit, RefineNext, PipeInvariant, PTL DEF Spec, Fifo, Abs!Spec
=============================================================================
