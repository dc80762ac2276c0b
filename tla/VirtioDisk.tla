----------------------------- MODULE VirtioDisk -----------------------------
(***************************************************************************)
(* The disk driver kernel/virtio_disk.c and, external, the virtio device   *)
(* as the driver uses it: requests are chains of three descriptors, queued *)
(* in the avail ring; the device serves them in any order, posts them in   *)
(* the used ring and interrupts.  Each process transfers a buffer of its   *)
(* own (it holds the buffer's sleep lock).  vdisk_lock is held across      *)
(* steps, because the device runs in parallel.  The ring indices are 16    *)
(* bits wide and wrap: W stands for 2^16.  The rings have RING entries     *)
(* (NUM in the code): enough for the NUM \div 3 requests in progress.      *)
(***************************************************************************)
EXTENDS Naturals, FiniteSets

CONSTANTS Procs, NUM, RING, W, None, Intr

Descs == 0 .. NUM - 1

ASSUME VirtioAssumption ==
  /\ NUM \in Nat \ {0} /\ W \in Nat \ {0} /\ RING \in Nat /\ NUM \div 3 <= RING
  /\ RING < W /\ W % RING = 0
  /\ None \notin Procs \cup {Intr} \cup Descs /\ Intr \notin Procs

VARIABLES
  free,      \* descriptors with disk.free[i] set
  desc,      \* disk.desc[i]: the buffer it points to, and next (or None)
  info,      \* disk.info[i].b, or None
  status,    \* disk.info[i].status
  avail, availidx, used, usedidx,  \* the two rings, written by driver and device
  used_idx,  \* disk.used_idx
  lock,      \* vdisk_lock: a process, Intr (the handler) or None
  pc, head,  \* where each process stands, and its idx[0]
  bdisk,     \* b->disk of each process's buffer
  hpc,       \* where virtio_disk_intr() stands
  seen, serving, unsignalled, irq,  \* the device (external)
  served,    \* history: the device has transferred the process's buffer
  panicked

device == <<used, usedidx, seen, serving, unsignalled, irq, served>>
queue == <<free, desc, info, status, avail, availidx>>
vars == <<free, desc, info, status, avail, availidx, used, usedidx, used_idx, lock, pc, head,
          bdisk, hpc, seen, serving, unsignalled, irq, served, panicked>>

\* virtio_disk_init()
Init ==
  /\ free = Descs /\ desc = [i \in Descs |-> [buf |-> None, next |-> None]]
  /\ info = [i \in Descs |-> None] /\ status = [i \in Descs |-> 0]
  /\ avail = [i \in 0 .. RING - 1 |-> 0] /\ availidx = 0
  /\ used = [i \in 0 .. RING - 1 |-> 0] /\ usedidx = 0 /\ used_idx = 0
  /\ lock = None /\ pc = [p \in Procs |-> "idle"] /\ head = [p \in Procs |-> 0]
  /\ bdisk = [p \in Procs |-> 0] /\ hpc = "none"
  /\ seen = 0 /\ serving = {} /\ unsignalled = 0 /\ irq = 0
  /\ served = [p \in Procs |-> 0] /\ panicked = 0

At(p, l) == panicked = 0 /\ pc[p] = l
Goto(p, l) == pc' = [pc EXCEPT ![p] = l]
-----------------------------------------------------------------------------
(* virtio_disk_rw()                                                        *)

rw_call(p) ==
  /\ At(p, "idle") /\ Goto(p, "alloc_acquire")
  /\ UNCHANGED <<queue, device, used_idx, lock, head, bdisk, hpc, panicked>>

\* acquire(&disk.vdisk_lock), at the start or at the end of a sleep().
rw_acquire(p) ==
  /\ lock = None /\ lock' = p
  /\ \/ At(p, "alloc_acquire") /\ Goto(p, "alloc")
     \/ At(p, "wait_acquire") /\ Goto(p, "wait")
  /\ UNCHANGED <<queue, device, used_idx, head, bdisk, hpc, panicked>>

\* pc after wakeup(&disk.free[0])
WakeFree == [q \in Procs |-> IF pc[q] = "alloc_asleep" THEN "alloc_acquire" ELSE pc[q]]

Lowest(S) == CHOOSE i \in S : \A j \in S : i <= j

\* alloc3_desc() fails: what it got it frees, with a wakeup() each time.
alloc3_desc_fails(p) ==
  /\ At(p, "alloc") /\ Cardinality(free) < 3
  /\ pc' = [(IF free = {} THEN pc ELSE WakeFree) EXCEPT ![p] = "alloc_asleep"]
  /\ lock' = None
  /\ UNCHANGED <<queue, device, used_idx, head, bdisk, hpc, panicked>>

\* alloc3_desc() succeeds; the request is formatted and put into the ring.
submit(p) ==
  LET i == Lowest(free)
      j == Lowest(free \ {i})
      k == Lowest(free \ {i, j}) IN
  /\ At(p, "alloc") /\ Cardinality(free) >= 3
  /\ free' = free \ {i, j, k}
  /\ desc' = [desc EXCEPT ![i] = [buf |-> None, next |-> j],
                          ![j] = [buf |-> p, next |-> k],
                          ![k] = [buf |-> None, next |-> None]]
  /\ status' = [status EXCEPT ![i] = 255]
  /\ bdisk' = [bdisk EXCEPT ![p] = 1]
  /\ info' = [info EXCEPT ![i] = p]
  /\ avail' = [avail EXCEPT ![availidx % RING] = i]
  /\ head' = [head EXCEPT ![p] = i]
  /\ served' = [served EXCEPT ![p] = 0]
  /\ Goto(p, "notify")
  /\ UNCHANGED <<availidx, used, usedidx, seen, serving, unsignalled, irq, used_idx, lock, hpc,
                 panicked>>

\* avail->idx += 1; QUEUE_NOTIFY.
notify(p) ==
  /\ At(p, "notify") /\ Goto(p, "wait")
  /\ availidx' = (availidx + 1) % W
  /\ UNCHANGED <<free, desc, info, status, avail, device, used_idx, lock, head, bdisk, hpc,
                 panicked>>

\* sleep(b, &disk.vdisk_lock)
wait_sleep(p) ==
  /\ At(p, "wait") /\ bdisk[p] = 1
  /\ Goto(p, "wait_asleep") /\ lock' = None
  /\ UNCHANGED <<queue, device, used_idx, head, bdisk, hpc, panicked>>

\* The chain free_chain() follows from descriptor i.
Chain(i) == LET j == desc[i].next IN
  {i} \cup (IF j = None THEN {} ELSE {j} \cup (IF desc[j].next = None THEN {} ELSE {desc[j].next}))

\* Mutant of free_chain: only the first two descriptors are freed.
free_chain_short(p) ==
  /\ At(p, "wait") /\ bdisk[p] = 0
  /\ info' = [info EXCEPT ![head[p]] = None]
  /\ free' = free \cup {head[p], desc[head[p]].next}
  /\ desc' = [i \in Descs |-> IF i \in Chain(head[p]) THEN [buf |-> None, next |-> None] ELSE desc[i]]
  /\ pc' = [WakeFree EXCEPT ![p] = "idle"] /\ lock' = None
  /\ panicked' = IF Chain(head[p]) \cap free # {} THEN 1 ELSE 0
  /\ UNCHANGED <<status, avail, availidx, device, used_idx, head, bdisk, hpc>>
\* Mutant of free_chain: b->disk is not tested.
free_chain_early(p) ==
  /\ At(p, "wait")
  /\ info' = [info EXCEPT ![head[p]] = None]
  /\ free' = free \cup Chain(head[p])
  /\ desc' = [i \in Descs |-> IF i \in Chain(head[p]) THEN [buf |-> None, next |-> None] ELSE desc[i]]
  /\ pc' = [WakeFree EXCEPT ![p] = "idle"] /\ lock' = None
  /\ panicked' = IF Chain(head[p]) \cap free # {} THEN 1 ELSE 0
  /\ UNCHANGED <<status, avail, availidx, device, used_idx, head, bdisk, hpc>>
\* info.b = 0; free_chain(), which panics on a free descriptor; release.
free_chain(p) ==
  /\ At(p, "wait") /\ bdisk[p] = 0
  /\ info' = [info EXCEPT ![head[p]] = None]
  /\ free' = free \cup Chain(head[p])
  /\ desc' = [i \in Descs |-> IF i \in Chain(head[p]) THEN [buf |-> None, next |-> None] ELSE desc[i]]
  /\ pc' = [WakeFree EXCEPT ![p] = "idle"] /\ lock' = None
  /\ panicked' = IF Chain(head[p]) \cap free # {} THEN 1 ELSE 0
  /\ UNCHANGED <<status, avail, availidx, device, used_idx, head, bdisk, hpc>>
-----------------------------------------------------------------------------
(* virtio_disk_intr()                                                      *)

intr_acquire ==
  /\ panicked = 0 /\ irq = 1 /\ hpc = "none" /\ lock = None
  /\ lock' = Intr /\ hpc' = "ack"
  /\ UNCHANGED <<queue, device, used_idx, pc, head, bdisk, panicked>>

intr_ack ==
  /\ panicked = 0 /\ hpc = "ack" /\ hpc' = "loop"
  /\ irq' = 0
  /\ UNCHANGED <<queue, used, usedidx, seen, serving, unsignalled, served, used_idx, lock, pc,
                 head, bdisk, panicked>>

\* The oldest entry the driver has not seen.
Completed == used[used_idx % RING]

\* Mutant of intr_entry: one entry per interrupt.
intr_entry_once ==
  LET b == info[Completed] IN
  /\ panicked = 0 /\ hpc = "loop" /\ used_idx # usedidx
  /\ panicked' = IF status[Completed] # 0 \/ b = None THEN 1 ELSE 0
  /\ bdisk' = [p \in Procs |-> IF p = b THEN 0 ELSE bdisk[p]]
  /\ pc' = [p \in Procs |-> IF p = b /\ pc[p] = "wait_asleep" THEN "wait_acquire" ELSE pc[p]]
  /\ used_idx' = (used_idx + 1) % W
  /\ lock' = None /\ hpc' = "none"
  /\ UNCHANGED <<queue, device, head>>
\* One entry of the used ring: panic if it failed, else b->disk = 0, wakeup(b).
\* A null info[id].b is a fault, which panics as well.
intr_entry ==
  LET b == info[Completed] IN
  /\ panicked = 0 /\ hpc = "loop" /\ used_idx # usedidx
  /\ panicked' = IF status[Completed] # 0 \/ b = None THEN 1 ELSE 0
  /\ bdisk' = [p \in Procs |-> IF p = b THEN 0 ELSE bdisk[p]]
  /\ pc' = [p \in Procs |-> IF p = b /\ pc[p] = "wait_asleep" THEN "wait_acquire" ELSE pc[p]]
  /\ used_idx' = (used_idx + 1) % W
  /\ UNCHANGED <<queue, device, lock, head, hpc>>

intr_done ==
  /\ panicked = 0 /\ hpc = "loop" /\ used_idx = usedidx
  /\ lock' = None /\ hpc' = "none"
  /\ UNCHANGED <<queue, device, used_idx, pc, head, bdisk, panicked>>
-----------------------------------------------------------------------------
(* The device (external)                                                   *)

device_take ==
  /\ seen # availidx
  /\ serving' = serving \cup {avail[seen % RING]} /\ seen' = (seen + 1) % W
  /\ UNCHANGED <<queue, used, usedidx, unsignalled, irq, served, used_idx, lock, pc, head, bdisk,
                 hpc, panicked>>

\* Transfer the buffer, write the status and post the request.
device_finish(i) ==
  /\ i \in serving /\ serving' = serving \ {i}
  /\ served' = [p \in Procs |-> IF desc[desc[i].next].buf = p THEN 1 ELSE served[p]]
  /\ status' = [status EXCEPT ![i] = 0]
  /\ used' = [used EXCEPT ![usedidx % RING] = i] /\ usedidx' = (usedidx + 1) % W
  /\ unsignalled' = 1
  /\ UNCHANGED <<free, desc, info, avail, availidx, seen, irq, used_idx, lock, pc, head, bdisk,
                 hpc, panicked>>

device_interrupt ==
  /\ unsignalled = 1 /\ unsignalled' = 0 /\ irq' = 1
  /\ UNCHANGED <<queue, used, usedidx, seen, serving, served, used_idx, lock, pc, head, bdisk,
                 hpc, panicked>>

Submitted(p) == submit(p) \/ notify(p) \/ wait_sleep(p) \/ free_chain(p)
Handler == intr_acquire \/ intr_ack \/ intr_entry \/ intr_done
Device == device_take \/ device_interrupt \/ \E i \in Descs : device_finish(i)

Next == \/ \E p \in Procs : rw_call(p) \/ rw_acquire(p) \/ alloc3_desc_fails(p) \/ Submitted(p)
        \/ Handler \/ Device

Spec == Init /\ [][Next]_vars
-----------------------------------------------------------------------------
(* Properties                                                              *)

\* Every variable keeps to its values.
TypeOK ==
  /\ free \subseteq Descs
  /\ desc \in [Descs -> [buf : Procs \cup {None}, next : Descs \cup {None}]]
  /\ info \in [Descs -> Procs \cup {None}] /\ status \in [Descs -> {0, 255}]
  /\ avail \in [0 .. RING - 1 -> Descs] /\ used \in [0 .. RING - 1 -> Descs]
  /\ availidx \in 0 .. W - 1 /\ usedidx \in 0 .. W - 1 /\ used_idx \in 0 .. W - 1
  /\ lock \in Procs \cup {None, Intr} /\ head \in [Procs -> Descs]
  /\ pc \in [Procs -> {"idle", "alloc_acquire", "alloc", "alloc_asleep", "notify", "wait",
                       "wait_asleep", "wait_acquire"}]
  /\ bdisk \in [Procs -> {0, 1}] /\ hpc \in {"none", "ack", "loop"}

\* A request's call is in progress: from submission to free_chain().
InCall(p) == pc[p] \in {"notify", "wait", "wait_asleep", "wait_acquire"}

\* Descriptors are neither leaked nor shared: each one is free or in the chain
\* of exactly one request in progress, and no panic of the driver is reached
\* ("free_desc 2", "virtio_disk_intr status", a fault on a null info[id].b).
DescsAccounted ==
  /\ TypeOK /\ panicked = 0
  /\ \A p \in Procs : InCall(p) => Cardinality(Chain(head[p])) = 3
  /\ \A p, q \in Procs : p # q /\ InCall(p) /\ InCall(q) =>
                         Chain(head[p]) \cap Chain(head[q]) = {}
  /\ free = Descs \ UNION {Chain(head[p]) : p \in {q \in Procs : InCall(q)}}

\* b->disk is cleared only for the buffer whose transfer is over, though the
\* device completes out of order: virtio_disk_rw() returns after its own
\* transfer, and the device touches no buffer of a call that has returned.
TransferDone ==
  /\ \A p \in Procs : InCall(p) /\ bdisk[p] = 0 => served[p] = 1
  /\ \A i \in serving : \E p \in Procs : InCall(p) /\ head[p] = i /\ served[p] = 0

\* The entries of a ring from index i up to index j, across the wrap.
Window(ring, i, j) == {ring[((i + k) % W) % RING] : k \in 0 .. ((j + W - i) % W) - 1}

\* No completion is lost in the race between the handler's acknowledgement and
\* the device's next entry (virtio_disk.c:299-304): the request of a process
\* asleep on its buffer is still with the device, or in the used ring with an
\* interrupt or the handler on its way to it.  And nobody sleeps for descriptors
\* while three are free.
WaiterServed ==
  /\ lock = None /\ (\E p \in Procs : pc[p] = "alloc_asleep") => Cardinality(free) < 3
  /\ \A p \in Procs : pc[p] = "wait_asleep" =>
       /\ bdisk[p] = 1
       /\ \/ head[p] \in serving \cup Window(avail, seen, availidx)
          \/ /\ head[p] \in Window(used, used_idx, usedidx)
             /\ unsignalled = 1 \/ irq = 1 \/ hpc # "none"
=============================================================================
