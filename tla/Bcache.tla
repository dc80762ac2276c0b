------------------------------- MODULE Bcache -------------------------------
(***************************************************************************)
(* The buffer cache of kernel/bio.c.  A section under bcache.lock is one   *)
(* step, and so is each sleep-lock operation (module Sched) and each disk  *)
(* transfer, which happens with the buffer locked.  The client follows     *)
(* the file system's discipline: a changed buffer is pinned (log_write) or *)
(* written before it is released, and unpinned only after a bwrite         *)
(* (install_trans).  A process may hold several buffers (lbuf and dbuf in  *)
(* install_trans, the indirect block while bmap calls balloc): it is then  *)
(* one holder for each, and the holders take their steps in any order.     *)
(***************************************************************************)
EXTENDS Naturals, FiniteSets

CONSTANTS Holders,  \* uses of a buffer, one or more for each process
          Blocks, Vals, Zero,
          NBUF,     \* buffers
          MaxPins,  \* blocks the log keeps pinned at most
          Nobody,   \* nobody
          NoBlock   \* b->dev = 0: the buffer has never been used

Bufs == 1 .. NBUF

ASSUME BcacheAssumption ==
  /\ NBUF \in Nat \ {0} /\ MaxPins \in Nat /\ Zero \in Vals /\ IsFiniteSet(Holders)
  /\ Nobody \notin Holders /\ NoBlock \notin Blocks

VARIABLES
  blockno,   \* b->dev, b->blockno
  valid,     \* b->valid, 0 or 1
  data,      \* b->data
  refcnt,    \* b->refcnt
  lock,      \* b->lock: who holds it, or Nobody
  lru,       \* the list from head.next (most recent) to head.prev
  disk,      \* contents of the disk
  pinned,    \* blocks the log has pinned
  pc, buf,   \* where each holder stands, and the buffer it works on
  panicked   \* 1 after panic("bget: no buffers")

vars == <<blockno, valid, data, refcnt, lock, lru, disk, pinned, pc, buf, panicked>>

\* binit() inserts every buffer at the head.
Init ==
  /\ blockno = [k \in Bufs |-> NoBlock] /\ valid = [k \in Bufs |-> 0]
  /\ data = [k \in Bufs |-> Zero] /\ refcnt = [k \in Bufs |-> 0]
  /\ lock = [k \in Bufs |-> Nobody] /\ lru = [i \in Bufs |-> NBUF + 1 - i]
  /\ disk = [b \in Blocks |-> Zero] /\ pinned = {}
  /\ pc = [p \in Holders |-> "idle"] /\ buf = [p \in Holders |-> 1]
  /\ panicked = 0

At(p, l) == panicked = 0 /\ pc[p] = l
Goto(p, l) == pc' = [pc EXCEPT ![p] = l]
-----------------------------------------------------------------------------
Cached(b) == {k \in Bufs : blockno[k] = b}

bget_hit(p, k) ==
  /\ At(p, "idle") /\ blockno[k] # NoBlock
  /\ refcnt' = [refcnt EXCEPT ![k] = @ + 1]
  /\ buf' = [buf EXCEPT ![p] = k] /\ Goto(p, "acquiresleep")
  /\ UNCHANGED <<blockno, valid, data, lock, lru, disk, pinned, panicked>>

\* Positions of the list whose buffer has refcnt 0.
Unused == {i \in Bufs : refcnt[lru[i]] = 0}

\* The least recently used of them.
Victim == lru[CHOOSE i \in Unused : \A j \in Unused : j <= i]

bget_recycle(p, b) ==
  /\ blockno' = [blockno EXCEPT ![Victim] = b]
  /\ valid' = [valid EXCEPT ![Victim] = 0]
  /\ refcnt' = [refcnt EXCEPT ![Victim] = 1]
  /\ buf' = [buf EXCEPT ![p] = Victim] /\ Goto(p, "acquiresleep")
  /\ UNCHANGED panicked

\* Mutant of bget_miss: the cache is not searched first (or the search and the
\* recycling are two sections of bcache.lock).
bget_miss_unchecked(p, b) ==
  /\ At(p, "idle")
  /\ IF Unused # {} THEN bget_recycle(p, b)
     ELSE panicked' = 1 /\ UNCHANGED <<blockno, valid, refcnt, pc, buf>>
  /\ UNCHANGED <<data, lock, lru, disk, pinned>>
bget_miss(p, b) ==
  /\ At(p, "idle") /\ Cached(b) = {}
  /\ IF Unused # {} THEN bget_recycle(p, b)
     ELSE panicked' = 1 /\ UNCHANGED <<blockno, valid, refcnt, pc, buf>>
  /\ UNCHANGED <<data, lock, lru, disk, pinned>>

\* acquiresleep(&b->lock); bread() then tests b->valid.
bget_lock(p) ==
  /\ At(p, "acquiresleep") /\ lock[buf[p]] = Nobody
  /\ lock' = [lock EXCEPT ![buf[p]] = p]
  /\ Goto(p, IF valid[buf[p]] = 1 THEN "locked" ELSE "bread")
  /\ UNCHANGED <<blockno, valid, data, refcnt, lru, disk, pinned, buf, panicked>>

bread(p) ==
  /\ At(p, "bread")
  /\ data' = [data EXCEPT ![buf[p]] = disk[blockno[buf[p]]]]
  /\ valid' = [valid EXCEPT ![buf[p]] = 1]
  /\ Goto(p, "locked")
  /\ UNCHANGED <<blockno, refcnt, lock, lru, disk, pinned, buf, panicked>>

\* The client changes b->data.
modify(p, v) ==
  /\ At(p, "locked")
  /\ data' = [data EXCEPT ![buf[p]] = v] /\ Goto(p, "dirty")
  /\ UNCHANGED <<blockno, valid, refcnt, lock, lru, disk, pinned, buf, panicked>>

bwrite(p) ==
  /\ At(p, "locked") \/ At(p, "dirty")
  /\ disk' = [disk EXCEPT ![blockno[buf[p]]] = data[buf[p]]]
  /\ Goto(p, "written")
  /\ UNCHANGED <<blockno, valid, data, refcnt, lock, lru, pinned, buf, panicked>>

\* Mutant of bpin: log_write() does not pin.
bpin_not(p) ==
  /\ At(p, "dirty") /\ Goto(p, "locked")
  /\ Cardinality(pinned \cup {blockno[buf[p]]}) <= MaxPins
  /\ pinned' = pinned \cup {blockno[buf[p]]}
  /\ UNCHANGED <<blockno, valid, data, refcnt, lock, lru, disk, buf, panicked>>
\* log_write(): pin the buffer unless the log has the block already.
bpin(p) ==
  /\ At(p, "dirty") /\ Goto(p, "locked")
  /\ Cardinality(pinned \cup {blockno[buf[p]]}) <= MaxPins
  /\ pinned' = pinned \cup {blockno[buf[p]]}
  /\ refcnt' = IF blockno[buf[p]] \in pinned THEN refcnt ELSE [refcnt EXCEPT ![buf[p]] = @ + 1]
  /\ UNCHANGED <<blockno, valid, data, lock, lru, disk, buf, panicked>>

bunpin(p) ==
  /\ At(p, "written") /\ blockno[buf[p]] \in pinned /\ Goto(p, "locked")
  /\ pinned' = pinned \ {blockno[buf[p]]}
  /\ refcnt' = [refcnt EXCEPT ![buf[p]] = @ - 1]
  /\ UNCHANGED <<blockno, valid, data, lock, lru, disk, buf, panicked>>

\* brelse(): releasesleep(&b->lock) ...
brelse_unlock(p) ==
  /\ At(p, "locked") \/ At(p, "written")
  /\ lock' = [lock EXCEPT ![buf[p]] = Nobody] /\ Goto(p, "brelse")
  /\ UNCHANGED <<blockno, valid, data, refcnt, lru, disk, pinned, buf, panicked>>

\* b->next and b->prev: what stood before k moves back by one.
MoveToFront(k) ==
  [i \in Bufs |-> IF i = 1 THEN k
                  ELSE IF \E j \in i .. NBUF : lru[j] = k THEN lru[i - 1] ELSE lru[i]]

\* ... and, under bcache.lock, give up the reference.
brelse(p) ==
  /\ At(p, "brelse") /\ Goto(p, "idle")
  /\ refcnt' = [refcnt EXCEPT ![buf[p]] = @ - 1]
  /\ lru' = IF refcnt[buf[p]] = 1 THEN MoveToFront(buf[p]) ELSE lru
  /\ UNCHANGED <<blockno, valid, data, lock, disk, pinned, buf, panicked>>

\* panic() never returns.
panic == panicked = 1 /\ UNCHANGED vars

Next ==
  \/ panic
  \/ \E p \in Holders :
    \/ \E k \in Bufs : bget_hit(p, k)
    \/ \E b \in Blocks : bget_miss(p, b)
    \/ bget_lock(p) \/ bread(p) \/ \E v \in Vals : modify(p, v)
    \/ bwrite(p) \/ bpin(p) \/ bunpin(p) \/ brelse_unlock(p) \/ brelse(p)

Spec == Init /\ [][Next]_vars
-----------------------------------------------------------------------------
(* Properties                                                              *)

\* Every variable keeps to its values; the list links every buffer once.
TypeOK ==
  /\ blockno \in [Bufs -> Blocks \cup {NoBlock}] /\ valid \in [Bufs -> {0, 1}]
  /\ data \in [Bufs -> Vals] /\ refcnt \in [Bufs -> Nat]
  /\ lock \in [Bufs -> Holders \cup {Nobody}]
  /\ lru \in [Bufs -> Bufs] /\ \A k \in Bufs : \E i \in Bufs : lru[i] = k
  /\ disk \in [Blocks -> Vals] /\ pinned \subseteq Blocks
  /\ pc \in [Holders -> {"idle", "acquiresleep", "bread", "locked", "dirty", "written", "brelse"}]
  /\ buf \in [Holders -> Bufs] /\ panicked \in {0, 1}

\* At most one buffer caches a block, whatever the order of bget() and brelse();
\* refcnt counts the holders between bget() and brelse() and the pin, so nothing
\* is recycled under its users; and no buffer leaks: when bget() panics with "no
\* buffers", as many are held or pinned as there are.
Users(k) == {p \in Holders : pc[p] # "idle" /\ buf[p] = k}
Busy == {p \in Holders : pc[p] # "idle"}
BuffersExact ==
  /\ TypeOK
  /\ \A b \in Blocks : Cardinality(Cached(b)) <= 1
  /\ \A k \in Bufs : refcnt[k] = Cardinality(Users(k)) + IF blockno[k] \in pinned THEN 1 ELSE 0
  /\ panicked = 1 => NBUF <= Cardinality(Busy) + Cardinality(pinned)

\* The contents of block b: its buffer's, if that has them.
Contents(b) ==
  IF \E k \in Cached(b) : valid[k] = 1
  THEN data[CHOOSE k \in Cached(b) : valid[k] = 1] ELSE disk[b]
Has(p, b) == pc[p] \in {"locked", "dirty", "written"} /\ blockno[buf[p]] = b
Owner(b) == IF \E p \in Holders : Has(p, b) THEN CHOOSE p \in Holders : Has(p, b) ELSE Nobody

Abs == INSTANCE BlockStore WITH store <- [b \in Blocks |-> Contents(b)],
                                owner <- [b \in Blocks |-> Owner(b)]

\* The cache implements BlockStore: bread() returns what the last process to
\* hold the block left in it, and recycling a buffer loses nothing.
CacheCoherent == Abs!Spec
=============================================================================
