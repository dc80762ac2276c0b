---------------------------- MODULE BcacheProofs ----------------------------
(***************************************************************************)
(* Proofs about module Bcache, for every number of holders, blocks and     *)
(* buffers: reference counts are exact, a block has one buffer, and the    *)
(* cache implements BlockStore.                                            *)
(***************************************************************************)
EXTENDS Bcache, Functions, FiniteSetTheorems, WellFoundedInduction, TLAPS

USE BcacheAssumption

\* At most one buffer caches a block.
OneBuffer == \A k, l \in Bufs : blockno[k] = blockno[l] /\ blockno[k] # NoBlock => k = l

\* refcnt counts the users and the pin.
RefInv ==
  \A k \in Bufs : refcnt[k] = Cardinality(Users(k)) + IF blockno[k] \in pinned THEN 1 ELSE 0

\* A pinned block is cached, and the log pins no more than it has room for.
PinInv ==
  /\ \A b \in pinned : Cached(b) # {}
  /\ IsFiniteSet(pinned) /\ Cardinality(pinned) <= MaxPins

\* Who stands between acquiresleep() and releasesleep() holds the buffer's lock.
Holds == {"bread", "locked", "dirty", "written"}
LockInv ==
  \A p \in Holders :
    /\ pc[p] # "idle" => blockno[buf[p]] \in Blocks
    /\ pc[p] \in Holds => lock[buf[p]] = p
    /\ pc[p] \in Holds \ {"bread"} => valid[buf[p]] = 1
    /\ pc[p] = "bread" => valid[buf[p]] = 0

\* A buffer that differs from the disk is pinned, or is being changed.
CleanInv ==
  /\ \A k \in Bufs : valid[k] = 1 =>
       /\ blockno[k] \in Blocks
       /\ \/ data[k] = disk[blockno[k]] \/ blockno[k] \in pinned
          \/ \E p \in Holders : pc[p] = "dirty" /\ buf[p] = k
  /\ \A p \in Holders : pc[p] = "written" => data[buf[p]] = disk[blockno[buf[p]]]

BcacheInv == TypeOK /\ OneBuffer /\ RefInv /\ PinInv /\ LockInv /\ CleanInv
-----------------------------------------------------------------------------
\* The buffer that bget() recycles has no user and no pin.
LEMMA VictimUnused ==
  ASSUME BcacheInv, Unused # {}
  PROVE  /\ Victim \in Bufs /\ refcnt[Victim] = 0 /\ blockno[Victim] \notin pinned
         /\ \A p \in Holders : pc[p] # "idle" => buf[p] # Victim
<1>1. PICK i \in Unused : \A j \in Unused : j <= i
  <2> DEFINE T == {NBUF - i : i \in Unused}
             R == OpToRel(<, Nat)
  <2>1. T \subseteq Nat /\ T # {}
    BY DEF Unused, Bufs
  <2>2. \E x \in T : \A y \in T : ~(<<y, x>> \in R)
    <3> HIDE DEF T
    <3> QED
      BY <2>1, NatLessThanWellFounded, WFMin, Zenon
  <2>3. PICK x \in T : \A y \in T : ~(y < x)
    BY <2>1, <2>2, Zenon DEF OpToRel
  <2>4. PICK i \in Unused : x = NBUF - i
    BY <2>3, Zenon
  <2>5. \A j \in Unused : j <= i
    <3> SUFFICES ASSUME NEW j \in Unused PROVE j <= i
      BY Zenon
    <3>1. NBUF - j \in T /\ ~(NBUF - j < NBUF - i)
      BY <2>3, <2>4, Zenon
    <3> QED
      BY <3>1 DEF Unused, Bufs
  <2> QED
    BY <2>5, Zenon
<1>2. Victim \in Bufs /\ refcnt[Victim] = 0
  <2> DEFINE m == CHOOSE n \in Unused : \A j \in Unused : j <= n
  <2>1. m \in Unused
    BY <1>1, Zenon
  <2> QED
    BY <2>1, Zenon DEF Victim, Unused, BcacheInv, TypeOK
<1>3. IsFiniteSet(Users(Victim)) /\ Cardinality(Users(Victim)) \in Nat
  BY FS_Subset, FS_CardinalityType, Zenon DEF Users
<1>4. Cardinality(Users(Victim)) = 0 /\ blockno[Victim] \notin pinned
  BY <1>2, <1>3 DEF BcacheInv, RefInv
<1>5. Users(Victim) = {}
  BY <1>3, <1>4, FS_EmptySet, Zenon
<1> QED
  BY <1>2, <1>4, <1>5, Zenon DEF Users

\* A call that begins adds a user, one that ends takes it away.
LEMMA UserAdded ==
  ASSUME NEW p \in Holders, pc[p] = "idle", NEW k, NEW q \in Holds \cup {"acquiresleep"},
         pc' = [pc EXCEPT ![p] = q], buf' = [buf EXCEPT ![p] = k], BcacheInv, k \in Bufs
  PROVE  /\ Cardinality(Users(k)') = Cardinality(Users(k)) + 1
         /\ \A j \in Bufs \ {k} : Users(j)' = Users(j)
<1>1. Users(k)' = Users(k) \cup {p} /\ p \notin Users(k)
  BY DEF Users, BcacheInv, TypeOK, Holds
<1>2. IsFiniteSet(Users(k))
  BY FS_Subset, Zenon DEF Users
<1>3. \A j \in Bufs \ {k} : Users(j)' = Users(j)
  BY Zenon DEF Users, BcacheInv, TypeOK
<1> QED
  BY <1>1, <1>2, <1>3, FS_AddElement, Zenon

\* brelse() takes one process from the users of its buffer.
LEMMA UserRemoved ==
  ASSUME NEW p \in Holders, pc[p] # "idle", pc' = [pc EXCEPT ![p] = "idle"], buf' = buf, BcacheInv
  PROVE  /\ Cardinality(Users(buf[p])') = Cardinality(Users(buf[p])) - 1
         /\ \A j \in Bufs \ {buf[p]} : Users(j)' = Users(j)
<1>1. Users(buf[p])' = Users(buf[p]) \ {p} /\ p \in Users(buf[p])
  BY Zenon DEF Users, BcacheInv, TypeOK
<1>2. IsFiniteSet(Users(buf[p]))
  BY FS_Subset, Zenon DEF Users
<1>3. \A j \in Bufs \ {buf[p]} : Users(j)' = Users(j)
  BY Zenon DEF Users, BcacheInv, TypeOK
<1> QED
  BY <1>1, <1>2, <1>3, FS_RemoveElement, ZenonT(60)

\* The users of a buffer are a finite set.
LEMMA UsersType == \A k \in Bufs : IsFiniteSet(Users(k)) /\ Cardinality(Users(k)) \in Nat
  BY FS_Subset, FS_CardinalityType, Zenon DEF Users

\* Moving a buffer to the front keeps every buffer in the list.
LEMMA FrontType ==
  ASSUME BcacheInv, NEW k \in Bufs
  PROVE  /\ MoveToFront(k) \in [Bufs -> Bufs]
         /\ \A l \in Bufs : \E i \in Bufs : MoveToFront(k)[i] = l
<1> USE DEF BcacheInv, TypeOK, MoveToFront, Bufs
<1>1. MoveToFront(k) \in [Bufs -> Bufs]
  <2>1. \A i \in Bufs : i # 1 => i - 1 \in Bufs
    OBVIOUS
  <2>2. \A i \in Bufs : lru[i] \in Bufs
    BY Zenon
  <2> HIDE DEF Bufs
  <2> QED
    BY <2>1, <2>2, Zenon
<1>2. ASSUME NEW l \in Bufs PROVE \E i \in Bufs : MoveToFront(k)[i] = l
  <2>1. CASE l = k
    BY <2>1
  <2>2. CASE l # k
    <3>1. PICK i \in Bufs : lru[i] = l
      BY Zenon
    <3>2. CASE \E j \in i + 1 .. NBUF : lru[j] = k
      <4>1. i + 1 \in Bufs /\ i + 1 # 1 /\ (i + 1) - 1 = i
        BY <3>2
      <4>2. MoveToFront(k)[i + 1] = lru[i]
        BY <3>2, <4>1, Zenon
      <4> QED
        BY <3>1, <4>1, <4>2, Zenon
    <3>3. CASE ~ \E j \in i + 1 .. NBUF : lru[j] = k
      <4>1. ~ \E j \in i .. NBUF : lru[j] = k
        BY <2>2, <3>1, <3>3
      <4>2. i # 1
        BY <4>1, Zenon
      <4> QED
        BY <3>1, <4>1, <4>2, Zenon
    <3> QED
      BY <3>2, <3>3, Zenon
  <2> QED
    BY <2>1, <2>2, Zenon
<1> QED
  BY <1>1, <1>2, Zenon

-----------------------------------------------------------------------------
Step(p) ==
  \/ \E k \in Bufs : bget_hit(p, k)
  \/ \E b \in Blocks : bget_miss(p, b)
  \/ bget_lock(p) \/ bread(p) \/ \E v \in Vals : modify(p, v)
  \/ bwrite(p) \/ bpin(p) \/ bunpin(p) \/ brelse_unlock(p) \/ brelse(p)

\* refcnt follows its users and the pin.
LEMMA NextRef ==
  ASSUME BcacheInv, NEW p \in Holders, Step(p)
  PROVE  RefInv'
<1> USE DEF BcacheInv, At, Goto, TypeOK, RefInv, OneBuffer, LockInv
<1>1. ASSUME NEW k \in Bufs, bget_hit(p, k) PROVE RefInv'
  <2>1. /\ Cardinality(Users(k)') = Cardinality(Users(k)) + 1
        /\ \A j \in Bufs \ {k} : Users(j)' = Users(j)
    BY <1>1, UserAdded, Zenon DEF bget_hit
  <2> QED
    BY <1>1, <2>1, UsersType DEF bget_hit
<1>2. ASSUME NEW b \in Blocks, bget_miss(p, b) PROVE RefInv'
  <2>1. CASE Unused = {}
    BY <1>2, <2>1 DEF bget_miss, Users
  <2>2. CASE Unused # {}
    <3>0. PICK v \in Bufs : v = Victim
      BY <2>2, VictimUnused, Zenon
    <3>1. /\ refcnt[v] = 0 /\ blockno[v] \notin pinned
          /\ \A q \in Holders : pc[q] # "idle" => buf[q] # v
      BY <2>2, <3>0, VictimUnused, Zenon
    <3>2. /\ pc[p] = "idle" /\ Cached(b) = {}
          /\ blockno' = [blockno EXCEPT ![v] = b] /\ valid' = [valid EXCEPT ![v] = 0]
          /\ refcnt' = [refcnt EXCEPT ![v] = 1] /\ buf' = [buf EXCEPT ![p] = v]
          /\ pc' = [pc EXCEPT ![p] = "acquiresleep"]
          /\ UNCHANGED <<data, lock, lru, disk, pinned, panicked>>
      BY <1>2, <2>2, <3>0, Zenon DEF bget_miss, bget_recycle
    <3>3. /\ Cardinality(Users(v)') = Cardinality(Users(v)) + 1
          /\ \A j \in Bufs \ {v} : Users(j)' = Users(j)
      <4> HIDE DEF BcacheInv, TypeOK, RefInv, OneBuffer, LockInv
      <4>1. "acquiresleep" \in Holds \cup {"acquiresleep"}
        BY Zenon
      <4> QED
        BY <3>1, <3>2, <4>1, UserAdded, Zenon
    <3>4. Cardinality(Users(v)) = 0
      BY <3>1, UsersType
    <3>5. b \notin pinned
      BY <3>2, Zenon DEF PinInv
    <3>6. refcnt'[v] = Cardinality(Users(v)') + IF blockno'[v] \in pinned' THEN 1 ELSE 0
      BY <3>1, <3>2, <3>3, <3>4, <3>5
    <3>7. ASSUME NEW j \in Bufs \ {v} PROVE
            refcnt'[j] = Cardinality(Users(j)') + IF blockno'[j] \in pinned' THEN 1 ELSE 0
      <4>1. /\ refcnt'[j] = refcnt[j] /\ blockno'[j] = blockno[j] /\ pinned' = pinned
            /\ Users(j)' = Users(j)
        BY <3>1, <3>2, <3>3, Zenon
      <4> QED
        BY <4>1, Zenon
    <3> QED
      BY <3>6, <3>7, Zenon
  <2> QED
    BY <2>1, <2>2, Zenon
<1>3. ASSUME NEW v \in Vals, modify(p, v) PROVE RefInv'
  <2>1. \A j \in Bufs : Users(j)' = Users(j)
    BY <1>3, Zenon DEF modify, Users
  <2> QED
    BY <1>3, <2>1, Zenon DEF modify
<1>4. CASE bget_lock(p)
  <2>1. \A j \in Bufs : Users(j)' = Users(j)
    BY <1>4, Zenon DEF bget_lock, Users
  <2> QED
    BY <1>4, <2>1, Zenon DEF bget_lock
<1>5. CASE bread(p)
  <2>1. \A j \in Bufs : Users(j)' = Users(j)
    BY <1>5, Zenon DEF bread, Users
  <2> QED
    BY <1>5, <2>1, Zenon DEF bread
<1>6. CASE bwrite(p)
  <2>1. \A j \in Bufs : Users(j)' = Users(j)
    BY <1>6, Zenon DEF bwrite, Users
  <2> QED
    BY <1>6, <2>1, Zenon DEF bwrite
<1>7. CASE bpin(p)
  <2>1. \A j \in Bufs : Users(j)' = Users(j)
    BY <1>7, Zenon DEF bpin, Users
  <2>2. buf[p] \in Bufs /\ blockno[buf[p]] # NoBlock
    BY <1>7, Zenon DEF bpin
  <2>3. \A j \in Bufs \ {buf[p]} : blockno[j] \in pinned' <=> blockno[j] \in pinned
    BY <1>7, <2>2, Zenon DEF bpin
  <2> QED
    BY <1>7, <2>1, <2>2, <2>3, UsersType DEF bpin
<1>8. CASE bunpin(p)
  <2>1. \A j \in Bufs : Users(j)' = Users(j)
    BY <1>8, Zenon DEF bunpin, Users
  <2>2. buf[p] \in Bufs /\ blockno[buf[p]] # NoBlock
    BY <1>8, Zenon DEF bunpin
  <2>3. \A j \in Bufs \ {buf[p]} : blockno[j] \in pinned' <=> blockno[j] \in pinned
    BY <1>8, <2>2, Zenon DEF bunpin
  <2> QED
    BY <1>8, <2>1, <2>2, <2>3, UsersType DEF bunpin
<1>9. CASE brelse_unlock(p)
  <2>1. \A j \in Bufs : Users(j)' = Users(j)
    BY <1>9, Zenon DEF brelse_unlock, Users
  <2> QED
    BY <1>9, <2>1, Zenon DEF brelse_unlock
<1>10. CASE brelse(p)
  <2>1. /\ Cardinality(Users(buf[p])') = Cardinality(Users(buf[p])) - 1
        /\ \A j \in Bufs \ {buf[p]} : Users(j)' = Users(j)
    BY <1>10, UserRemoved, Zenon DEF brelse
  <2> QED
    BY <1>10, <2>1, UsersType DEF brelse
<1> QED
  BY <1>1, <1>2, <1>3, <1>4, <1>5, <1>6, <1>7, <1>8, <1>9, <1>10, Zenon DEF Step

\* Every variable keeps to its values, and every buffer to the list.
LEMMA NextType ==
  ASSUME BcacheInv, NEW p \in Holders, Step(p)
  PROVE  TypeOK'
<1> USE DEF BcacheInv, At, Goto, TypeOK, LockInv
<1>1. ASSUME NEW k \in Bufs, bget_hit(p, k) PROVE TypeOK'
  BY <1>1 DEF bget_hit
<1>2. ASSUME NEW b \in Blocks, bget_miss(p, b) PROVE TypeOK'
  <2>1. CASE Unused = {}
    BY <1>2, <2>1, Zenon DEF bget_miss
  <2>2. CASE Unused # {}
    <3>0. PICK v \in Bufs : v = Victim
      BY <2>2, VictimUnused, Zenon
    <3>1. /\ refcnt[v] = 0 /\ blockno[v] \notin pinned
          /\ \A q \in Holders : pc[q] # "idle" => buf[q] # v
      BY <2>2, <3>0, VictimUnused, Zenon
    <3>2. /\ pc[p] = "idle" /\ Cached(b) = {}
          /\ blockno' = [blockno EXCEPT ![v] = b] /\ valid' = [valid EXCEPT ![v] = 0]
          /\ refcnt' = [refcnt EXCEPT ![v] = 1] /\ buf' = [buf EXCEPT ![p] = v]
          /\ pc' = [pc EXCEPT ![p] = "acquiresleep"]
          /\ UNCHANGED <<data, lock, lru, disk, pinned, panicked>>
      BY <1>2, <2>2, <3>0, Zenon DEF bget_miss, bget_recycle
    <3> QED
      BY <3>1, <3>2, Zenon
  <2> QED
    BY <2>1, <2>2, Zenon
<1>3. ASSUME NEW v \in Vals, modify(p, v) PROVE TypeOK'
  BY <1>3, Zenon DEF modify
<1>4. CASE bget_lock(p)
  BY <1>4, Zenon DEF bget_lock
<1>5. CASE bread(p)
  BY <1>5, Zenon DEF bread
<1>6. CASE bwrite(p)
  BY <1>6, Zenon DEF bwrite
<1>7. CASE bpin(p)
  BY <1>7 DEF bpin
<1>8. CASE bunpin(p)
  <2>1. refcnt[buf[p]] - 1 \in Nat
    BY <1>8, UsersType DEF bunpin, RefInv
  <2> QED
    BY <1>8, <2>1, Zenon DEF bunpin
<1>9. CASE brelse_unlock(p)
  BY <1>9, Zenon DEF brelse_unlock
<1>10. CASE brelse(p)
  <2>1. refcnt[buf[p]] - 1 \in Nat
    <3>1. p \in Users(buf[p])
      BY <1>10, Zenon DEF brelse, Users
    <3>2. Cardinality(Users(buf[p])) # 0
      BY <3>1, UsersType, FS_EmptySet, Zenon
    <3> QED
      BY <1>10, <3>2, UsersType DEF RefInv
  <2>2. lru' \in [Bufs -> Bufs] /\ \A k \in Bufs : \E i \in Bufs : lru'[i] = k
    <3>1. /\ MoveToFront(buf[p]) \in [Bufs -> Bufs]
          /\ \A l \in Bufs : \E i \in Bufs : MoveToFront(buf[p])[i] = l
      BY FrontType, Zenon
    <3>2. lru' = MoveToFront(buf[p]) \/ lru' = lru
      BY <1>10, Zenon DEF brelse
    <3> QED
      BY <3>1, <3>2, Zenon
  <2> QED
    BY <1>10, <2>1, <2>2, Zenon DEF brelse
<1> QED
  BY <1>1, <1>2, <1>3, <1>4, <1>5, <1>6, <1>7, <1>8, <1>9, <1>10, Zenon DEF Step

\* A block gets a buffer only when it has none.
LEMMA NextOne ==
  ASSUME BcacheInv, NEW p \in Holders, Step(p)
  PROVE  OneBuffer'
<1> USE DEF BcacheInv, At, Goto, TypeOK, OneBuffer, Cached
<1>1. ASSUME NEW k \in Bufs, bget_hit(p, k) PROVE OneBuffer'
  BY <1>1, Zenon DEF bget_hit
<1>2. ASSUME NEW b \in Blocks, bget_miss(p, b) PROVE OneBuffer'
  <2>1. CASE Unused = {}
    BY <1>2, <2>1, Zenon DEF bget_miss
  <2>2. CASE Unused # {}
    <3>0. PICK v \in Bufs : v = Victim
      BY <2>2, VictimUnused, Zenon
    <3>1. /\ refcnt[v] = 0 /\ blockno[v] \notin pinned
          /\ \A q \in Holders : pc[q] # "idle" => buf[q] # v
      BY <2>2, <3>0, VictimUnused, Zenon
    <3>2. /\ pc[p] = "idle" /\ Cached(b) = {}
          /\ blockno' = [blockno EXCEPT ![v] = b] /\ valid' = [valid EXCEPT ![v] = 0]
          /\ refcnt' = [refcnt EXCEPT ![v] = 1] /\ buf' = [buf EXCEPT ![p] = v]
          /\ pc' = [pc EXCEPT ![p] = "acquiresleep"]
          /\ UNCHANGED <<data, lock, lru, disk, pinned, panicked>>
      BY <1>2, <2>2, <3>0, Zenon DEF bget_miss, bget_recycle
    <3> QED
      BY <3>1, <3>2, Zenon
  <2> QED
    BY <2>1, <2>2, Zenon
<1>3. ASSUME NEW v \in Vals, modify(p, v) PROVE OneBuffer'
  BY <1>3, Zenon DEF modify
<1>4. CASE bget_lock(p)
  BY <1>4, Zenon DEF bget_lock
<1>5. CASE bread(p)
  BY <1>5, Zenon DEF bread
<1>6. CASE bwrite(p)
  BY <1>6, Zenon DEF bwrite
<1>7. CASE bpin(p)
  BY <1>7, Zenon DEF bpin
<1>8. CASE bunpin(p)
  BY <1>8, Zenon DEF bunpin
<1>9. CASE brelse_unlock(p)
  BY <1>9, Zenon DEF brelse_unlock
<1>10. CASE brelse(p)
  BY <1>10, Zenon DEF brelse
<1> QED
  BY <1>1, <1>2, <1>3, <1>4, <1>5, <1>6, <1>7, <1>8, <1>9, <1>10, Zenon DEF Step

\* The log pins the buffers it holds, and nothing pinned is recycled.
LEMMA NextPin ==
  ASSUME BcacheInv, NEW p \in Holders, Step(p)
  PROVE  PinInv'
<1> USE DEF BcacheInv, At, Goto, TypeOK, PinInv, Cached, LockInv
<1>1. ASSUME NEW k \in Bufs, bget_hit(p, k) PROVE PinInv'
  BY <1>1 DEF bget_hit
<1>2. ASSUME NEW b \in Blocks, bget_miss(p, b) PROVE PinInv'
  BY <1>2, VictimUnused, SMTT(60) DEF bget_miss, bget_recycle
<1>3. ASSUME NEW v \in Vals, modify(p, v) PROVE PinInv'
  BY <1>3 DEF modify
<1>4. CASE bget_lock(p)
  BY <1>4 DEF bget_lock
<1>5. CASE bread(p)
  BY <1>5 DEF bread
<1>6. CASE bwrite(p)
  BY <1>6 DEF bwrite
<1>7. CASE bpin(p)
  <2>1. buf[p] \in Cached(blockno[buf[p]])
    BY Zenon DEF Cached
  <2>2. IsFiniteSet(pinned')
    BY <1>7, FS_AddElement, ZenonT(60) DEF bpin
  <2> QED
    BY <1>7, <2>1, <2>2 DEF bpin
<1>8. CASE bunpin(p)
  <2>1. /\ IsFiniteSet(pinned') /\ Cardinality(pinned') <= Cardinality(pinned)
        /\ Cardinality(pinned') \in Nat /\ Cardinality(pinned) \in Nat
    BY <1>8, FS_Subset, FS_CardinalityType, Zenon DEF bunpin
  <2> QED
    BY <1>8, <2>1 DEF bunpin
<1>9. CASE brelse_unlock(p)
  BY <1>9 DEF brelse_unlock
<1>10. CASE brelse(p)
  BY <1>10 DEF brelse
<1> QED
  BY <1>1, <1>2, <1>3, <1>4, <1>5, <1>6, <1>7, <1>8, <1>9, <1>10, Zenon DEF Step

\* A buffer's lock has one holder, and its block and b->valid stay while it is
\* held.
LEMMA NextLock ==
  ASSUME BcacheInv, NEW p \in Holders, Step(p)
  PROVE  LockInv'
<1> USE DEF BcacheInv, At, Goto, TypeOK, LockInv, Holds
<1>1. ASSUME NEW k \in Bufs, bget_hit(p, k) PROVE LockInv'
  BY <1>1 DEF bget_hit
<1>2. ASSUME NEW b \in Blocks, bget_miss(p, b) PROVE LockInv'
  BY <1>2, VictimUnused, SMTT(60) DEF bget_miss, bget_recycle
<1>3. ASSUME NEW v \in Vals, modify(p, v) PROVE LockInv'
  BY <1>3, Zenon DEF modify
<1>4. CASE bget_lock(p)
  BY <1>4 DEF bget_lock
<1>5. CASE bread(p)
  BY <1>5 DEF bread
<1>6. CASE bwrite(p)
  BY <1>6, Zenon DEF bwrite
<1>7. CASE bpin(p)
  BY <1>7, Zenon DEF bpin
<1>8. CASE bunpin(p)
  BY <1>8, Zenon DEF bunpin
<1>9. CASE brelse_unlock(p)
  BY <1>9 DEF brelse_unlock
<1>10. CASE brelse(p)
  BY <1>10, Zenon DEF brelse
<1> QED
  BY <1>1, <1>2, <1>3, <1>4, <1>5, <1>6, <1>7, <1>8, <1>9, <1>10, Zenon DEF Step

\* No change is dropped: brelse() follows a log_write() or a bwrite().
LEMMA NextClean ==
  ASSUME BcacheInv, NEW p \in Holders, Step(p)
  PROVE  CleanInv'
<1> USE DEF BcacheInv, At, Goto, TypeOK, CleanInv, LockInv, OneBuffer, Holds
<1>1. ASSUME NEW k \in Bufs, bget_hit(p, k) PROVE CleanInv'
  BY <1>1 DEF bget_hit
<1>2. ASSUME NEW b \in Blocks, bget_miss(p, b) PROVE CleanInv'
  <2>1. CASE Unused = {}
    BY <1>2, <2>1 DEF bget_miss
  <2>2. CASE Unused # {}
    <3>0. PICK v \in Bufs : v = Victim
      BY <2>2, VictimUnused, Zenon
    <3>1. /\ refcnt[v] = 0 /\ blockno[v] \notin pinned
          /\ \A q \in Holders : pc[q] # "idle" => buf[q] # v
      BY <2>2, <3>0, VictimUnused, Zenon
    <3>2. /\ pc[p] = "idle" /\ Cached(b) = {}
          /\ blockno' = [blockno EXCEPT ![v] = b] /\ valid' = [valid EXCEPT ![v] = 0]
          /\ refcnt' = [refcnt EXCEPT ![v] = 1] /\ buf' = [buf EXCEPT ![p] = v]
          /\ pc' = [pc EXCEPT ![p] = "acquiresleep"]
          /\ UNCHANGED <<data, lock, lru, disk, pinned, panicked>>
      BY <1>2, <2>2, <3>0, Zenon DEF bget_miss, bget_recycle
    <3> QED
      BY <3>1, <3>2, SMTT(60)
  <2> QED
    BY <2>1, <2>2, Zenon
<1>3. ASSUME NEW v \in Vals, modify(p, v) PROVE CleanInv'
  BY <1>3 DEF modify
<1>4. CASE bget_lock(p)
  BY <1>4 DEF bget_lock
<1>5. CASE bread(p)
  BY <1>5 DEF bread
<1>6. CASE bwrite(p)
  BY <1>6 DEF bwrite
<1>7. CASE bpin(p)
  BY <1>7, SMTT(60) DEF bpin
<1>8. CASE bunpin(p)
  BY <1>8, SMTT(60) DEF bunpin
<1>9. CASE brelse_unlock(p)
  BY <1>9 DEF brelse_unlock
<1>10. CASE brelse(p)
  BY <1>10 DEF brelse
<1> QED
  BY <1>1, <1>2, <1>3, <1>4, <1>5, <1>6, <1>7, <1>8, <1>9, <1>10, Zenon DEF Step

\* Init establishes the invariant.
LEMMA InitInv == Init => BcacheInv
<1> SUFFICES ASSUME Init PROVE BcacheInv
  BY Zenon
<1> USE DEF Init
<1>1. TypeOK
  <2>1. lru \in [Bufs -> Bufs]
    BY DEF Bufs
  <2>2. ASSUME NEW k \in Bufs PROVE \E i \in Bufs : lru[i] = k
    <3>1. NBUF + 1 - k \in Bufs /\ NBUF + 1 - (NBUF + 1 - k) = k
      BY DEF Bufs
    <3> QED
      BY <3>1, Zenon
  <2>3. 1 \in Bufs
    BY DEF Bufs
  <2> QED
    BY <2>1, <2>2, <2>3, Zenon DEF TypeOK
<1>2. RefInv
  <2>1. \A k \in Bufs : Users(k) = {}
    BY Zenon DEF Users
  <2>2. Cardinality({}) = 0
    BY FS_EmptySet, Zenon
  <2>3. \A k \in Bufs : Cardinality(Users(k)) = 0
    BY <2>1, <2>2, Zenon
  <2>4. \A k \in Bufs : refcnt[k] = 0 /\ blockno[k] \notin pinned
    OBVIOUS
  <2> QED
    BY <2>3, <2>4 DEF RefInv
<1>3. PinInv
  BY FS_EmptySet DEF PinInv
<1>4. OneBuffer /\ LockInv /\ CleanInv
  BY DEF OneBuffer, LockInv, CleanInv, Holds
<1> QED
  BY <1>1, <1>2, <1>3, <1>4, Zenon DEF BcacheInv

\* BcacheInv is inductive.
LEMMA NextInv == BcacheInv /\ [Next]_vars => BcacheInv'
<1> SUFFICES ASSUME BcacheInv, [Next]_vars PROVE BcacheInv'
  BY Zenon
<1>1. CASE UNCHANGED vars
  BY <1>1, SMTT(60) DEF vars, BcacheInv, TypeOK, OneBuffer, RefInv, Users, PinInv, Cached, LockInv, CleanInv
<1>2. ASSUME NEW p \in Holders, Step(p) PROVE BcacheInv'
  BY <1>2, NextRef, NextType, NextOne, NextPin, NextLock, NextClean, Zenon DEF BcacheInv
<1> QED
  BY <1>1, <1>2, Zenon DEF Next, Step, panic

\* The inductive invariant of the buffer cache holds in every reachable state,
\* also after panic("bget: no buffers").
THEOREM BcacheInvariant == Spec => []BcacheInv
  BY InitInv, NextInv, PTL DEF Spec
-----------------------------------------------------------------------------
\* bget() finds a buffer to recycle unless each is held or pinned.
LEMMA NoneLeft ==
  ASSUME BcacheInv, Unused = {}
  PROVE  NBUF <= Cardinality(Busy) + Cardinality(pinned)
<1> DEFINE U == {k \in Bufs : Users(k) # {}}
           V == {k \in Bufs : blockno[k] \in pinned}
           f == [k \in U |-> CHOOSE q \in Holders : q \in Users(k)]
           g == [k \in V |-> blockno[k]]
<1>1. Bufs \subseteq U \cup V
  <2> SUFFICES ASSUME NEW k \in Bufs, Users(k) = {}, blockno[k] \notin pinned PROVE FALSE
    BY Zenon
  <2>0. Cardinality(Users(k)) = 0
    BY FS_EmptySet, Zenon
  <2>1. refcnt[k] = 0
    BY <2>0 DEF BcacheInv, RefInv
  <2>2. PICK i \in Bufs : lru[i] = k
    BY Zenon DEF BcacheInv, TypeOK
  <2> QED
    BY <2>1, <2>2, Zenon DEF Unused
<1>2. IsFiniteSet(U) /\ Cardinality(U) <= Cardinality(Busy) /\ IsFiniteSet(Busy)
  <2>1. IsFiniteSet(Busy)
    BY FS_Subset, Zenon DEF Busy
  <2>2. \A k \in U : f[k] \in Busy /\ buf[f[k]] = k
    BY Zenon DEF Users, Busy
  <2>3. f \in Injection(U, Busy)
    <3>1. f \in [U -> Busy]
      BY <2>2, Zenon
    <3>2. \A k, l \in U : f[k] = f[l] => k = l
      BY <2>2, Zenon
    <3>3. DOMAIN f = U
      BY Zenon
    <3> HIDE DEF f, U
    <3> QED
      BY <3>1, <3>2, <3>3, Zenon DEF Injection, IsInjective
  <2> QED
    BY <2>1, <2>3, FS_Injection, Zenon
<1>3. IsFiniteSet(V) /\ Cardinality(V) <= Cardinality(pinned) /\ IsFiniteSet(pinned)
  <2>1. IsFiniteSet(pinned)
    BY Zenon DEF BcacheInv, PinInv
  <2>2. g \in Injection(V, pinned)
    BY Zenon DEF BcacheInv, TypeOK, OneBuffer, Injection, IsInjective
  <2> QED
    BY <2>1, <2>2, FS_Injection, Zenon
<1>4. Cardinality(Busy) \in Nat
  BY <1>2, FS_CardinalityType, Zenon
<1>5. Cardinality(Bufs) = NBUF /\ IsFiniteSet(Bufs)
  BY FS_Interval DEF Bufs
<1> HIDE DEF U, V
<1>6. /\ IsFiniteSet(U \cup V)
      /\ Cardinality(U \cup V) = Cardinality(U) + Cardinality(V) - Cardinality(U \cap V)
  BY <1>2, <1>3, FS_Union, Zenon
<1>7. IsFiniteSet(U \cap V)
  BY <1>2, FS_Subset, Zenon
<1>8. Cardinality(Bufs) <= Cardinality(U \cup V)
  BY <1>1, <1>6, FS_Subset, Zenon
<1>9. /\ Cardinality(U) \in Nat /\ Cardinality(V) \in Nat /\ Cardinality(U \cap V) \in Nat
      /\ Cardinality(pinned) \in Nat
  BY <1>2, <1>3, <1>7, FS_CardinalityType, Zenon
<1> QED
  BY <1>2, <1>3, <1>4, <1>5, <1>6, <1>8, <1>9

\* One buffer per block, exact reference counts, every buffer in the list, and
\* panic("bget: no buffers") only when every buffer is held or pinned, for any
\* number of buffers, of holders and of pins (bio.c:59-89).
THEOREM BuffersExactHolds == Spec => []BuffersExact
<1> DEFINE Full == panicked = 1 => NBUF <= Cardinality(Busy) + Cardinality(pinned)
           Inv == BcacheInv /\ Full
<1>1. Init => Inv
  BY InitInv DEF Init
<1>2. Inv /\ [Next]_vars => Inv'
  <2> SUFFICES ASSUME Inv, [Next]_vars PROVE Full'
    BY NextInv, Zenon
  <2>1. CASE UNCHANGED vars
    BY <2>1, Zenon DEF vars, Busy
  <2>2. ASSUME NEW p \in Holders, Step(p) PROVE Full'
    <3>1. panicked = 0
      BY <2>2, Zenon DEF Step, At, bget_hit, bget_miss, bget_lock, bread, modify, bwrite, bpin,
                  bunpin, brelse_unlock, brelse
    <3>2. CASE \E b \in Blocks : bget_miss(p, b)
      <4>1. CASE Unused = {}
        <5>1. NBUF <= Cardinality(Busy) + Cardinality(pinned)
          BY <4>1, NoneLeft, Zenon
        <5>2. pc' = pc /\ pinned' = pinned
          BY <3>2, <4>1, Zenon DEF bget_miss
        <5> QED
          BY <5>1, <5>2, Zenon DEF Busy
      <4>2. CASE Unused # {}
        BY <3>1, <3>2, <4>2 DEF bget_miss, bget_recycle
      <4> QED
        BY <4>1, <4>2, Zenon
    <3>3. CASE ~ \E b \in Blocks : bget_miss(p, b)
      <4>1. panicked' = panicked
        BY <2>2, <3>3, Zenon DEF Step, bget_hit, bget_lock, bread, modify, bwrite, bpin, bunpin,
                          brelse_unlock, brelse
      <4> QED
        BY <3>1, <4>1
    <3> QED
      BY <3>2, <3>3, Zenon
  <2> QED
    BY <2>1, <2>2, Zenon DEF Next, Step, panic
<1>3. Inv => BuffersExact
  <2> SUFFICES ASSUME Inv, NEW b \in Blocks PROVE Cardinality(Cached(b)) <= 1
    BY DEF BuffersExact, BcacheInv, RefInv
  <2>1. CASE Cached(b) = {}
    <3>1. Cardinality(Cached(b)) = 0
      BY <2>1, FS_EmptySet, Zenon
    <3> QED
      BY <3>1
  <2>2. CASE Cached(b) # {}
    <3>1. PICK k \in Bufs : Cached(b) = {k}
      BY <2>2 DEF Cached, BcacheInv, OneBuffer
    <3>2. Cardinality(Cached(b)) = 1
      BY <3>1, FS_Singleton, Zenon
    <3> QED
      BY <3>2
  <2> QED
    BY <2>1, <2>2
<1> QED
  BY <1>1, <1>2, <1>3, PTL DEF Spec
-----------------------------------------------------------------------------
(* The cache implements BlockStore.                                        *)

\* The current contents of a block, and its owner, without CHOOSE.
ContentsOK ==
  \A b \in Blocks :
    /\ \A k \in Bufs : blockno[k] = b /\ valid[k] = 1 => Contents(b) = data[k]
    /\ (\A k \in Bufs : ~(blockno[k] = b /\ valid[k] = 1)) => Contents(b) = disk[b]
OwnerOK ==
  \A b \in Blocks :
    /\ \A p \in Holders : Has(p, b) => Owner(b) = p
    /\ (\A p \in Holders : ~Has(p, b)) => Owner(b) = Nobody

\* A block has at most one buffer with its contents, and one owner.
LEMMA Unambiguous == BcacheInv => ContentsOK /\ OwnerOK
<1> SUFFICES ASSUME BcacheInv, NEW b \in Blocks
             PROVE  /\ \A k \in Bufs : blockno[k] = b /\ valid[k] = 1 => Contents(b) = data[k]
                    /\ (\A k \in Bufs : ~(blockno[k] = b /\ valid[k] = 1)) => Contents(b) = disk[b]
                    /\ \A p \in Holders : Has(p, b) => Owner(b) = p
                    /\ (\A p \in Holders : ~Has(p, b)) => Owner(b) = Nobody
  BY Zenon DEF ContentsOK, OwnerOK
<1>1. ASSUME NEW k \in Bufs, blockno[k] = b, valid[k] = 1 PROVE Contents(b) = data[k]
  <2>1. k \in Cached(b) /\ \A l \in Cached(b) : l = k
    BY <1>1, Zenon DEF Cached, BcacheInv, OneBuffer
  <2>2. (CHOOSE l \in Cached(b) : valid[l] = 1) = k
    BY <1>1, <2>1, Zenon
  <2> QED
    BY <1>1, <2>1, <2>2, Zenon DEF Contents
<1>2. ASSUME \A k \in Bufs : ~(blockno[k] = b /\ valid[k] = 1) PROVE Contents(b) = disk[b]
  BY <1>2, Zenon DEF Contents, Cached
<1>3. ASSUME NEW p \in Holders, Has(p, b) PROVE Owner(b) = p
  <2>1. \A q \in Holders : Has(q, b) => q = p
    BY <1>3 DEF Has, BcacheInv, TypeOK, OneBuffer, LockInv, Holds
  <2> QED
    BY <1>3, <2>1, Zenon DEF Owner
<1>4. ASSUME \A p \in Holders : ~Has(p, b) PROVE Owner(b) = Nobody
  BY <1>4, Zenon DEF Owner
<1> QED
  BY <1>1, <1>2, <1>3, <1>4, Zenon

\* Initially every block has the contents of the disk, and nobody has it locked.
LEMMA RefineInit == Init => Abs!Init
<1> SUFFICES ASSUME Init PROVE Abs!Init
  BY Zenon
<1>1. ContentsOK /\ OwnerOK
  BY InitInv, Unambiguous, Zenon
<1>2. \A b \in Blocks : Contents(b) = Zero /\ Owner(b) = Nobody
  BY <1>1, Zenon DEF ContentsOK, OwnerOK, Init, Has
<1> QED
  BY <1>2, Zenon DEF Abs!Init

\* When the abstract block stays as it is.
LEMMA SameContents ==
  ASSUME ContentsOK, ContentsOK', NEW b \in Blocks,
         \A k \in Bufs : /\ blockno'[k] = b /\ valid'[k] = 1 <=> blockno[k] = b /\ valid[k] = 1
                         /\ blockno[k] = b /\ valid[k] = 1 => data'[k] = data[k],
         (\A k \in Bufs : ~(blockno[k] = b /\ valid[k] = 1)) => disk'[b] = disk[b]
  PROVE  Contents(b)' = Contents(b)
<1>1. CASE \E k \in Bufs : blockno[k] = b /\ valid[k] = 1
  <2>1. PICK k \in Bufs : blockno[k] = b /\ valid[k] = 1
    BY <1>1, Zenon
  <2>2. Contents(b) = data[k] /\ Contents(b)' = data'[k]
    BY <2>1, Zenon DEF ContentsOK
  <2> QED
    BY <2>1, <2>2, Zenon
<1>2. CASE ~ \E k \in Bufs : blockno[k] = b /\ valid[k] = 1
  <2>1. Contents(b) = disk[b] /\ Contents(b)' = disk'[b]
    BY <1>2, Zenon DEF ContentsOK
  <2> QED
    BY <1>2, <2>1, Zenon
<1> QED
  BY <1>1, <1>2, Zenon

\* A block keeps its owner while the same processes have it.
LEMMA SameOwner ==
  ASSUME OwnerOK, OwnerOK', NEW b \in Blocks, \A q \in Holders : Has(q, b)' <=> Has(q, b)
  PROVE  Owner(b)' = Owner(b)
<1>1. CASE \E q \in Holders : Has(q, b)
  <2>1. PICK q \in Holders : Has(q, b)
    BY <1>1, Zenon
  <2> QED
    BY <2>1, Zenon DEF OwnerOK
<1>2. CASE ~ \E q \in Holders : Has(q, b)
  BY <1>2, Zenon DEF OwnerOK
<1> QED
  BY <1>1, <1>2, Zenon

\* What a step of p does to the abstract blocks.
Others(c) == \A b \in Blocks \ {c} : Contents(b)' = Contents(b) /\ Owner(b)' = Owner(b)
Quiet == \A b \in Blocks : Contents(b)' = Contents(b) /\ Owner(b)' = Owner(b)
Locks(p) == \E c \in Blocks : /\ Others(c) /\ Contents(c)' = Contents(c)
                              /\ Owner(c) = Nobody /\ Owner(c)' = p
Writes(p) == \E c \in Blocks : /\ Others(c) /\ Contents(c)' \in Vals
                               /\ Owner(c) = p /\ Owner(c)' = p
Unlocks(p) == \E c \in Blocks : /\ Others(c) /\ Contents(c)' = Contents(c)
                                /\ Owner(c) = p /\ Owner(c)' = Nobody

\* Every step locks, writes or unlocks one block, or leaves the blocks alone.
LEMMA RefineStep ==
  ASSUME BcacheInv, BcacheInv', NEW p \in Holders, Step(p)
  PROVE  Quiet \/ Locks(p) \/ Writes(p) \/ Unlocks(p)
<1>c. ContentsOK /\ OwnerOK /\ ContentsOK' /\ OwnerOK'
  <2>1. BcacheInv' => ContentsOK' /\ OwnerOK'
    BY Unambiguous, PTL
  <2> QED
    BY <2>1, Unambiguous, Zenon
<1> USE DEF At, Goto
<1>t. /\ buf[p] \in Bufs /\ NoBlock \notin Blocks
      /\ pc[p] # "idle" => blockno[buf[p]] \in Blocks
      /\ DOMAIN pc = Holders /\ DOMAIN buf = Holders
      /\ DOMAIN blockno = Bufs /\ DOMAIN valid = Bufs /\ DOMAIN data = Bufs /\ DOMAIN disk = Blocks
  BY Zenon DEF BcacheInv, TypeOK, LockInv
<1>a. ASSUME UNCHANGED <<blockno, valid, data, disk>>
      PROVE  \A b \in Blocks : Contents(b)' = Contents(b)
  BY <1>a, <1>c, SameContents, Zenon
<1>b. ASSUME NEW q, pc' = [pc EXCEPT ![p] = q], UNCHANGED <<blockno, buf>>,
             pc[p] \in {"locked", "dirty", "written"} <=> q \in {"locked", "dirty", "written"}
      PROVE  \A b \in Blocks : Owner(b)' = Owner(b)
  <2>1. \A b \in Blocks, s \in Holders : Has(s, b)' <=> Has(s, b)
    BY <1>b, <1>t, Zenon DEF Has
  <2> QED
    BY <1>c, <2>1, SameOwner, Zenon
<1>o. \A c \in Blocks, s, u \in Holders : Has(s, c) /\ Has(u, c) => s = u
  BY <1>c, Zenon DEF OwnerOK
<1>d. ASSUME NEW c \in Blocks, NEW q, c = blockno[buf[p]], pc' = [pc EXCEPT ![p] = q],
             UNCHANGED <<blockno, buf>>
      PROVE  \A b \in Blocks \ {c} : Owner(b)' = Owner(b)
  <2>1. \A b \in Blocks \ {c}, s \in Holders : Has(s, b)' <=> Has(s, b)
    BY <1>d, <1>t, Zenon DEF Has
  <2> QED
    BY <1>c, <2>1, SameOwner, Zenon
<1>1. ASSUME NEW k \in Bufs, bget_hit(p, k) PROVE Quiet
  <2>1. \A b \in Blocks, s \in Holders : Has(s, b)' <=> Has(s, b)
    BY <1>1, <1>t, Zenon DEF Has, bget_hit
  <2>2. \A b \in Blocks : Owner(b)' = Owner(b)
    BY <1>c, <2>1, SameOwner, Zenon
  <2> QED
    BY <1>1, <1>a, <2>2, Zenon DEF bget_hit, Quiet
<1>2. ASSUME NEW b \in Blocks, bget_miss(p, b) PROVE Quiet
  <2>1. CASE Unused = {}
    <3>1. \A c \in Blocks, s \in Holders : Has(s, c)' <=> Has(s, c)
      BY <1>2, <2>1, Zenon DEF Has, bget_miss
    <3> QED
      BY <1>2, <1>a, <1>c, <2>1, <3>1, SameOwner, Zenon DEF bget_miss, Quiet
  <2>2. CASE Unused # {}
    <3>0. PICK v \in Bufs : v = Victim
      BY <2>2, VictimUnused, Zenon
    <3>1. blockno[v] \notin pinned /\ \A q \in Holders : pc[q] # "idle" => buf[q] # v
      BY <2>2, <3>0, VictimUnused, Zenon
    <3>2. /\ pc[p] = "idle" /\ Cached(b) = {}
          /\ blockno' = [blockno EXCEPT ![v] = b] /\ valid' = [valid EXCEPT ![v] = 0]
          /\ buf' = [buf EXCEPT ![p] = v] /\ pc' = [pc EXCEPT ![p] = "acquiresleep"]
          /\ UNCHANGED <<data, disk>>
      BY <1>2, <2>2, <3>0, Zenon DEF bget_miss, bget_recycle
    <3>3. \A c \in Blocks, s \in Holders : Has(s, c)' <=> Has(s, c)
      BY <1>t, <3>1, <3>2, SMTT(60) DEF Has
    <3>4. \A c \in Blocks : Owner(c)' = Owner(c)
      BY <1>c, <3>3, SameOwner, Zenon
    <3>5. ASSUME NEW c \in Blocks, ~(c = blockno[v] /\ valid[v] = 1)
          PROVE  Contents(c)' = Contents(c)
      <4>1. \A k \in Bufs :
               blockno'[k] = c /\ valid'[k] = 1 <=> blockno[k] = c /\ valid[k] = 1
        BY <1>t, <3>2, <3>5, SMTT(60)
      <4> QED
        BY <1>c, <3>2, <4>1, SameContents, Zenon
    <3>6. ASSUME NEW c \in Blocks, c = blockno[v], valid[v] = 1 PROVE Contents(c)' = Contents(c)
      <4>1. data[v] = disk[c]
        BY <3>1, <3>6, Zenon DEF BcacheInv, CleanInv
      <4>2. \A k \in Bufs : ~(blockno'[k] = c /\ valid'[k] = 1)
        BY <1>t, <3>2, <3>6 DEF BcacheInv, OneBuffer
      <4>3. Contents(c) = data[v] /\ Contents(c)' = disk'[c]
        BY <1>c, <3>6, <4>2, Zenon DEF ContentsOK
      <4> QED
        BY <3>2, <4>1, <4>3, Zenon
    <3> QED
      BY <3>4, <3>5, <3>6, Zenon DEF Quiet
  <2> QED
    BY <2>1, <2>2, Zenon
<1>3. ASSUME NEW v \in Vals, modify(p, v) PROVE Writes(p)
  <2>1. PICK c \in Blocks : c = blockno[buf[p]]
    BY <1>3, <1>t, Zenon DEF modify
  <2>2. /\ pc[p] = "locked" /\ pc' = [pc EXCEPT ![p] = "dirty"]
        /\ data' = [data EXCEPT ![buf[p]] = v] /\ UNCHANGED <<blockno, valid, disk, buf>>
    BY <1>3, Zenon DEF modify
  <2>3. \A b \in Blocks : Owner(b)' = Owner(b)
    BY <1>b, <2>2, Zenon
  <2>4. Has(p, c) /\ Owner(c) = p
    BY <1>c, <2>1, <2>2, Zenon DEF Has, OwnerOK
  <2>5. Contents(c)' = v
    BY <1>c, <1>t, <2>1, <2>2, Zenon DEF ContentsOK, BcacheInv, LockInv, Holds
  <2>6. \A b \in Blocks \ {c} : Contents(b)' = Contents(b)
    BY <1>c, <1>t, <2>1, <2>2, SameContents, Zenon
  <2> QED
    BY <2>3, <2>4, <2>5, <2>6, Zenon DEF Writes, Others
<1>4. CASE bget_lock(p)
  <2>1. PICK c \in Blocks : c = blockno[buf[p]]
    BY <1>4, <1>t, Zenon DEF bget_lock
  <2>2. \A b \in Blocks : Contents(b)' = Contents(b)
    BY <1>4, <1>a, Zenon DEF bget_lock
  <2>3. CASE valid[buf[p]] = 1
    <3>1. /\ pc[p] = "acquiresleep" /\ pc' = [pc EXCEPT ![p] = "locked"]
          /\ UNCHANGED <<blockno, buf>> /\ lock[buf[p]] = Nobody
      BY <1>4, <2>3, Zenon DEF bget_lock
    <3>2. \A s \in Holders : ~Has(s, c)
      <4>1. \A k \in Bufs : blockno[k] = c => k = buf[p]
        BY <1>t, <2>1, Zenon DEF BcacheInv, OneBuffer
      <4> QED
        <5> SUFFICES ASSUME NEW s \in Holders, Has(s, c) PROVE FALSE
          BY Zenon
        <5>1. buf[s] = buf[p]
          BY <4>1, Zenon DEF Has, BcacheInv, TypeOK
        <5>2. lock[buf[s]] = s
          BY Zenon DEF Has, BcacheInv, LockInv, Holds
        <5> QED
          BY <3>1, <5>1, <5>2, BcacheAssumption, Zenon
    <3>3. Has(p, c)'
      BY <1>t, <2>1, <3>1, Zenon DEF Has
    <3>4. Owner(c) = Nobody /\ Owner(c)' = p
      BY <1>c, <3>2, <3>3, Zenon DEF OwnerOK
    <3> QED
      BY <1>d, <2>1, <2>2, <3>1, <3>4, Zenon DEF Locks, Others
  <2>4. CASE valid[buf[p]] # 1
    <3>1. \A b \in Blocks : Owner(b)' = Owner(b)
      BY <1>4, <1>b, <2>4, Zenon DEF bget_lock
    <3> QED
      BY <2>2, <3>1, Zenon DEF Quiet
  <2> QED
    BY <2>3, <2>4, Zenon
<1>5. CASE bread(p)
  <2>1. PICK c \in Blocks : c = blockno[buf[p]]
    BY <1>5, <1>t, Zenon DEF bread
  <2>2. /\ pc[p] = "bread" /\ pc' = [pc EXCEPT ![p] = "locked"] /\ UNCHANGED <<blockno, disk, buf>>
        /\ data' = [data EXCEPT ![buf[p]] = disk[c]] /\ valid' = [valid EXCEPT ![buf[p]] = 1]
    BY <1>5, <2>1, Zenon DEF bread
  <2>3. valid[buf[p]] = 0 /\ \A k \in Bufs : blockno[k] = c => k = buf[p]
    <3>1. valid[buf[p]] = 0
      BY <2>2, Zenon DEF BcacheInv, LockInv
    <3>2. \A k \in Bufs : blockno[k] = c => k = buf[p]
      BY <1>t, <2>1 DEF BcacheInv, OneBuffer
    <3> QED
      BY <3>1, <3>2, Zenon
  <2>4. \A s \in Holders : ~Has(s, c)
    BY <2>1, <2>3, SMTT(60) DEF Has, BcacheInv, TypeOK, LockInv, Holds
  <2>5. Has(p, c)'
    BY <1>t, <2>1, <2>2, Zenon DEF Has
  <2>6. Owner(c) = Nobody /\ Owner(c)' = p
    BY <1>c, <2>4, <2>5 DEF OwnerOK
  <2>7. Contents(c) = disk[c]
    BY <1>c, <2>3, SMTT(60) DEF ContentsOK
  <2>8. Contents(c)' = disk[c]
    BY <1>c, <1>t, <2>1, <2>2, Zenon DEF ContentsOK
  <2>9. \A b \in Blocks \ {c} : Contents(b)' = Contents(b)
    BY <1>c, <1>t, <2>1, <2>2, SameContents, Zenon
  <2> QED
    BY <1>d, <2>1, <2>2, <2>6, <2>7, <2>8, <2>9, Zenon DEF Locks, Others
<1>6. CASE bwrite(p)
  <2>1. /\ pc[p] \in {"locked", "dirty"} /\ pc' = [pc EXCEPT ![p] = "written"]
        /\ disk' = [disk EXCEPT ![blockno[buf[p]]] = data[buf[p]]]
        /\ UNCHANGED <<blockno, valid, data, buf>>
    BY <1>6, Zenon DEF bwrite
  <2>2. valid[buf[p]] = 1
    BY <2>1, Zenon DEF BcacheInv, LockInv, Holds
  <2>3. \A b \in Blocks : Contents(b)' = Contents(b)
    BY <1>c, <1>t, <2>1, <2>2, SameContents, Zenon
  <2>4. \A b \in Blocks : Owner(b)' = Owner(b)
    BY <1>b, <2>1, Zenon
  <2> QED
    BY <2>3, <2>4, Zenon DEF Quiet
<1>7. CASE bpin(p) \/ bunpin(p) \/ brelse(p)
  <2>1. \A b \in Blocks : Contents(b)' = Contents(b)
    BY <1>7, <1>a, Zenon DEF bpin, bunpin, brelse
  <2>2. \A b \in Blocks : Owner(b)' = Owner(b)
    BY <1>7, <1>b, Zenon DEF bpin, bunpin, brelse
  <2> QED
    BY <2>1, <2>2 DEF Quiet
<1>8. CASE brelse_unlock(p)
  <2>1. PICK c \in Blocks : c = blockno[buf[p]]
    BY <1>8, <1>t, Zenon DEF brelse_unlock
  <2>2. /\ pc[p] \in {"locked", "written"} /\ pc' = [pc EXCEPT ![p] = "brelse"]
        /\ UNCHANGED <<blockno, valid, data, disk, buf>>
    BY <1>8, Zenon DEF brelse_unlock
  <2>3. Has(p, c)
    BY <2>1, <2>2, Zenon DEF Has
  <2>4. \A s \in Holders : ~(Has(s, c)')
    BY <1>o, <1>t, <2>2, <2>3, Zenon DEF Has
  <2>5. Owner(c) = p /\ Owner(c)' = Nobody
    BY <1>c, <2>3, <2>4, Zenon DEF OwnerOK
  <2> QED
    BY <1>a, <1>d, <2>1, <2>2, <2>5, Zenon DEF Unlocks, Others
<1> QED
  BY <1>1, <1>2, <1>3, <1>4, <1>5, <1>6, <1>7, <1>8, Zenon DEF Step

\* A step of the cache is a step of BlockStore, or stutters.
LEMMA RefineNext ==
  BcacheInv /\ BcacheInv' /\ [Next]_vars =>
    [Abs!Next]_<<[b \in Blocks |-> Contents(b)], [b \in Blocks |-> Owner(b)]>>
<1> DEFINE st == [b \in Blocks |-> Contents(b)]
           ow == [b \in Blocks |-> Owner(b)]
<1> SUFFICES ASSUME BcacheInv, BcacheInv', [Next]_vars PROVE Abs!Next \/ UNCHANGED <<st, ow>>
  BY Zenon
<1>1. CASE UNCHANGED vars
  BY <1>1, Zenon DEF vars, Contents, Cached, Owner, Has
<1>2. ASSUME NEW p \in Holders, Step(p) PROVE Abs!Next \/ UNCHANGED <<st, ow>>
  <2>1. CASE Quiet
    BY <2>1, Zenon DEF Quiet
  <2>2. CASE Locks(p)
    <3>1. PICK c \in Blocks : /\ Others(c) /\ Contents(c)' = Contents(c)
                              /\ Owner(c) = Nobody /\ Owner(c)' = p
      BY <2>2, Zenon DEF Locks
    <3>2. Abs!Lock(p, c)
      BY <3>1, Zenon DEF Others, Abs!Lock
    <3> QED
      BY <3>2, Zenon DEF Abs!Next
  <2>3. CASE Writes(p)
    <3>1. PICK c \in Blocks : /\ Others(c) /\ Contents(c)' \in Vals
                              /\ Owner(c) = p /\ Owner(c)' = p
      BY <2>3, Zenon DEF Writes
    <3>2. Abs!Write(p, c)
      BY <3>1, Zenon DEF Others, Abs!Write
    <3> QED
      BY <3>2, Zenon DEF Abs!Next
  <2>4. CASE Unlocks(p)
    <3>1. PICK c \in Blocks : /\ Others(c) /\ Contents(c)' = Contents(c)
                              /\ Owner(c) = p /\ Owner(c)' = Nobody
      BY <2>4, Zenon DEF Unlocks
    <3>2. Abs!Unlock(p, c)
      BY <3>1, Zenon DEF Others, Abs!Unlock
    <3> QED
      BY <3>2, Zenon DEF Abs!Next
  <2> QED
    BY <1>2, <2>1, <2>2, <2>3, <2>4, RefineStep, Zenon
<1> QED
  BY <1>1, <1>2, Zenon DEF Next, Step, panic

\* The cache implements BlockStore, whatever is recycled, pinned or written in
\* between, and with any number of buffers (bio.c:59-153).
THEOREM CacheCoherentHolds == Spec => CacheCoherent
<1>1. Init => Abs!Init
  BY RefineInit, Zenon
<1> QED
  BY <1>1, RefineNext, BcacheInvariant, PTL DEF Spec, CacheCoherent, Abs!Spec
=============================================================================
