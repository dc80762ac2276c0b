------------------------------ MODULE FileData ------------------------------
(***************************************************************************)
(* The contents of files: block allocation, the block map of an inode,     *)
(* truncation, readi() and writei() of kernel/fs.c under the read() and    *)
(* write() of kernel/file.c.  A step of writei() handles one block, a step *)
(* of itrunc() frees one; processes interleave between the steps, and      *)
(* files are kept apart by their inodes' sleep locks.  A block holds BSIZE *)
(* units; a unit is a byte of a file or, in an indirect block, an address. *)
(* Every chunk of filewrite() and every itrunc() is one transaction of the *)
(* log (module Log); blocks are what the buffer cache shows of the disk.   *)
(***************************************************************************)
EXTENDS Integers, FiniteSets, FiniteSetsExt

CONSTANTS Procs, Inodes,
          Files,       \* open files (struct file)
          Sizes,       \* byte counts that programs write and read
          NBlocks,     \* data blocks of the disk, numbered from 1
          BSIZE, NDIRECT, MAXOPBLOCKS,
          UINT,        \* unsigned int is modulo UINT
          BPB,         \* bits of a bitmap block
          f_ip,        \* f->ip
          Written,     \* those opened to read and write; the others are opened with O_TRUNC
          Byte,        \* the byte that programs write at each offset of a file
          NoProc

NINDIRECT == BSIZE
MAXFILE == NDIRECT + NINDIRECT

ASSUME FileDataAssumption ==
  /\ NBlocks \in Nat /\ BPB \in Nat \ {0} /\ BSIZE \in Nat \ {0} /\ NDIRECT \in Nat /\ MAXOPBLOCKS >= 6
  /\ UINT > 2 * MAXFILE * BSIZE
  /\ Sizes \subseteq Nat /\ f_ip \in [Files -> Inodes] /\ Written \subseteq Files
  /\ Byte \in [Inodes -> [0 .. MAXFILE * BSIZE - 1 -> Nat]]

VARIABLES
  bitmap,   \* blocks marked in use
  data,     \* contents of the blocks
  ip,       \* struct inode: size and addrs
  dip,      \* struct dinode, as iupdate() last wrote it
  lock,     \* ip->lock: its holder, or NoProc
  off,      \* f->off
  th,       \* the call in progress of each process
  logged,   \* blocks that the process's transaction has written
  panicked  \* the kernel has stopped in panic()

vars == <<bitmap, data, ip, dip, lock, off, th, logged, panicked>>

Blocks == 1 .. NBlocks
\* What a block holds while it is free, unless balloc() clears it.
Junk == [u \in 0 .. BSIZE - 1 |-> 1]
Zeroes == [u \in 0 .. BSIZE - 1 |-> 0]
Empty == [size |-> 0, addrs |-> [k \in 0 .. NDIRECT |-> 0]]
\* th[p]: pc, the file, bytes left to write, the chunk's length and how much of
\* it is done; itrunc()'s position is tot.
Idle == [pc |-> "user", f |-> CHOOSE f \in Files : TRUE, left |-> 0, n1 |-> 0, tot |-> 0]

\* Names of the blocks that a transaction may write.
DataBlock(b) == <<"data", b>>
BitmapBlock(b) == <<"bitmap", b \div BPB>>
InodeBlock == <<"inode", 0>>

Init ==
  /\ bitmap = {} /\ data = [b \in Blocks |-> Junk]
  /\ ip = [i \in Inodes |-> Empty] /\ dip = ip
  /\ lock = [i \in Inodes |-> NoProc] /\ off = [f \in Files |-> 0]
  /\ th = [p \in Procs |-> Idle] /\ logged = [p \in Procs |-> {}]
  /\ panicked = 0

At(p, l) == panicked = 0 /\ th[p].pc = l
I(p) == f_ip[th[p].f]
-----------------------------------------------------------------------------
(* The block map.  d is what bmap() works on: bitmap, data, addrs, the     *)
(* blocks it has logged and the address b it arrives at, 0 for none.       *)

\* balloc(): the first free block, marked and zeroed
balloc(d) ==
  LET free == Blocks \ d.bitmap
      b == Min(free)
  IN IF free = {} THEN [d EXCEPT !.b = 0]
     ELSE [d EXCEPT !.b = b, !.bitmap = @ \cup {b}, !.data[b] = Zeroes,
                    !.log = @ \cup {BitmapBlock(b), DataBlock(b)}]

\* The block that ip->addrs[k] names, allocated if necessary
bmap_addr(d, k) ==
  IF d.addrs[k] # 0 THEN [d EXCEPT !.b = d.addrs[k]]
  ELSE LET e == balloc(d) IN [e EXCEPT !.addrs[k] = e.b]

bmap_indirect(d, j) ==
  IF d.b = 0 \/ d.data[d.b][j] # 0 THEN [d EXCEPT !.b = IF d.b = 0 THEN 0 ELSE d.data[d.b][j]]
  ELSE LET e == balloc(d)
       IN IF e.b = 0 THEN e
          ELSE [e EXCEPT !.data[d.b][j] = e.b, !.log = @ \cup {DataBlock(d.b)}]

bmap(p, bn) ==
  LET d == [bitmap |-> bitmap, data |-> data, addrs |-> ip[I(p)].addrs,
            log |-> logged[p], b |-> 0]
  IN IF bn < NDIRECT THEN bmap_addr(d, bn)
     ELSE bmap_indirect(bmap_addr(d, NDIRECT), bn - NDIRECT)
-----------------------------------------------------------------------------
(* filewrite() and writei()                                                *)

write(p, f, n) ==
  /\ At(p, "user")
  /\ th' = [th EXCEPT ![p] = [Idle EXCEPT !.pc = "chunk", !.f = f, !.left = n]]
  /\ UNCHANGED <<bitmap, data, ip, dip, lock, off, logged, panicked>>

\* Mutant of max: no slop for an unaligned start and end.
max_aligned == ((MAXOPBLOCKS - 1 - 1) \div 2) * BSIZE
\* The largest chunk, which leaves room in the transaction for the inode, the
\* indirect block, allocation blocks and an unaligned start and end.
max == ((MAXOPBLOCKS - 1 - 1 - 2) \div 2) * BSIZE

\* Mutant of writei: a write beyond the end of the file is let through.
writei_hole(p) ==
  LET n1 == Min({th[p].left, max})
      o == off[th[p].f]
      ok == o + n1 <= MAXFILE * BSIZE
  IN
  /\ At(p, "chunk") /\ lock[I(p)] = NoProc
  /\ lock' = IF ok THEN [lock EXCEPT ![I(p)] = p] ELSE lock
  /\ th' = [th EXCEPT ![p] = IF ok THEN [@ EXCEPT !.pc = "copy", !.n1 = n1, !.tot = 0] ELSE Idle]
  /\ UNCHANGED <<bitmap, data, ip, dip, off, logged, panicked>>
\* begin_op(), ilock() and the tests at the start of writei()
writei(p) ==
  LET n1 == Min({th[p].left, max})
      o == off[th[p].f]
      end == (o + n1) % UINT
      ok == o <= ip[I(p)].size /\ end >= o /\ end <= MAXFILE * BSIZE
  IN
  /\ At(p, "chunk") /\ lock[I(p)] = NoProc
  /\ lock' = IF ok THEN [lock EXCEPT ![I(p)] = p] ELSE lock
  /\ th' = [th EXCEPT ![p] = IF ok THEN [@ EXCEPT !.pc = "copy", !.n1 = n1, !.tot = 0] ELSE Idle]
  /\ UNCHANGED <<bitmap, data, ip, dip, off, logged, panicked>>

\* One block: bmap(), bread(), either_copyin(), log_write().  A copy that fails
\* has changed some of the m bytes, and the block is not logged.
Copied(p, d, o, k) ==
  LET u0 == o % BSIZE
  IN [d.data EXCEPT ![d.b] = [u \in DOMAIN @ |-> IF u \in u0 .. u0 + k - 1
                                                 THEN Byte[I(p)][o + u - u0] ELSE @[u]]]

writei_block(p) ==
  LET o == off[th[p].f] + th[p].tot
      m == Min({th[p].n1 - th[p].tot, BSIZE - (o % BSIZE)})
      d == bmap(p, o \div BSIZE)
  IN
  /\ At(p, "copy") /\ th[p].tot < th[p].n1
  /\ bitmap' = d.bitmap /\ ip' = [ip EXCEPT ![I(p)].addrs = d.addrs]
  /\ \/ /\ d.b # 0 /\ data' = Copied(p, d, o, m)
        /\ logged' = [logged EXCEPT ![p] = d.log \cup {DataBlock(d.b)}]
        /\ th' = [th EXCEPT ![p].tot = @ + m]
     \/ /\ d.b # 0 /\ \E k \in 0 .. m - 1 : data' = Copied(p, d, o, k)
        /\ logged' = [logged EXCEPT ![p] = d.log] /\ th' = [th EXCEPT ![p].pc = "fin"]
     \/ /\ d.b = 0 /\ data' = d.data
        /\ logged' = [logged EXCEPT ![p] = d.log] /\ th' = [th EXCEPT ![p].pc = "fin"]
  /\ UNCHANGED <<dip, lock, off, panicked>>

\* filewrite() goes on to the next chunk if all of this one was written.
AfterChunk(t) ==
  IF t.tot = t.n1 /\ t.left > t.n1
  THEN [Idle EXCEPT !.pc = "chunk", !.f = t.f, !.left = t.left - t.n1]
  ELSE Idle

\* The end of writei(), iunlock(), end_op()
writei_end(p) ==
  LET t == th[p]
      o == off[t.f] + t.tot
      in == [ip[I(p)] EXCEPT !.size = Max({@, o})]
  IN
  /\ At(p, "fin") \/ (At(p, "copy") /\ t.tot = t.n1)
  /\ ip' = [ip EXCEPT ![I(p)] = in] /\ dip' = [dip EXCEPT ![I(p)] = in]
  /\ logged' = [logged EXCEPT ![p] = {}]
  /\ off' = [off EXCEPT ![t.f] = o] /\ lock' = [lock EXCEPT ![I(p)] = NoProc]
  /\ th' = [th EXCEPT ![p] = AfterChunk(t)]
  /\ UNCHANGED <<bitmap, data, panicked>>

\* What readi() returns; the copy to user memory has no effect on the file
readi(f, n) ==
  LET size == ip[f_ip[f]].size
      end == (off[f] + n) % UINT
  IN IF off[f] > size \/ end < off[f] THEN 0 ELSE Min({end, size}) - off[f]

\* fileread(): the bytes there are, all or (if the copy fails) none; readi() takes
\* n = -1 for UINT - 1
read(p, f, n) ==
  /\ At(p, "user") /\ lock[f_ip[f]] = NoProc
  /\ off' = [off EXCEPT ![f] = @ + readi(f, n)]
  /\ UNCHANGED <<bitmap, data, ip, dip, lock, th, logged, panicked>>
-----------------------------------------------------------------------------
(* open() starts a new f; O_TRUNC truncates the file                       *)

open(p, f) ==
  /\ At(p, "user") /\ lock[f_ip[f]] = NoProc
  /\ \A q \in Procs : At(q, "user") \/ th[q].f # f
  /\ off' = [off EXCEPT ![f] = 0]
  /\ \/ f \in Written /\ UNCHANGED <<lock, th>>
     \/ /\ f \notin Written /\ lock' = [lock EXCEPT ![f_ip[f]] = p]
        /\ th' = [th EXCEPT ![p] = [Idle EXCEPT !.pc = "trunc", !.f = f]]
  /\ UNCHANGED <<bitmap, data, ip, dip, logged, panicked>>

\* itrunc()'s order: direct blocks, what the indirect block names, and itself
Victim(p, k) ==
  LET a == ip[I(p)].addrs
  IN IF k < NDIRECT THEN a[k]
     ELSE IF a[NDIRECT] = 0 \/ k = MAXFILE THEN a[NDIRECT]
     ELSE data[a[NDIRECT]][k - NDIRECT]
Left(p) == {k \in th[p].tot .. MAXFILE : Victim(p, k) # 0}

\* Mutant of itrunc_block: the indirect block's address is cleared too early.
itrunc_block_lost(p) ==
  LET k == Min(Left(p))
      b == Victim(p, k)
  IN
  /\ At(p, "trunc") /\ Left(p) # {}
  /\ panicked' = IF b \notin bitmap THEN 1 ELSE 0
  /\ bitmap' = bitmap \ {b} /\ data' = [data EXCEPT ![b] = Junk]
  /\ ip' = [ip EXCEPT ![I(p)].addrs = [x \in DOMAIN @ |-> IF x = k THEN 0 ELSE @[x]]]
  /\ logged' = [logged EXCEPT ![p] = @ \cup {BitmapBlock(b)}]
  /\ th' = [th EXCEPT ![p].tot = k + 1]
  /\ UNCHANGED <<dip, lock, off>>
\* bfree() of the next one, and its address in the inode is cleared
itrunc_block(p) ==
  LET k == Min(Left(p))
      b == Victim(p, k)
      cleared == IF k = MAXFILE THEN {NDIRECT} ELSE {k} \ {NDIRECT}
  IN
  /\ At(p, "trunc") /\ Left(p) # {}
  /\ panicked' = IF b \notin bitmap THEN 1 ELSE 0
  /\ bitmap' = bitmap \ {b} /\ data' = [data EXCEPT ![b] = Junk]
  /\ ip' = [ip EXCEPT ![I(p)].addrs =
                 [x \in DOMAIN @ |-> IF x \in cleared THEN 0 ELSE @[x]]]
  /\ logged' = [logged EXCEPT ![p] = @ \cup {BitmapBlock(b)}]
  /\ th' = [th EXCEPT ![p].tot = k + 1]
  /\ UNCHANGED <<dip, lock, off>>

\* ip->size = 0, iupdate()
itrunc_end(p) ==
  /\ At(p, "trunc") /\ Left(p) = {}
  /\ ip' = [ip EXCEPT ![I(p)].size = 0] /\ dip' = [dip EXCEPT ![I(p)] = ip'[I(p)]]
  /\ logged' = [logged EXCEPT ![p] = {}]
  /\ lock' = [lock EXCEPT ![I(p)] = NoProc] /\ th' = [th EXCEPT ![p] = Idle]
  /\ UNCHANGED <<bitmap, data, off, panicked>>

Next ==
  \E p \in Procs :
    \/ \E f \in Written, n \in Sizes : write(p, f, n)
    \/ \E f \in Written, n \in Sizes \cup {UINT - 1} : read(p, f, n)
    \/ \E f \in Files : open(p, f)
    \/ writei(p) \/ writei_block(p) \/ writei_end(p)
    \/ itrunc_block(p) \/ itrunc_end(p)

Spec == Init /\ [][Next]_vars
-----------------------------------------------------------------------------
(* Properties                                                              *)

\* Every variable keeps to its values.
TypeOK ==
  /\ bitmap \subseteq Blocks /\ data \in [Blocks -> [0 .. BSIZE - 1 -> Nat]]
  /\ \A i \in Inodes : ip[i].size \in 0 .. MAXFILE * BSIZE
                       /\ ip[i].addrs \in [0 .. NDIRECT -> Blocks \cup {0}]
  /\ lock \in [Inodes -> Procs \cup {NoProc}] /\ off \in [Files -> Nat]
  /\ panicked \in {0, 1}

\* The places of inode i that name a block: its direct addresses, the address
\* of the indirect block (NDIRECT) and the entries in that block, except those
\* that an itrunc() in progress has freed already.
Freed(i) == Max({0} \cup {th[p].tot : p \in {q \in Procs : th[q].pc = "trunc" /\ I(q) = i}})
Places(i) ==
  LET a == ip[i].addrs
      ind == a[NDIRECT]
  IN {<<i, k, a[k]>> : k \in {k \in 0 .. NDIRECT : a[k] # 0}} \cup
     (IF ind = 0 THEN {}
      ELSE {<<i, NDIRECT + 1 + j, data[ind][j]>> :
              j \in {j \in 0 .. NINDIRECT - 1 : data[ind][j] # 0 /\ NDIRECT + j >= Freed(i)}})

\* A block is marked in the bitmap if and only if exactly one place of one file
\* names it, whatever balloc(), bmap(), failed writes and itrunc() have done so
\* far, so no block is lost, shared or freed twice; and what iupdate() wrote is
\* the inode that the kernel works with whenever nobody has it locked.
BlocksAccounted ==
  LET all == UNION {Places(i) : i \in Inodes} IN
  /\ TypeOK /\ panicked = 0
  /\ bitmap = {x[3] : x \in all} /\ Cardinality(bitmap) = Cardinality(all)
  /\ \A i \in Inodes : lock[i] = NoProc => dip[i] = ip[i]

\* Up to the size of a file, readi() finds the bytes that write() put there, in
\* direct and indirect blocks, after truncation and after failed writes.
Find(i, o) ==
  LET bn == o \div BSIZE
      a == ip[i].addrs
      b == IF bn < NDIRECT THEN a[bn] ELSE IF a[NDIRECT] = 0 THEN 0 ELSE data[a[NDIRECT]][bn - NDIRECT]
  IN IF b = 0 THEN 0 ELSE data[b][o % BSIZE]
ReadBack ==
  \A i \in Inodes : (\A p \in Procs : th[p].pc = "trunc" => I(p) # i) =>
    \A o \in 0 .. ip[i].size - 1 : Find(i, o) = Byte[i][o]

\* A transaction of filewrite() or itrunc(), with the inode that it updates at
\* its end, keeps to the MAXOPBLOCKS blocks that begin_op() reserves
\* (file.c:149-152).
TransactionFits ==
  \A p \in Procs : Cardinality(logged[p] \cup {InodeBlock}) <= MAXOPBLOCKS
=============================================================================
