-------------------------------- MODULE Log --------------------------------
(***************************************************************************)
(* The redo log of kernel/log.c: begin_op / log_write / end_op, group      *)
(* commit one disk write at a time, power failure between any two disk     *)
(* writes, and recovery at boot.  Critical sections under log.lock are     *)
(* single steps (module Spinlock justifies this); every disk write is a    *)
(* step of its own, and a block write is atomic (external: virtio disk).   *)
(* Buffers come from module Bcache's promise: one buffer per block, and a  *)
(* buffer whose refcnt is zero may be recycled at any time.                *)
(***************************************************************************)
EXTENDS Naturals, Sequences, FiniteSets

CONSTANTS Procs,        \* processes that make file-system calls
          Blocks,       \* home blocks that calls write
          Vals,         \* contents of a block
          Zero,         \* the contents mkfs writes
          NoBuf,        \* "no buffer holds this block"
          MAXOPBLOCKS,  \* blocks begin_op() reserves for a call
          LOGSIZE,      \* length of the header's block[] array
          nlog,         \* sb.nlog: blocks of the on-disk log, header included
          OpBlocks      \* distinct blocks a call really writes

ASSUME LogAssumption ==
  /\ MAXOPBLOCKS \in Nat \ {0} /\ LOGSIZE \in Nat /\ nlog \in Nat \ {0}
  /\ MAXOPBLOCKS <= LOGSIZE /\ IsFiniteSet(Procs)
  /\ OpBlocks \in Nat
  /\ Zero \in Vals /\ NoBuf \notin Vals

VARIABLES
  disk,         \* home locations
  dlog,         \* data blocks of the on-disk log
  dhead,        \* header block of the on-disk log: block[1..n]
  cache,        \* contents of the buffer of each block, or NoBuf
  pin,          \* blocks pinned in the cache by log_write()
  lh,           \* log.lh, the in-memory header
  outstanding,  \* log.outstanding
  committing,   \* log.committing
  phase,        \* where commit() or recover_from_log() stands
  tail,         \* loop variable of write_log() and install_trans()
  pc,           \* where each process stands in its call
  wrote,        \* blocks the call in progress has written
  panicked      \* the kernel has stopped in panic()

diskvars == <<disk, dlog, dhead>>
logvars  == <<lh, outstanding, committing>>
procvars == <<pc, wrote>>
vars == <<disk, dlog, dhead, cache, pin, lh, outstanding, committing, phase,
          tail, pc, wrote, panicked>>

LogSlots == 1 .. (nlog - 1)

\* mkfs leaves an empty log; the machine then boots.
Init ==
  /\ disk = [b \in Blocks |-> Zero] /\ dlog = [i \in LogSlots |-> Zero]
  /\ dhead = <<>>
  /\ cache = [b \in Blocks |-> NoBuf] /\ pin = {}
  /\ lh = <<>> /\ outstanding = 0 /\ committing = 0
  /\ phase = "boot" /\ tail = 1
  /\ pc = [p \in Procs |-> "idle"] /\ wrote = [p \in Procs |-> {}]
  /\ panicked = 0

InLog(b) == \E i \in DOMAIN lh : lh[i] = b

\* The contents the running kernel sees in block b.
Contents(b) == IF cache[b] # NoBuf THEN cache[b] ELSE disk[b]

\* System calls run once the first process has finished fsinit().
FsUp == panicked = 0 /\ (phase = "none" \/ committing = 1)
-----------------------------------------------------------------------------
(* Buffer cache, as log.c and its callers see it.                          *)

\* A process with no transaction (read(2), stat(2)) brings a block in.
bread(b) ==
  /\ FsUp /\ cache[b] = NoBuf
  /\ cache' = [cache EXCEPT ![b] = disk[b]]
  /\ UNCHANGED <<diskvars, pin, logvars, phase, tail, procvars, panicked>>

\* bget() recycles a buffer nobody holds.
Recyclable(b) == cache[b] # NoBuf /\ b \notin pin
bget_recycle(b) ==
  /\ FsUp /\ Recyclable(b)
  /\ cache' = [cache EXCEPT ![b] = NoBuf]
  /\ UNCHANGED <<diskvars, pin, logvars, phase, tail, procvars, panicked>>
-----------------------------------------------------------------------------
(* begin_op, log_write, end_op                                             *)

\* Mutant of MustWait: a call may start during a commit.
MustWait_not_for_commit == Len(lh) + (outstanding + 1) * MAXOPBLOCKS > LOGSIZE
MustWait == committing = 1 \/ Len(lh) + (outstanding + 1) * MAXOPBLOCKS > LOGSIZE

begin_op(p) ==
  /\ FsUp /\ pc[p] \in {"idle", "begin"} /\ ~MustWait
  /\ outstanding' = outstanding + 1
  /\ pc' = [pc EXCEPT ![p] = "op"]
  /\ wrote' = [wrote EXCEPT ![p] = {}]
  /\ UNCHANGED <<diskvars, cache, pin, lh, committing, phase, tail, panicked>>

begin_op_sleep(p) ==
  /\ FsUp /\ pc[p] \in {"idle", "begin"} /\ MustWait
  /\ pc' = [pc EXCEPT ![p] = "sleep"]
  /\ UNCHANGED <<diskvars, cache, pin, logvars, phase, tail, wrote, panicked>>

\* pc after wakeup(&log): sleepers in begin_op() run their loop again.
Woken == [q \in Procs |-> IF pc[q] = "sleep" THEN "begin" ELSE pc[q]]

\* log_write(): panic("too big a transaction"), panic("log_write outside of trans").
LogPanics == Len(lh) >= LOGSIZE \/ Len(lh) >= nlog - 1 \/ outstanding < 1

\* The caller modifies b->data and calls log_write(b), which absorbs a block
\* the log already has and otherwise appends and pins it.
log_write(p, b, v) ==
  /\ FsUp /\ pc[p] = "op"
  /\ Cardinality(wrote[p] \cup {b}) <= OpBlocks
  /\ ~LogPanics
  /\ cache' = [cache EXCEPT ![b] = v]
  /\ IF InLog(b) THEN UNCHANGED <<lh, pin>>
                 ELSE lh' = Append(lh, b) /\ pin' = pin \cup {b}
  /\ wrote' = [wrote EXCEPT ![p] = @ \cup {b}]
  /\ UNCHANGED <<diskvars, outstanding, committing, phase, tail, pc, panicked>>

\* The two panics of log_write().  The caller's change to b->data is not
\* modelled: the buffer stays locked by the stopped process until the reset.
log_write_panic(p, b) ==
  /\ FsUp /\ pc[p] = "op"
  /\ Cardinality(wrote[p] \cup {b}) <= OpBlocks
  /\ LogPanics
  /\ panicked' = 1
  /\ UNCHANGED <<diskvars, cache, pin, logvars, phase, tail, procvars>>

\* A call that is not the last one only gives its reservation back.
\* panic("log.committing") stops the machine if a commit is running.
end_op(p) ==
  /\ FsUp /\ pc[p] = "op" /\ outstanding # 1
  /\ outstanding' = outstanding - 1
  /\ panicked' = committing
  /\ pc' = [Woken EXCEPT ![p] = "idle"]
  /\ UNCHANGED <<diskvars, cache, pin, lh, committing, phase, tail, wrote>>

\* The last call commits the group.
end_op_last(p) ==
  /\ FsUp /\ pc[p] = "op" /\ outstanding = 1
  /\ outstanding' = 0 /\ committing' = 1 /\ panicked' = committing
  /\ phase' = IF Len(lh) > 0 THEN "write_log" ELSE "done"
  /\ tail' = 1
  /\ pc' = [pc EXCEPT ![p] = "commit"]
  /\ UNCHANGED <<diskvars, cache, pin, lh, wrote>>

\* Mutant of end_op_done: no wakeup(&log) after the commit.
end_op_done_no_wakeup(p) ==
  /\ FsUp /\ phase = "done" /\ pc[p] = "commit"
  /\ committing' = 0 /\ phase' = "none"
  /\ pc' = [pc EXCEPT ![p] = "idle"]
  /\ UNCHANGED <<diskvars, cache, pin, lh, outstanding, tail, wrote, panicked>>
\* After commit(): clear log.committing and wake everyone in begin_op().
end_op_done(p) ==
  /\ FsUp /\ phase = "done" /\ pc[p] = "commit"
  /\ committing' = 0 /\ phase' = "none"
  /\ pc' = [Woken EXCEPT ![p] = "idle"]
  /\ UNCHANGED <<diskvars, cache, pin, lh, outstanding, tail, wrote, panicked>>
-----------------------------------------------------------------------------
(* commit() and recover_from_log(), one disk write per step                *)

write_log ==
  /\ panicked = 0 /\ phase = "write_log" /\ tail <= Len(lh)
  /\ dlog' = [dlog EXCEPT ![tail] = Contents(lh[tail])]
  /\ cache' = [cache EXCEPT ![lh[tail]] = Contents(lh[tail])]
  /\ tail' = tail + 1
  /\ phase' = IF tail = Len(lh) THEN "write_head" ELSE phase
  /\ UNCHANGED <<disk, dhead, pin, logvars, procvars, panicked>>

\* The commit point.
write_head ==
  /\ panicked = 0 /\ phase = "write_head"
  /\ dhead' = lh
  /\ phase' = "install" /\ tail' = 1
  /\ UNCHANGED <<disk, dlog, cache, pin, logvars, procvars, panicked>>

\* recovering is 0 in commit() and 1 in recover_from_log().
recovering == committing = 0

\* Mutant of install_trans: buffers stay pinned.
install_trans_no_bunpin ==
  /\ panicked = 0 /\ phase = "install" /\ tail <= Len(lh)
  /\ disk' = [disk EXCEPT ![lh[tail]] = dlog[tail]]
  /\ cache' = [cache EXCEPT ![lh[tail]] = dlog[tail]]
  /\ tail' = tail + 1
  /\ UNCHANGED <<dlog, dhead, pin, logvars, phase, procvars, panicked>>
install_trans ==
  /\ panicked = 0 /\ phase = "install" /\ tail <= Len(lh)
  /\ disk' = [disk EXCEPT ![lh[tail]] = dlog[tail]]
  /\ cache' = [cache EXCEPT ![lh[tail]] = dlog[tail]]
  /\ pin' = IF recovering THEN pin ELSE pin \ {lh[tail]}
  /\ tail' = tail + 1
  /\ UNCHANGED <<dlog, dhead, logvars, phase, procvars, panicked>>

\* lh.n = 0 and the second write_head().
erase_log ==
  /\ panicked = 0 /\ phase = "install" /\ tail > Len(lh)
  /\ lh' = <<>> /\ dhead' = <<>>
  /\ phase' = IF recovering THEN "none" ELSE "done"
  /\ UNCHANGED <<disk, dlog, cache, pin, outstanding, committing, tail, procvars,
                 panicked>>

\* initlog() -> recover_from_log(): read_head(), then install_trans(1).
read_head ==
  /\ panicked = 0 /\ phase = "boot"
  /\ lh' = dhead
  /\ phase' = "install" /\ tail' = 1
  /\ UNCHANGED <<diskvars, cache, pin, outstanding, committing, procvars, panicked>>

\* Power failure, or a reset after panic(): memory is lost.
Crash ==
  /\ cache' = [b \in Blocks |-> NoBuf] /\ pin' = {}
  /\ lh' = <<>> /\ outstanding' = 0 /\ committing' = 0
  /\ phase' = "boot" /\ tail' = 1
  /\ pc' = [p \in Procs |-> "idle"] /\ wrote' = [p \in Procs |-> {}]
  /\ panicked' = 0
  /\ UNCHANGED diskvars

Next ==
  \/ \E b \in Blocks : bread(b) \/ bget_recycle(b)
  \/ \E p \in Procs : begin_op(p) \/ begin_op_sleep(p)
  \/ \E p \in Procs, b \in Blocks, v \in Vals : log_write(p, b, v)
  \/ \E p \in Procs, b \in Blocks : log_write_panic(p, b)
  \/ \E p \in Procs : end_op(p) \/ end_op_last(p) \/ end_op_done(p)
  \/ write_log \/ write_head \/ install_trans \/ erase_log \/ read_head
  \/ Crash

Spec == Init /\ [][Next]_vars

\* A process inside a call or woken from sleep() keeps running, and so does
\* the process that commits or recovers: the scheduler is round-robin and no
\* step below waits for anything.  Admission by begin_op() is not fair.
Fairness ==
  /\ \A p \in Procs : WF_vars(end_op(p) \/ end_op_last(p) \/ end_op_done(p))
  /\ WF_vars(write_log \/ write_head \/ install_trans \/ erase_log \/ read_head)

FairSpec == Spec /\ Fairness
-----------------------------------------------------------------------------
(* Properties                                                              *)

\* Every variable keeps to its values.
TypeOK ==
  /\ disk \in [Blocks -> Vals] /\ dlog \in [LogSlots -> Vals]
  /\ cache \in [Blocks -> Vals \cup {NoBuf}] /\ pin \subseteq Blocks
  /\ dhead \in Seq(Blocks) /\ lh \in Seq(Blocks)
  /\ outstanding \in Nat /\ committing \in {0, 1} /\ panicked \in {0, 1}
  /\ phase \in {"none", "boot", "write_log", "write_head", "install", "done"}
  /\ tail \in Nat \ {0}
  /\ pc \in [Procs -> {"idle", "begin", "sleep", "op", "commit"}]
  /\ wrote \in [Procs -> SUBSET Blocks]

\* What recover_from_log() makes of header h, log blocks l and home blocks d.
Recover(h, l, d) ==
  [b \in Blocks |-> IF \E i \in DOMAIN h : h[i] = b
                    THEN l[CHOOSE i \in DOMAIN h : h[i] = b] ELSE d[b]]
Recovered == Recover(dhead, dlog, disk)

\* What the running kernel reads; during recovery, what it is going to read.
Memory == IF phase = "none" \/ committing = 1 THEN [b \in Blocks |-> Contents(b)]
                                          ELSE Recovered

Abs == INSTANCE AtomicDisk WITH stable <- Recovered, mem <- Memory,
                                active <- {p \in Procs : pc[p] = "op"}

\* Group commit is atomic: whatever the interleaving of calls and wherever the
\* power fails (in commit(), in recovery, repeatedly), the disk recovers to
\* the effect of whole completed calls; log.c:12-16 and log.c:99-101.
CrashAtomic == Abs!Spec

\* Once no call is active and no commit is running, nothing that completed can
\* be lost, and the log has given back its blocks and its pinned buffers.
Durable == (FsUp /\ committing = 0 /\ outstanding = 0)
             => Recovered = Memory /\ lh = <<>> /\ pin = {}

\* Write-ahead rule: a home block changes only to the contents the committed
\* on-disk log holds for it (install_trans runs only after write_head).
WriteAhead ==
  [][\A b \in Blocks : disk'[b] # disk[b] =>
        \E i \in DOMAIN dhead : dhead[i] = b /\ dlog[i] = disk'[b]]_vars

\* Nobody sleeps in begin_op() on an idle log: whoever will call wakeup(&log)
\* is still inside a call or a commit.
SleeperHasWaker == (\E p \in Procs : pc[p] = "sleep") => outstanding > 0 \/ committing = 1

\* The log never reaches the blocks behind it (the inodes), in memory or on disk.
LogFits == Len(lh) < nlog /\ Len(dhead) < nlog

\* The power eventually stays on.
PowerStays == <>[][~Crash]_vars

\* Once the power stays on, a process put to sleep by begin_op() is woken again,
\* and a started commit or recovery finishes, so that system calls go on.
LogProgress == PowerStays =>
  /\ \A p \in Procs : pc[p] = "sleep" ~> (pc[p] # "sleep" \/ panicked = 1)
  /\ (committing = 1 \/ phase = "boot") ~> (FsUp /\ committing = 0)
-----------------------------------------------------------------------------
(* The inductive invariant behind CrashAtomic, Durable and SleeperHasWaker *)

Injective(s) == \A i, j \in DOMAIN s : s[i] = s[j] => i = j
Ops == {p \in Procs : pc[p] = "op"}

\* outstanding counts the calls in progress, and a commit has the log to itself.
CallsInv ==
  /\ outstanding = Cardinality(Ops)
  /\ committing = 1 => outstanding = 0 /\ phase \in {"write_log", "write_head", "install", "done"}
  /\ committing = 0 => phase \in {"none", "boot", "install"}
  /\ phase # "none" => outstanding = 0
  /\ phase = "none" /\ outstanding = 0 => lh = <<>>

\* The header on disk names blocks only between the commit and the erase.
HeaderInv ==
  /\ Injective(lh) /\ Injective(dhead)
  /\ phase \in {"none", "write_log", "write_head", "done"} => dhead = <<>>
  /\ phase = "install" => dhead = lh
  /\ phase \in {"boot", "done"} => lh = <<>>

\* A buffer differs from its home block only if the log has the block, and the
\* log keeps the buffers it still has to write.
CacheInv ==
  /\ \A b \in Blocks : cache[b] # NoBuf /\ ~InLog(b) => cache[b] = disk[b]
  /\ \A b \in pin : InLog(b)
  /\ phase \in {"none", "write_log", "write_head"} =>
       \A i \in DOMAIN lh : lh[i] \in pin /\ cache[lh[i]] # NoBuf

\* How far write_log() and install_trans() have come.
ProgressInv ==
  /\ phase = "boot" => cache = [b \in Blocks |-> NoBuf] /\ pin = {}
  /\ phase = "write_log" =>
       tail <= Len(lh) /\ \A i \in DOMAIN lh : i < tail => dlog[i] = cache[lh[i]]
  /\ phase = "write_head" => \A i \in DOMAIN lh : dlog[i] = cache[lh[i]]
  /\ phase = "install" =>
       /\ tail <= Len(lh) + 1
       /\ \A i \in DOMAIN lh : i < tail =>
            /\ disk[lh[i]] = dlog[i] /\ cache[lh[i]] \in {NoBuf, dlog[i]}
            /\ lh[i] \notin pin
       /\ IF committing = 1 THEN \A i \in DOMAIN lh : i >= tail =>
                                lh[i] \in pin /\ cache[lh[i]] = dlog[i]
                        ELSE pin = {}

\* The log and the cache agree on what is committed, pinned and installed, at
\* every step of a call, a commit and a recovery.
LogInv == TypeOK /\ LogFits /\ CallsInv /\ HeaderInv /\ CacheInv /\ ProgressInv
=============================================================================
