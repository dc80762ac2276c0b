----------------------------- MODULE LogProofs -----------------------------
(***************************************************************************)
(* Proofs about module Log, for every number of processes, blocks, values, *)
(* reserved blocks and log sizes.                                          *)
(***************************************************************************)
EXTENDS Log, FiniteSetTheorems, TLAPS

USE LogAssumption

\* The set of calls in progress is finite, so counting it makes sense.
LEMMA OpsFinite == IsFiniteSet(Ops)
  BY FS_Subset DEF Ops

\* Counting the calls in progress when one of them ends or a new one starts.
LEMMA CountOps ==
  ASSUME outstanding = Cardinality(Ops), NEW p \in Procs
  PROVE  /\ outstanding \in Nat
         /\ outstanding = 0 <=> Ops = {}
         /\ p \in Ops => Cardinality(Ops \ {p}) = outstanding - 1
         /\ p \notin Ops => Cardinality(Ops \cup {p}) = outstanding + 1
  BY OpsFinite, FS_EmptySet, FS_CardinalityType, FS_AddElement, FS_RemoveElement, Zenon

\* Appending a block to the log leaves the earlier entries where they were.
LEMMA AppendBlock ==
  ASSUME NEW s \in Seq(Blocks), NEW b \in Blocks
  PROVE  /\ Append(s, b) \in Seq(Blocks)
         /\ Len(Append(s, b)) = Len(s) + 1
         /\ DOMAIN Append(s, b) = 1 .. (Len(s) + 1)
         /\ \A i \in 1 .. Len(s) : Append(s, b)[i] = s[i]
         /\ Append(s, b)[Len(s) + 1] = b
  OBVIOUS

\* Init establishes the invariant: mkfs leaves an empty log.
LEMMA InitInv == Init => LogInv
<1> SUFFICES ASSUME Init PROVE LogInv
  OBVIOUS
<1> USE DEF Init
<1>1. TypeOK
  BY DEF TypeOK, LogSlots
<1>2. LogFits /\ HeaderInv /\ ProgressInv
  BY DEF LogFits, HeaderInv, ProgressInv, Injective
<1>3. CacheInv
  BY DEF CacheInv, InLog
<1>4. Ops = {}
  BY DEF Ops
<1>5. CallsInv
  BY <1>4, FS_EmptySet DEF CallsInv
<1> QED
  BY <1>1, <1>2, <1>3, <1>5 DEF LogInv

\* Every entry of the log has a block of its own in the on-disk log.
LEMMA Slots ==
  ASSUME TypeOK, LogFits
  PROVE  /\ DOMAIN lh = 1 .. Len(lh) /\ Len(lh) \in Nat
         /\ \A i \in DOMAIN lh : /\ i \in Nat \ {0} /\ i \in LogSlots /\ lh[i] \in Blocks
                                /\ dlog[i] \in Vals /\ dlog[i] # NoBuf
  BY SMTT(20) DEF TypeOK, LogFits, LogSlots

\* Every step keeps the variables within their types.
LEMMA NextType == LogInv /\ [Next]_vars => TypeOK'
<1> SUFFICES ASSUME LogInv, [Next]_vars PROVE TypeOK'
  OBVIOUS
<1> USE DEF LogInv, TypeOK, diskvars, logvars, procvars, LogSlots
<1>a. ASSUME NEW p \in Procs, pc[p] = "op" PROVE outstanding > 0
  <2>1. Ops # {} /\ outstanding = Cardinality(Ops)
    BY <1>a DEF Ops, CallsInv
  <2> QED
    BY <2>1, OpsFinite, FS_EmptySet, FS_CardinalityType
<1>b. ASSUME tail <= Len(lh) PROVE tail \in LogSlots /\ lh[tail] \in Blocks
  BY <1>b DEF LogFits
<1>1. ASSUME NEW b \in Blocks, bread(b) \/ bget_recycle(b) PROVE TypeOK'
  BY <1>1, Zenon DEF bread, bget_recycle
<1>2. ASSUME NEW p \in Procs, begin_op(p) PROVE TypeOK'
  <2>1. wrote' \in [Procs -> SUBSET Blocks]
    BY <1>2 DEF begin_op
  <2> QED
    BY <2>1, <1>2 DEF begin_op
<1>3. ASSUME NEW p \in Procs, begin_op_sleep(p) PROVE TypeOK'
  BY <1>3 DEF begin_op_sleep
<1>4. ASSUME NEW p \in Procs, NEW b \in Blocks, NEW v \in Vals, log_write(p, b, v)
      PROVE  TypeOK'
  <2>1. wrote[p] \cup {b} \in SUBSET Blocks
    OBVIOUS
  <2>2. wrote' \in [Procs -> SUBSET Blocks]
    BY <2>1, <1>4 DEF log_write
  <2>5. Append(lh, b) \in Seq(Blocks)
    BY AppendBlock
  <2>6. lh' = lh \/ lh' = Append(lh, b)
    BY <1>4 DEF log_write
  <2>3. lh' \in Seq(Blocks)
    BY <2>5, <2>6, Zenon
  <2>4. pin' \subseteq Blocks
    BY <1>4 DEF log_write
  <2> QED
    BY <2>2, <2>3, <2>4, <1>4 DEF log_write
<1>5. ASSUME NEW p \in Procs, NEW b \in Blocks, log_write_panic(p, b) PROVE TypeOK'
  BY <1>5 DEF log_write_panic
<1>6. ASSUME NEW p \in Procs, end_op(p) PROVE TypeOK'
  <2>1. pc' \in [Procs -> {"idle", "begin", "sleep", "op", "commit"}]
    BY <1>6 DEF end_op, Woken
  <2> QED
    BY <2>1, <1>6, <1>a DEF end_op
<1>7. ASSUME NEW p \in Procs, end_op_last(p) PROVE TypeOK'
  BY <1>7 DEF end_op_last
<1>8. ASSUME NEW p \in Procs, end_op_done(p) PROVE TypeOK'
  <2>1. pc' \in [Procs -> {"idle", "begin", "sleep", "op", "commit"}]
    BY <1>8 DEF end_op_done, Woken
  <2> QED
    BY <2>1, <1>8 DEF end_op_done
<1>9. CASE write_log
  <2>1. lh[tail] \in Blocks /\ Contents(lh[tail]) \in Vals
    BY <1>9, <1>b DEF write_log, Contents
  <2>2. dlog' \in [LogSlots -> Vals] /\ cache' \in [Blocks -> Vals \cup {NoBuf}]
    BY <2>1, <1>9, Zenon DEF write_log
  <2> QED
    BY <2>2, <1>9 DEF write_log
<1>10. CASE install_trans
  <2>1. lh[tail] \in Blocks /\ dlog[tail] \in Vals
    BY <1>10, <1>b DEF install_trans
  <2> QED
    BY <2>1, <1>10 DEF install_trans
<1>11. CASE write_head \/ read_head
  BY <1>11 DEF write_head, read_head
<1>14. CASE erase_log
  BY <1>14 DEF erase_log
<1>12. CASE Crash
  BY <1>12 DEF Crash
<1>13. CASE UNCHANGED vars
  BY <1>13 DEF vars
<1> QED
  BY <1>1, <1>2, <1>3, <1>4, <1>5, <1>6, <1>7, <1>8, <1>9, <1>10, <1>11, <1>12,
     <1>13, <1>14 DEF Next

\* What is left to show of the invariant once types are known.
Rest == LogFits /\ CallsInv /\ HeaderInv /\ CacheInv /\ ProgressInv

\* Buffers that come and go do not disturb the log: only unpinned ones go.
LEMMA BufferInv ==
  ASSUME LogInv, NEW b \in Blocks, bread(b) \/ bget_recycle(b)
  PROVE  Rest'
<1> USE DEF LogInv, diskvars, logvars, procvars
<1>1. UNCHANGED <<disk, dlog, dhead, pin, lh, outstanding, committing, phase, tail, pc>>
  BY DEF bread, bget_recycle
<1>2. /\ FsUp /\ \A c \in Blocks \ {b} : cache'[c] = cache[c]
      /\ \/ cache'[b] = NoBuf /\ b \notin pin
         \/ cache[b] = NoBuf /\ cache'[b] = disk[b]
  BY DEF bread, bget_recycle, Recyclable, TypeOK
<1>3. (LogFits /\ CallsInv /\ HeaderInv)'
  BY <1>1 DEF LogFits, CallsInv, HeaderInv, Injective, Ops
<1>4. CacheInv'
  BY <1>1, <1>2, ZenonT(60) DEF CacheInv, InLog, TypeOK
<1>5. ProgressInv'
  <2>1. phase # "boot"
    BY <1>2 DEF CallsInv, FsUp
  <2>2. CASE phase \in {"none", "write_log", "write_head", "done"}
    BY <1>1, <1>2, <2>1, <2>2, Slots DEF ProgressInv, CacheInv
  <2>3. CASE phase = "install"
    BY <1>1, <1>2, <2>1, <2>3, Slots DEF ProgressInv
  <2> QED
    BY <2>1, <2>2, <2>3 DEF TypeOK
<1> QED
  BY <1>3, <1>4, <1>5 DEF Rest

\* Starting and ending calls: the count stays right, and a commit starts only
\* when no call is left.
LEMMA BeginEndInv ==
  ASSUME LogInv, NEW p \in Procs,
         \/ begin_op(p) \/ begin_op_sleep(p) \/ end_op(p) \/ end_op_last(p)
         \/ end_op_done(p) \/ \E b \in Blocks : log_write_panic(p, b)
  PROVE  Rest'
<1> USE DEF LogInv, diskvars, logvars, procvars
<1>1. UNCHANGED <<disk, dlog, dhead, cache, pin, lh>>
  BY Zenon DEF begin_op, begin_op_sleep, end_op, end_op_last, end_op_done, log_write_panic
<1>2. LogFits'
  BY <1>1 DEF LogFits
<1>3. outstanding = Cardinality(Ops) /\ IsFiniteSet(Ops)
  BY OpsFinite DEF CallsInv
<1>4. CASE begin_op(p)
  <2>1. Ops' = Ops \cup {p} /\ p \notin Ops
    BY <1>4 DEF begin_op, Ops, TypeOK
  <2>2. phase = "none"
    BY <1>4 DEF begin_op, FsUp, MustWait
  <2>4. Cardinality(Ops \cup {p}) = outstanding + 1 /\ outstanding \in Nat
    BY <1>3, <2>1, CountOps, Zenon
  <2>3. CallsInv'
    BY <1>4, <2>1, <2>2, <2>4, SMTT(20) DEF begin_op, CallsInv
  <2> QED
    BY <1>1, <1>2, <1>4, <2>3, SMTT(60)
    DEF Rest, begin_op, HeaderInv, CacheInv, ProgressInv, InLog, Injective
<1>5. CASE begin_op_sleep(p) \/ \E b \in Blocks : log_write_panic(p, b)
  <2>1. Ops' = Ops
    BY <1>5, Zenon DEF begin_op_sleep, log_write_panic, Ops, TypeOK
  <2>2. UNCHANGED <<outstanding, committing, phase, tail>>
    BY <1>5, Zenon DEF begin_op_sleep, log_write_panic
  <2> QED
    BY <1>1, <1>2, <2>1, <2>2
    DEF Rest, CallsInv, HeaderInv, CacheInv, ProgressInv, InLog, Injective
<1>6. CASE end_op(p)
  <2>1. Ops' = Ops \ {p} /\ p \in Ops
    BY <1>6 DEF end_op, Woken, Ops, TypeOK
  <2>3. Cardinality(Ops \ {p}) = outstanding - 1 /\ outstanding \in Nat /\ outstanding # 0
    BY <1>3, <2>1, CountOps, Zenon
  <2>2. CallsInv'
    BY <1>1, <1>6, <2>1, <2>3 DEF end_op, CallsInv, TypeOK
  <2>4. UNCHANGED <<disk, dlog, dhead, cache, pin, lh, tail, phase, committing>>
    BY <1>6 DEF end_op
  <2>5. LogFits' /\ HeaderInv'
    BY <1>1, <2>4 DEF LogFits, HeaderInv, Injective
  <2>6. CacheInv' /\ ProgressInv'
    BY <1>1, <2>4, SMTT(60) DEF CacheInv, ProgressInv, InLog
  <2> QED
    BY <2>2, <2>5, <2>6 DEF Rest
<1>7. CASE end_op_last(p)
  <2>1. Ops' = Ops \ {p} /\ p \in Ops
    BY <1>7 DEF end_op_last, Ops, TypeOK
  <2>2. phase = "none"
    BY <1>3, <1>7, <2>1, CountOps DEF end_op_last, CallsInv
  <2>3. CallsInv'
    BY <1>1, <1>3, <1>7, <2>1, <2>2, CountOps DEF end_op_last, CallsInv
  <2>4. CASE Len(lh) > 0
    BY <1>1, <1>2, <1>7, <2>2, <2>3, <2>4
    DEF Rest, end_op_last, HeaderInv, CacheInv, ProgressInv, InLog, Injective, TypeOK
  <2>5. CASE ~(Len(lh) > 0)
    <3>1. lh = <<>>
      BY <2>5 DEF TypeOK
    <3> QED
      BY <1>1, <1>2, <1>7, <2>2, <2>3, <2>5, <3>1
      DEF Rest, end_op_last, HeaderInv, CacheInv, ProgressInv, InLog, Injective, TypeOK
  <2> QED
    BY <2>4, <2>5
<1>8. CASE end_op_done(p)
  <2>1. Ops' = Ops
    BY <1>8 DEF end_op_done, Woken, Ops, TypeOK
  <2>2. CallsInv'
    BY <1>1, <1>8, <2>1 DEF end_op_done, CallsInv, HeaderInv
  <2>3. UNCHANGED <<disk, dlog, dhead, cache, pin, lh, tail>> /\ phase = "done" /\ phase' = "none"
        /\ committing' = 0
    BY <1>8 DEF end_op_done, diskvars
  <2>4. LogFits' /\ HeaderInv'
    BY <1>1, <2>3 DEF LogFits, HeaderInv, Injective
  <2>5. CacheInv'
    BY <1>1, <2>3, SMTT(20) DEF HeaderInv, CacheInv, InLog
  <2>6. ProgressInv'
    BY <1>1, <2>3 DEF ProgressInv
  <2> QED
    BY <2>2, <2>4, <2>5, <2>6 DEF Rest
<1> QED
  BY <1>4, <1>5, <1>6, <1>7, <1>8

\* log_write() pins what it adds, and adds only what is not there yet.
LEMMA WriteInv ==
  ASSUME LogInv, NEW p \in Procs, NEW b \in Blocks, NEW v \in Vals, log_write(p, b, v)
  PROVE  Rest'
<1> USE DEF LogInv, diskvars, logvars, procvars
<1>1. UNCHANGED <<disk, dlog, dhead, outstanding, committing, phase, tail, pc>>
  BY DEF log_write
<1>2. /\ phase = "none" /\ committing = 0 /\ outstanding # 0 /\ dhead = <<>>
      /\ Len(lh) < nlog - 1
  BY CountOps DEF log_write, LogPanics, CallsInv, HeaderInv, FsUp, TypeOK
<1>3. cache' = [cache EXCEPT ![b] = v] /\ cache'[b] = v /\ v # NoBuf
  BY DEF log_write, TypeOK
<1>4. CASE InLog(b)
  <2>1. UNCHANGED <<lh, pin>>
    BY <1>4 DEF log_write
  <2>2. (LogFits /\ HeaderInv)'
    BY <1>1, <2>1 DEF LogFits, HeaderInv, Injective
  <2>3. CallsInv'
    BY <1>1, <1>2, <2>1 DEF CallsInv, Ops
  <2>4. CacheInv'
    BY <1>1, <1>2, <1>3, <1>4, <2>1 DEF CacheInv, InLog, TypeOK
  <2>5. ProgressInv'
    BY <1>1, <1>2 DEF ProgressInv
  <2> QED
    BY <2>2, <2>3, <2>4, <2>5, SMTT(20) DEF Rest
<1>5. CASE ~InLog(b)
  <2>1. lh' = Append(lh, b) /\ pin' = pin \cup {b}
    BY <1>5 DEF log_write
  <2>2. /\ DOMAIN lh' = 1 .. (Len(lh) + 1) /\ Len(lh') = Len(lh) + 1
        /\ \A i \in DOMAIN lh : lh'[i] = lh[i]
        /\ lh'[Len(lh) + 1] = b
        /\ DOMAIN lh = 1 .. Len(lh) /\ Len(lh) \in Nat
    BY <2>1, AppendBlock DEF TypeOK
  <2>3. LogFits'
    BY <1>1, <1>2, <2>2 DEF LogFits
  <2>4. CallsInv'
    BY <1>1, <1>2 DEF CallsInv, Ops
  <2>5. HeaderInv'
    BY <1>1, <1>2, <1>5, <2>2 DEF HeaderInv, Injective, InLog
  <2>6. CacheInv'
    <3>1. \A c \in Blocks : InLog(c)' <=> InLog(c) \/ c = b
      BY <2>2 DEF InLog
    <3>2. \A c \in Blocks \ {b} : cache'[c] = cache[c]
      BY <1>3 DEF TypeOK
    <3>3. \A c \in pin' : InLog(c)'
      BY <2>1, <3>1, SMTT(20) DEF CacheInv, TypeOK
    <3>4. \A i \in DOMAIN lh' : lh'[i] \in pin' /\ cache'[lh'[i]] # NoBuf
      BY <1>2, <1>3, <2>1, <2>2, <3>2, SMTT(60) DEF CacheInv, TypeOK
    <3> QED
      BY <1>1, <1>2, <3>1, <3>2, <3>3, <3>4 DEF CacheInv
  <2>7. ProgressInv'
    BY <1>1, <1>2 DEF ProgressInv
  <2> QED
    BY <2>3, <2>4, <2>5, <2>6, <2>7 DEF Rest
<1> QED
  BY <1>4, <1>5

\* write_log() copies the buffers as they are: no call can change them now.
LEMMA WriteLogInv ==
  ASSUME LogInv, write_log
  PROVE  Rest'
<1> USE DEF LogInv, diskvars, logvars, procvars
<1>1. UNCHANGED <<disk, dhead, pin, lh, outstanding, committing, pc>>
  BY DEF write_log
<1>2. tail \in DOMAIN lh /\ cache[lh[tail]] # NoBuf /\ phase = "write_log"
  BY Slots DEF write_log, CacheInv, TypeOK
<1>3. cache' = cache /\ dlog' = [dlog EXCEPT ![tail] = cache[lh[tail]]]
  BY <1>2, Slots DEF write_log, Contents, TypeOK
<1>4. \A i \in DOMAIN lh : i <= tail => dlog'[i] = cache[lh[i]]
  BY <1>2, <1>3, Slots DEF ProgressInv, TypeOK
<1>5. (LogFits /\ HeaderInv /\ CallsInv)'
  BY <1>1, <1>2 DEF write_log, LogFits, HeaderInv, CallsInv, Injective, Ops
<1>6. CacheInv'
  BY <1>1, <1>2, <1>3 DEF write_log, CacheInv, InLog
<1>7. ProgressInv'
  <2>1. CASE tail = Len(lh)
    <3>1. phase' = "write_head" /\ \A i \in DOMAIN lh : dlog'[i] = cache[lh[i]]
      BY <1>4, <2>1, Slots DEF write_log
    <3> QED
      BY <1>1, <1>3, <3>1 DEF ProgressInv
  <2>2. CASE tail # Len(lh)
    <3>1. /\ phase' = "write_log" /\ tail' <= Len(lh)
          /\ \A i \in DOMAIN lh : i < tail' => dlog'[i] = cache[lh[i]]
      BY <1>2, <1>4, <2>2, Slots, SMTT(60) DEF write_log, TypeOK
    <3> QED
      BY <1>1, <1>3, <3>1, SMTT(60) DEF ProgressInv
  <2> QED
    BY <2>1, <2>2
<1> QED
  BY <1>5, <1>6, <1>7 DEF Rest

\* write_head() publishes a log that holds every buffer of the group.
LEMMA WriteHeadInv ==
  ASSUME LogInv, write_head \/ read_head
  PROVE  Rest'
<1> USE DEF LogInv, diskvars, logvars, procvars
<1>1. CASE write_head
  <2>1. committing = 1
    BY <1>1 DEF write_head, CallsInv, TypeOK
  <2>2. (LogFits /\ HeaderInv /\ CallsInv)'
    BY <1>1, <2>1 DEF write_head, LogFits, HeaderInv, CallsInv, Injective, Ops
  <2>3. CacheInv'
    BY <1>1 DEF write_head, CacheInv, InLog
  <2>4. ProgressInv'
    BY <1>1, <2>1, Slots, SMTT(60) DEF write_head, ProgressInv, CacheInv
  <2> QED
    BY <2>2, <2>3, <2>4 DEF Rest
<1>2. CASE read_head
  <2>1. committing = 0 /\ pin = {} /\ cache = [b \in Blocks |-> NoBuf]
    BY <1>2 DEF read_head, CallsInv, ProgressInv, TypeOK
  <2>2. (LogFits /\ HeaderInv /\ CallsInv)'
    BY <1>2, <2>1 DEF read_head, LogFits, HeaderInv, CallsInv, Injective, Ops
  <2>3. CacheInv'
    BY <1>2, <2>1 DEF read_head, CacheInv, InLog
  <2>4. DOMAIN lh' = 1 .. Len(lh') /\ Len(lh') \in Nat
    BY <1>2 DEF read_head, TypeOK
  <2>5. ProgressInv'
    BY <1>2, <2>1, <2>4, SMTT(60) DEF read_head, ProgressInv
  <2> QED
    BY <2>2, <2>3, <2>5 DEF Rest
<1> QED
  BY <1>1, <1>2

\* install_trans() releases a buffer only after its home block is written.
LEMMA InstallInv ==
  ASSUME LogInv, install_trans
  PROVE  Rest'
<1> USE DEF LogInv, diskvars, logvars, procvars
<1>1. UNCHANGED <<dlog, dhead, lh, outstanding, committing, phase, pc>> /\ tail' = tail + 1
  BY DEF install_trans
<1>2. /\ tail \in DOMAIN lh /\ phase = "install" /\ lh[tail] \in Blocks
      /\ disk' = [disk EXCEPT ![lh[tail]] = dlog[tail]]
      /\ cache' = [cache EXCEPT ![lh[tail]] = dlog[tail]]
  BY Slots DEF install_trans, TypeOK
<1>3. \A i \in DOMAIN lh : i # tail => lh[i] # lh[tail]
  BY <1>2 DEF HeaderInv, Injective
<1>4. (LogFits /\ HeaderInv /\ CallsInv)'
  BY <1>1 DEF LogFits, HeaderInv, CallsInv, Injective, Ops
<1>5. pin' = pin \ {lh[tail]}
  BY DEF install_trans, recovering, ProgressInv
<1>6. CacheInv'
  <2>1. \A b \in Blocks : b # lh[tail] => cache'[b] = cache[b] /\ disk'[b] = disk[b]
    BY <1>2 DEF TypeOK
  <2> QED
    BY <1>1, <1>2, <1>5, <2>1 DEF CacheInv, InLog
<1>7. ProgressInv'
  <2>1. \A i \in DOMAIN lh : i < tail' =>
            /\ disk'[lh[i]] = dlog[i] /\ cache'[lh[i]] \in {NoBuf, dlog[i]}
            /\ lh[i] \notin pin'
    BY <1>1, <1>2, <1>3, <1>5, Slots, SMTT(60) DEF ProgressInv, TypeOK
  <2>2. committing = 1 => \A i \in DOMAIN lh : i >= tail' =>
                                lh[i] \in pin' /\ cache'[lh[i]] = dlog[i]
    BY <1>1, <1>2, <1>3, <1>5, Slots, SMTT(60) DEF ProgressInv, TypeOK
  <2>3. committing # 1 => pin' = {}
    BY <1>2, <1>5 DEF ProgressInv
  <2>4. tail' <= Len(lh) + 1
    BY <1>1, <1>2, Slots DEF TypeOK
  <2> QED
    BY <1>1, <1>2, <2>1, <2>2, <2>3, <2>4, SMTT(60) DEF ProgressInv
<1> QED
  BY <1>4, <1>6, <1>7 DEF Rest

\* The log is erased only when every block of it is in its home location.
LEMMA EraseInv ==
  ASSUME LogInv, erase_log
  PROVE  Rest'
<1> USE DEF LogInv, diskvars, logvars, procvars
<1>1. /\ UNCHANGED <<disk, dlog, cache, pin, outstanding, committing, pc>>
      /\ lh' = <<>> /\ dhead' = <<>> /\ phase = "install"
      /\ phase' = IF committing = 0 THEN "none" ELSE "done"
  BY DEF erase_log, recovering
<1>2. \A i \in DOMAIN lh : i < tail
  BY Slots DEF erase_log, TypeOK
<1>3. pin = {}
  BY <1>1, <1>2, SMTT(60) DEF CacheInv, ProgressInv, InLog
<1>4. \A b \in Blocks : cache[b] # NoBuf => cache[b] = disk[b]
  BY <1>1, <1>2 DEF CacheInv, ProgressInv, InLog
<1>5. (LogFits /\ HeaderInv)'
  BY <1>1 DEF LogFits, HeaderInv, Injective
<1>6. CallsInv'
  BY <1>1, SMTT(20) DEF CallsInv, Ops, TypeOK
<1>7. (CacheInv /\ ProgressInv)'
  BY <1>1, <1>3, <1>4, SMTT(60) DEF CacheInv, ProgressInv, InLog
<1> QED
  BY <1>5, <1>6, <1>7 DEF Rest

\* A power failure leaves the header as it was and forgets everything else.
LEMMA CrashInv ==
  ASSUME LogInv, Crash
  PROVE  Rest'
<1> USE DEF LogInv, diskvars, logvars, procvars
<1>1. (LogFits /\ HeaderInv)'
  BY DEF Crash, LogFits, HeaderInv, Injective
<1>2. Ops' = {}
  BY DEF Crash, Ops
<1>3. CallsInv'
  BY <1>2, FS_EmptySet, SMTT(20) DEF Crash, CallsInv
<1>4. (CacheInv /\ ProgressInv)'
  BY DEF Crash, CacheInv, ProgressInv, InLog
<1> QED
  BY <1>1, <1>3, <1>4 DEF Rest

\* The invariant is inductive.
LEMMA NextInv == LogInv /\ [Next]_vars => LogInv'
<1> SUFFICES ASSUME LogInv, [Next]_vars PROVE Rest'
  BY NextType, SMTT(20) DEF LogInv, Rest
<1>1. CASE UNCHANGED vars
  BY <1>1, SMTT(60) DEF vars, Rest, LogInv, LogFits, CallsInv, HeaderInv, CacheInv, ProgressInv,
              InLog, Injective, Ops
<1> QED
  BY <1>1, BufferInv, BeginEndInv, WriteInv, WriteLogInv, WriteHeadInv, InstallInv,
     EraseInv, CrashInv DEF Next

\* The log's bookkeeping is right in every reachable state (log.c as a whole).
THEOREM LogInvariant == Spec => []LogInv
  BY InitInv, NextInv, PTL DEF Spec

\* The types are respected by every behaviour.
THEOREM TypeCorrect == Spec => []TypeOK
  BY LogInvariant, PTL DEF LogInv

\* With no call and no commit in progress nothing completed can be lost, and
\* the log holds no block and no buffer (end_op, commit, recover_from_log).
THEOREM DurableHolds == Spec => []Durable
<1>1. LogInv => Durable
  <2> SUFFICES ASSUME LogInv, FsUp, committing = 0, outstanding = 0
               PROVE  Recovered = Memory /\ lh = <<>> /\ pin = {}
    BY DEF Durable
  <2>1. phase = "none" /\ lh = <<>> /\ dhead = <<>>
    BY DEF FsUp, LogInv, CallsInv, HeaderInv
  <2>2. pin = {}
    BY <2>1 DEF LogInv, CacheInv, InLog, TypeOK
  <2>3. \A b \in Blocks : Contents(b) = disk[b]
    BY <2>1 DEF LogInv, CacheInv, InLog, Contents
  <2>4. Recovered = [b \in Blocks |-> disk[b]]
    BY <2>1 DEF Recovered, Recover
  <2>5. Memory = [b \in Blocks |-> Contents(b)]
    BY <2>1 DEF Memory
  <2> QED
    BY <2>1, <2>2, <2>3, <2>4, <2>5
<1> QED
  BY <1>1, LogInvariant, PTL

\* The log never reaches the blocks that follow it on the disk.
THEOREM LogFitsHolds == Spec => []LogFits
  BY LogInvariant, PTL DEF LogInv

\* Home blocks change only to what the committed on-disk log says.
THEOREM WriteAheadHolds == Spec => WriteAhead
<1>1. LogInv /\ [Next]_vars =>
        [\A b \in Blocks : disk'[b] # disk[b] =>
           \E i \in DOMAIN dhead : dhead[i] = b /\ dlog[i] = disk'[b]]_vars
  <2> SUFFICES ASSUME LogInv, Next, NEW b \in Blocks, disk'[b] # disk[b]
               PROVE  \E i \in DOMAIN dhead : dhead[i] = b /\ dlog[i] = disk'[b]
    OBVIOUS
  <2>a. \A c \in Blocks : bread(c) \/ bget_recycle(c) => UNCHANGED disk
    BY DEF bread, bget_recycle, diskvars
  <2>b. \A p \in Procs : begin_op(p) \/ begin_op_sleep(p) \/ end_op(p) \/ end_op_last(p)
                         \/ end_op_done(p) => UNCHANGED disk
    BY DEF begin_op, begin_op_sleep, end_op, end_op_last, end_op_done, diskvars
  <2>c. \A p \in Procs, c \in Blocks, v \in Vals : log_write(p, c, v) \/ log_write_panic(p, c)
                                                   => UNCHANGED disk
    BY Zenon DEF log_write, log_write_panic, diskvars
  <2>d. write_log \/ write_head \/ erase_log \/ read_head \/ Crash => UNCHANGED disk
    BY DEF write_log, write_head, erase_log, read_head, Crash, diskvars
  <2>1. install_trans
    BY <2>a, <2>b, <2>c, <2>d DEF Next
  <2>2. dhead = lh /\ tail \in DOMAIN lh /\ disk' = [disk EXCEPT ![lh[tail]] = dlog[tail]]
    <3>1. TypeOK /\ LogFits /\ dhead = lh
      BY <2>1 DEF install_trans, LogInv, HeaderInv
    <3>2. DOMAIN lh = 1 .. Len(lh) /\ Len(lh) \in Nat
      BY <3>1, Slots
    <3>3. tail \in Nat \ {0} /\ tail <= Len(lh)
      BY <2>1, <3>1 DEF install_trans, TypeOK
    <3>4. disk' = [disk EXCEPT ![lh[tail]] = dlog[tail]]
      BY <2>1 DEF install_trans
    <3> QED
      BY <3>1, <3>2, <3>3, <3>4
  <2>3. b = lh[tail] /\ disk'[b] = dlog[tail]
    BY <2>2 DEF LogInv, TypeOK
  <2> QED
    BY <2>2, <2>3
<1> QED
  BY <1>1, LogInvariant, PTL DEF Spec, WriteAhead

\* begin_op() never puts a process to sleep on a log nobody will wake.
THEOREM SleeperHasWakerHolds == Spec => []SleeperHasWaker
<1>1. Init => SleeperHasWaker
  BY DEF Init, SleeperHasWaker
<1>2. LogInv /\ SleeperHasWaker /\ [Next]_vars => SleeperHasWaker'
  <2> SUFFICES ASSUME LogInv, SleeperHasWaker, [Next]_vars,
                      NEW q \in Procs, pc'[q] = "sleep"
               PROVE  (outstanding > 0 \/ committing = 1)'
    BY DEF SleeperHasWaker
  <2> USE DEF diskvars, logvars, procvars
  <2>a. outstanding \in Nat /\ outstanding = Cardinality(Ops)
    BY DEF LogInv, CallsInv, TypeOK
  <2>1. ASSUME NEW p \in Procs, begin_op(p) PROVE outstanding' > 0
    BY <2>1, <2>a DEF begin_op
  <2>2. ASSUME NEW p \in Procs, begin_op_sleep(p)
        PROVE  (outstanding > 0 \/ committing = 1)'
    <3>1. CASE committing = 1
      BY <2>2, <3>1 DEF begin_op_sleep
    <3>2. CASE committing # 1 /\ outstanding = 0
      <4>1. lh = <<>>
        BY <2>2, <3>2 DEF begin_op_sleep, FsUp, LogInv, CallsInv
      <4>2. Len(lh) + (outstanding + 1) * MAXOPBLOCKS = MAXOPBLOCKS
        BY <3>2, <4>1
      <4> QED
        BY <2>2, <3>2, <4>2 DEF begin_op_sleep, MustWait
    <3>3. CASE outstanding > 0
      BY <2>2, <3>3 DEF begin_op_sleep
    <3> QED
      BY <2>a, <3>1, <3>2, <3>3
  <2>3. ASSUME NEW p \in Procs, end_op(p) \/ end_op_done(p) PROVE FALSE
    BY <2>3, Zenon DEF end_op, end_op_done, Woken, LogInv, TypeOK
  <2>4. ASSUME NEW p \in Procs, end_op_last(p) PROVE committing' = 1
    BY <2>4 DEF end_op_last
  <2>5. CASE Crash
    BY <2>5 DEF Crash
  <2>6. ASSUME UNCHANGED <<pc, outstanding, committing>>
        PROVE  (outstanding > 0 \/ committing = 1)'
    BY <2>6 DEF SleeperHasWaker
  <2>7. ASSUME \/ \E b \in Blocks : bread(b) \/ bget_recycle(b)
               \/ \E p \in Procs, b \in Blocks, v \in Vals : log_write(p, b, v)
               \/ \E p \in Procs, b \in Blocks : log_write_panic(p, b)
               \/ write_log \/ write_head \/ install_trans \/ erase_log \/ read_head
               \/ UNCHANGED vars
        PROVE  UNCHANGED <<pc, outstanding, committing>>
    BY <2>7, Zenon DEF bread, bget_recycle, log_write, log_write_panic, write_log, write_head,
                install_trans, erase_log, read_head, vars
  <2> QED
    BY <2>1, <2>2, <2>3, <2>4, <2>5, <2>6, <2>7 DEF Next
<1> QED
  BY <1>1, <1>2, LogInvariant, PTL DEF Spec
=============================================================================
