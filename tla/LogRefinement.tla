--------------------------- MODULE LogRefinement ----------------------------
(***************************************************************************)
(* Log implements AtomicDisk: proofs on top of the invariant of LogProofs. *)
(***************************************************************************)
EXTENDS LogProofs

USE LogAssumption

\* The value recovery gives to a block, entry by entry of the on-disk header.
LEMMA RecoverAt ==
  ASSUME NEW h, NEW l, NEW d, Injective(h)
  PROVE  /\ \A i \in DOMAIN h : h[i] \in Blocks => Recover(h, l, d)[h[i]] = l[i]
         /\ \A b \in Blocks : (\A i \in DOMAIN h : h[i] # b) => Recover(h, l, d)[b] = d[b]
<1>1. ASSUME NEW i \in DOMAIN h PROVE (CHOOSE j \in DOMAIN h : h[j] = h[i]) = i
  BY DEF Injective
<1> QED
  BY <1>1, Zenon DEF Recover

\* Initially the abstract disk is what mkfs wrote.
LEMMA RefineInit == Init => Abs!Init
<1> SUFFICES ASSUME Init PROVE Abs!Init
  OBVIOUS
<1>1. Recovered = [b \in Blocks |-> Zero]
  BY DEF Init, Recovered, Recover
<1>2. Memory = Recovered
  BY DEF Init, Memory
<1>3. {p \in Procs : pc[p] = "op"} = {}
  BY DEF Init
<1> QED
  BY <1>1, <1>2, <1>3 DEF Abs!Init

\* Every step of the log is a step of the abstract disk or leaves it alone:
\* write_head() in commit() is the only one that changes what survives.
LEMMA RefineNext == LogInv /\ LogInv' /\ [Next]_vars => [Abs!Next]_Abs!vars
<1> SUFFICES ASSUME LogInv, LogInv', [Next]_vars PROVE Abs!Next \/ UNCHANGED Abs!vars
  OBVIOUS
<1> USE DEF diskvars, logvars, procvars
<1> DEFINE act == {p \in Procs : pc[p] = "op"}
<1>a. UNCHANGED <<disk, dlog, dhead>> => UNCHANGED Recovered
  BY DEF Recovered, Recover
<1>b. ASSUME UNCHANGED <<disk, cache>> PROVE \A b \in Blocks : UNCHANGED Contents(b)
  BY <1>b DEF Contents
<1>c. ASSUME UNCHANGED Recovered, UNCHANGED Memory, UNCHANGED act PROVE UNCHANGED Abs!vars
  BY <1>c DEF Abs!vars
<1>t. TypeOK /\ LogFits /\ CallsInv /\ HeaderInv /\ CacheInv /\ ProgressInv
  BY DEF LogInv
<1>s. /\ DOMAIN lh = 1 .. Len(lh) /\ Len(lh) \in Nat /\ tail \in Nat \ {0}
      /\ \A i \in DOMAIN lh : i \in Nat /\ lh[i] \in Blocks /\ dlog[i] # NoBuf
  BY <1>t, Slots DEF TypeOK
<1>1. ASSUME NEW b \in Blocks, bread(b) \/ bget_recycle(b) PROVE UNCHANGED Abs!vars
  <2>1. UNCHANGED <<disk, dlog, dhead, pin, lh, committing, phase, tail, pc>> /\ FsUp
    BY <1>1 DEF bread, bget_recycle
  <2>2. \A c \in Blocks \ {b} : cache'[c] = cache[c]
    BY <1>1 DEF bread, bget_recycle, LogInv, TypeOK
  <2>3. Contents(b)' = Contents(b)
    <3>1. CASE bread(b)
      BY <3>1 DEF bread, Contents, LogInv, TypeOK
    <3>2. CASE bget_recycle(b)
      <4>1. cache[b] # NoBuf /\ b \notin pin /\ cache'[b] = NoBuf /\ disk' = disk
        BY <3>2 DEF bget_recycle, Recyclable, LogInv, TypeOK
      <4>2. CASE ~InLog(b)
        BY <1>t, <4>1, <4>2 DEF CacheInv, Contents
      <4>3. CASE InLog(b)
        <5>1. PICK i \in DOMAIN lh : lh[i] = b
          BY <4>3 DEF InLog
        <5>2. phase = "install" /\ committing = 1
          BY <2>1, <4>1, <5>1 DEF FsUp, LogInv, CallsInv, HeaderInv, CacheInv, TypeOK
        <5>3. disk[b] = dlog[i] /\ cache[b] = dlog[i]
          BY <1>s, <1>t, <4>1, <5>1, <5>2 DEF CacheInv, ProgressInv
        <5> QED
          BY <4>1, <5>3 DEF Contents
      <4> QED
        BY <4>2, <4>3
    <3> QED
      BY <1>1, <3>1, <3>2
  <2>4. \A c \in Blocks : Contents(c)' = Contents(c)
    BY <2>1, <2>2, <2>3 DEF Contents
  <2>5. UNCHANGED Memory
    BY <1>a, <2>1, <2>4 DEF Memory
  <2> QED
    BY <1>a, <1>c, <2>1, <2>5
<1>2. ASSUME NEW p \in Procs, begin_op(p) PROVE Abs!Begin(p)
  <2>1. UNCHANGED <<Recovered, Memory>>
    BY <1>2, <1>a, <1>b DEF begin_op, Memory
  <2>2. p \notin act /\ act' = act \cup {p}
    BY <1>2 DEF begin_op, LogInv, TypeOK
  <2> QED
    BY <2>1, <2>2 DEF Abs!Begin
<1>3. ASSUME NEW p \in Procs,
             begin_op_sleep(p) \/ end_op_done(p) \/ \E b \in Blocks : log_write_panic(p, b)
      PROVE UNCHANGED Abs!vars
  <2>1. UNCHANGED <<disk, dlog, dhead, cache>>
    BY <1>3, Zenon DEF begin_op_sleep, log_write_panic, end_op_done
  <2>2. UNCHANGED Memory
    BY <1>3, <1>a, <1>b, <2>1, Zenon
    DEF begin_op_sleep, log_write_panic, end_op_done, Memory, FsUp
  <2>3. UNCHANGED act
    BY <1>3, Zenon DEF begin_op_sleep, log_write_panic, end_op_done, Woken, LogInv, TypeOK
  <2> QED
    BY <1>a, <1>c, <2>1, <2>2, <2>3
<1>4. ASSUME NEW p \in Procs, NEW b \in Blocks, NEW v \in Vals, log_write(p, b, v)
      PROVE  Abs!Write(p, b, v)
  <2>1. UNCHANGED <<disk, dlog, dhead, phase, committing, pc>> /\ FsUp
    BY <1>4 DEF log_write
  <2>2. \A c \in Blocks : Contents(c)' = IF c = b THEN v ELSE Contents(c)
    BY <1>4 DEF log_write, Contents, LogInv, TypeOK
  <2>3. Memory = [c \in Blocks |-> Contents(c)] /\ Memory' = [c \in Blocks |-> Contents(c)']
    BY <2>1 DEF Memory, FsUp
  <2>4. Memory' = [Memory EXCEPT ![b] = v]
    BY <2>2, <2>3
  <2>5. p \in act /\ act' = act
    BY <1>4, <2>1 DEF log_write
  <2> QED
    BY <1>a, <2>1, <2>4, <2>5 DEF Abs!Write
<1>5. ASSUME NEW p \in Procs, end_op(p) \/ end_op_last(p) PROVE Abs!End(p)
  <2>1. UNCHANGED <<disk, dlog, dhead, cache>>
    BY <1>5 DEF end_op, end_op_last
  <2>2. UNCHANGED Memory
    BY <1>5, <1>a, <1>b, <2>1 DEF end_op, end_op_last, Memory, FsUp
  <2>3. p \in act /\ act' = act \ {p}
    BY <1>5, Zenon DEF end_op, end_op_last, Woken, LogInv, TypeOK
  <2> QED
    BY <1>a, <2>1, <2>2, <2>3 DEF Abs!End
<1>6. CASE write_log
  <2>1. UNCHANGED <<disk, dhead, committing, pc>> /\ dhead = <<>> /\ committing = 1
    BY <1>6 DEF write_log, LogInv, CallsInv, HeaderInv, TypeOK
  <2>2. cache' = cache
    <3>a. tail <= Len(lh) /\ phase = "write_log"
      BY <1>6 DEF write_log
    <3>1. tail \in DOMAIN lh /\ phase = "write_log"
      BY <1>s, <3>a
    <3>2. cache[lh[tail]] # NoBuf /\ lh[tail] \in Blocks
      BY <1>s, <1>t, <3>1 DEF CacheInv
    <3>3. cache' = [cache EXCEPT ![lh[tail]] = cache[lh[tail]]]
      BY <1>6, <3>2 DEF write_log, Contents
    <3> QED
      BY <3>2, <3>3 DEF LogInv, TypeOK
  <2>3. UNCHANGED Recovered
    BY <2>1 DEF Recovered, Recover
  <2>4. UNCHANGED Memory
    BY <1>b, <2>1, <2>2 DEF Memory
  <2> QED
    BY <1>c, <2>1, <2>3, <2>4
<1>7. CASE write_head
  <2>1. /\ UNCHANGED <<disk, dlog, cache, committing, pc, lh>> /\ dhead' = lh /\ committing = 1
        /\ \A i \in DOMAIN lh : lh[i] \in Blocks /\ cache[lh[i]] # NoBuf /\ dlog[i] = cache[lh[i]]
    BY <1>7, <1>s, <1>t DEF write_head, CallsInv, CacheInv, ProgressInv, TypeOK
  <2>2. act = {} /\ act' = {}
    BY <2>1, OpsFinite, FS_EmptySet, Zenon DEF LogInv, CallsInv, Ops
  <2>3. \A b \in Blocks : Recovered'[b] = Contents(b)
    <3>1. Recovered' = Recover(lh, dlog, disk) /\ Injective(lh)
      BY <1>t, <2>1 DEF Recovered, HeaderInv
    <3>2. SUFFICES ASSUME NEW b \in Blocks PROVE Recover(lh, dlog, disk)[b] = Contents(b)
      BY <3>1
    <3>3. CASE InLog(b)
      <4>1. PICK i \in DOMAIN lh : lh[i] = b
        BY <3>3 DEF InLog
      <4>2. Contents(b) = dlog[i]
        BY <2>1, <4>1 DEF Contents
      <4> QED
        BY <3>1, <4>1, <4>2, RecoverAt
    <3>4. CASE ~InLog(b)
      <4>1. Contents(b) = disk[b]
        BY <1>t, <3>4 DEF Contents, CacheInv
      <4> QED
        BY <3>1, <3>4, <4>1, RecoverAt DEF InLog
    <3> QED
      BY <3>3, <3>4
  <2>4. Memory = [b \in Blocks |-> Contents(b)] /\ Memory' = Memory
    BY <1>b, <2>1 DEF Memory
  <2>5. Recovered' = [b \in Blocks |-> Recovered'[b]]
    BY DEF Recovered, Recover
  <2> QED
    BY <2>2, <2>3, <2>4, <2>5 DEF Abs!Commit, Abs!Next
<1>8. CASE install_trans
  <2>1. /\ UNCHANGED <<dlog, dhead, lh, committing, phase, pc>> /\ phase = "install"
        /\ dhead = lh /\ tail \in DOMAIN lh /\ lh[tail] \in Blocks /\ dlog[tail] # NoBuf
        /\ \A c \in Blocks : c # lh[tail] => disk'[c] = disk[c] /\ cache'[c] = cache[c]
        /\ cache'[lh[tail]] = dlog[tail]
    BY <1>8, <1>s, <1>t DEF install_trans, HeaderInv, TypeOK
  <2>2. UNCHANGED Recovered
    BY <2>1 DEF Recovered, Recover
  <2>3. ASSUME committing = 1 PROVE \A c \in Blocks : Contents(c)' = Contents(c)
    <3>1. cache[lh[tail]] = dlog[tail]
      BY <1>s, <1>t, <2>1, <2>3 DEF ProgressInv
    <3> QED
      BY <2>1, <3>1 DEF Contents
  <2>4. UNCHANGED Memory
    BY <2>1, <2>2, <2>3 DEF Memory
  <2> QED
    BY <1>c, <2>1, <2>2, <2>4
<1>9. CASE erase_log
  <2>1. /\ UNCHANGED <<disk, cache, committing, pc>> /\ phase = "install" /\ dhead = lh
        /\ dhead' = <<>> /\ (committing = 0 => phase' = "none")
    BY <1>9 DEF erase_log, recovering, LogInv, HeaderInv
  <2>2. \A i \in DOMAIN lh : /\ lh[i] \in Blocks /\ disk[lh[i]] = dlog[i]
                            /\ cache[lh[i]] \in {NoBuf, dlog[i]}
    <3>1. \A i \in DOMAIN lh : i < tail /\ lh[i] \in Blocks
      BY <1>9, <1>s DEF erase_log
    <3> QED
      BY <1>t, <2>1, <3>1 DEF ProgressInv
  <2>3. \A b \in Blocks : Recovered[b] = disk[b] /\ Contents(b) = disk[b]
    <3>1. Recovered = Recover(lh, dlog, disk) /\ Injective(lh)
      BY <1>t, <2>1 DEF Recovered, HeaderInv
    <3>2. SUFFICES ASSUME NEW b \in Blocks
                   PROVE Recover(lh, dlog, disk)[b] = disk[b] /\ Contents(b) = disk[b]
      BY <3>1
    <3>3. CASE InLog(b)
      <4>1. PICK i \in DOMAIN lh : lh[i] = b
        BY <3>3 DEF InLog
      <4>2. Contents(b) = disk[b]
        BY <2>2, <4>1 DEF Contents
      <4>3. Recover(lh, dlog, disk)[b] = dlog[i]
        BY <3>1, <4>1, RecoverAt
      <4> QED
        BY <2>2, <4>1, <4>2, <4>3
    <3>4. CASE ~InLog(b)
      <4>1. Contents(b) = disk[b]
        BY <1>t, <3>4 DEF Contents, CacheInv
      <4> QED
        BY <3>1, <3>4, <4>1, RecoverAt DEF InLog
    <3> QED
      BY <3>3, <3>4
  <2>4. \A b \in Blocks : Recovered'[b] = disk[b]
    BY <2>1 DEF Recovered, Recover
  <2>5. UNCHANGED Recovered
    BY <2>3, <2>4 DEF Recovered, Recover
  <2>6. UNCHANGED Memory
    <3>1. CASE committing = 1
      BY <1>b, <2>1, <3>1 DEF Memory
    <3>2. CASE committing = 0
      <4>1. Memory = Recovered /\ Memory' = [b \in Blocks |-> Contents(b)']
        BY <2>1, <3>2 DEF Memory
      <4>2. Recovered = [b \in Blocks |-> Recovered[b]]
        BY DEF Recovered, Recover
      <4> QED
        BY <1>b, <2>1, <2>3, <4>1, <4>2
    <3> QED
      BY <3>1, <3>2 DEF LogInv, TypeOK
  <2> QED
    BY <1>c, <2>1, <2>5, <2>6
<1>10. CASE read_head
  <2>1. UNCHANGED <<disk, dlog, dhead, pc, committing>> /\ committing = 0 /\ phase = "boot"
        /\ phase' = "install"
    BY <1>10 DEF read_head, LogInv, CallsInv, TypeOK
  <2>2. UNCHANGED Memory
    BY <1>a, <2>1 DEF Memory
  <2> QED
    BY <1>a, <1>c, <2>1, <2>2
<1>11. CASE Crash
  <2>1. Memory' = Recovered /\ Recovered' = Recovered
    BY <1>11, <1>a DEF Crash, Memory
  <2>2. act' = {}
    BY <1>11 DEF Crash
  <2> QED
    BY <2>1, <2>2 DEF Abs!Crash, Abs!Next
<1>12. CASE UNCHANGED vars
  BY <1>a, <1>b, <1>c, <1>12 DEF vars, Memory
<1> HIDE DEF act
<1> QED
  BY <1>1, <1>2, <1>3, <1>4, <1>5, <1>6, <1>7, <1>8, <1>9, <1>10, <1>11, <1>12
  DEF Next, Abs!Next

\* Whatever the calls, the interleaving and the power failures, recovery shows
\* the effect of whole groups of completed calls: log.c implements AtomicDisk.
THEOREM CrashAtomicHolds == Spec => CrashAtomic
  BY LogInvariant, RefineInit, RefineNext, PTL DEF Spec, CrashAtomic, Abs!Spec
=============================================================================
