--------------------------------- MODULE Vm ---------------------------------
(***************************************************************************)
(* User memory: the page allocator of kernel/kalloc.c, the page tables of  *)
(* kernel/vm.c, and the calls that build and destroy them: fork(), exec(), *)
(* sbrk() and the freeing of a process.  Any of them may run out of memory *)
(* at any page.  Only the free list is shared; a step works on one page of *)
(* user memory, or on one page table that nobody else uses.                *)
(*                                                                         *)
(* A page table is a function from the nodes of its tree to the entries    *)
(* that point at them: node <<l, x>> is the page-table page that holds the *)
(* level-l entries of the pages x * R^(l+1) ..., and <<-1, a>> page a      *)
(* itself.  Virtual addresses are page numbers, sizes are in bytes.        *)
(***************************************************************************)
EXTENDS Integers, Sequences, FiniteSets, FiniteSetsExt, SequencesExt, TLC

CONSTANTS Procs,
          initproc,
          NPAGES,     \* pages of physical memory between end and PHYSTOP
          PGSIZE, LEVELS, R,  \* bytes of a page, levels and entries of a table
          Programs,   \* executables: sequences of segments, see loadseg
          SbrkArgs, MaxSz,    \* arguments of sbrk(), and a bound on p->sz
          MAXARG,             \* size of argv in sys_exec()
          Copies,             \* what copyout() is asked for: first page and pages
          NoProc

ASSUME VmAssumption ==
  /\ initproc \in Procs /\ NPAGES \in Nat /\ PGSIZE \in Nat \ {0}
  /\ LEVELS \in Nat \ {0} /\ R \in Nat \ {0, 1} /\ MaxSz \in Nat /\ SbrkArgs \subseteq Int

VARIABLES
  mem,       \* contents of the pages that are not on kmem.freelist
  pagetable, \* p->pagetable
  sz,        \* p->sz
  trapframe, \* p->trapframe
  th,        \* the call in progress of each process
  panicked   \* the kernel has stopped in panic()

vars == <<mem, pagetable, sz, trapframe, th, panicked>>

\* A page in use is named after what it was allocated for, <<p, node, k>>; it
\* does not matter which of the free pages kalloc() returns.
Trampoline == <<NoProc, <<0, 0>>, 0>>   \* the page of kernel text with trampoline.S
MAXVA == R ^ LEVELS
TRAMPOLINE == MAXVA - 1
TRAPFRAME == MAXVA - 2
UserPages(n) == (n + PGSIZE - 1) \div PGSIZE   \* PGROUNDUP(n) / PGSIZE
Junk == 9
Root == <<LEVELS - 1, 0>>
Node(l, a) == <<l, a \div R ^ (l + 1)>>
Leaf(a) == <<-1, a>>
Without(pt, N) == [n \in DOMAIN pt \ N |-> pt[n]]
NoTable == [n \in {} |-> 0]
None == <<>>                 \* a null pointer
Frame == <<-2, 0>>           \* stands for the trapframe in the name of a page
Arg(i) == <<-3, i>>          \* and for the i-th argument of exec()
-----------------------------------------------------------------------------
(* Operators on s: the memory and a page table of process p, with the page *)
(* pa that kalloc() returned last and whether the kernel panics.           *)

S(p, pt) == [p |-> p, mem |-> mem, pt |-> pt, pa |-> Trampoline, panic |-> 0]

kalloc(s, n) ==
  LET k == CHOOSE k \in 0 .. NPAGES : <<s.p, n, k>> \notin DOMAIN s.mem
                     /\ \A j \in 0 .. k - 1 : <<s.p, n, j>> \in DOMAIN s.mem
  IN IF Cardinality(DOMAIN s.mem) = NPAGES THEN [s EXCEPT !.pa = None]
     ELSE [s EXCEPT !.pa = <<s.p, n, k>>, !.mem = (<<s.p, n, k>> :> Junk) @@ @]

\* kfree() of the pages in P.  A page that is free already would corrupt the
\* list; the model counts this as a panic.
kfree(s, P) == [s EXCEPT !.mem = Without(@, P),
                         !.panic = IF P \subseteq DOMAIN s.mem THEN @ ELSE 1]

\* walk() with alloc: one level, unless a higher one could not be allocated
walk_level(s, a, l) ==
  LET t == kalloc(s, Node(l, a)) IN
  IF s.pa = None \/ Node(l, a) \in DOMAIN s.pt THEN s
  ELSE IF t.pa = None THEN t
  ELSE [t EXCEPT !.pt = (Node(l, a) :> [pa |-> t.pa, u |-> 0]) @@ @]
walk(s, a) ==
  FoldLeft(LAMBDA t, l : walk_level(t, a, l), [s EXCEPT !.pa = Trampoline],
           [k \in 1 .. LEVELS - 1 |-> LEVELS - 1 - k])

walkaddr(pt, a) == IF Leaf(a) \in DOMAIN pt /\ pt[Leaf(a)].u = 1 THEN pt[Leaf(a)].pa ELSE None

mappages(s, a, pa, u) ==
  LET t == walk(s, a) IN
  IF t.pa = None THEN t
  ELSE IF Leaf(a) \in DOMAIN t.pt THEN [t EXCEPT !.panic = 1]
  ELSE [t EXCEPT !.pt = (Leaf(a) :> [pa |-> pa, u |-> u]) @@ @]

\* uvmunmap() of the pages in A
uvmunmap(s, A, do_free) ==
  LET leaves == {Leaf(a) : a \in A}
      t == [s EXCEPT !.pt = Without(@, leaves)]
  IN IF ~(leaves \subseteq DOMAIN s.pt) THEN [s EXCEPT !.panic = 1]
     ELSE IF do_free = 1 THEN kfree(t, {s.pt[n].pa : n \in leaves}) ELSE t

\* uvmdealloc() from page number n to page number m
uvmdealloc(s, n, m) == uvmunmap(s, m .. n - 1, 1)

freewalk(s) ==
  IF \E n \in DOMAIN s.pt : n[1] = -1 THEN [s EXCEPT !.panic = 1]
  ELSE [kfree(s, {s.pt[n].pa : n \in DOMAIN s.pt}) EXCEPT !.pt = NoTable]

uvmfree(s, n) == freewalk(uvmunmap(s, 0 .. n - 1, 1))

uvmcreate(s) ==
  LET t == kalloc(s, Root)
  IN IF t.pa = None THEN t ELSE [t EXCEPT !.pt = Root :> [pa |-> t.pa, u |-> 0]]

\* proc_pagetable(): pt is NoTable if there is not memory enough
proc_pagetable(s, tf) ==
  LET s1 == uvmcreate([s EXCEPT !.pt = NoTable])
      s2 == mappages(s1, TRAMPOLINE, Trampoline, 0)
      s3 == mappages(s2, TRAPFRAME, tf, 0)
  IN IF s1.pa = None THEN s1
     ELSE IF s2.pa = None THEN uvmfree(s2, 0)
     ELSE IF s3.pa = None THEN uvmfree(uvmunmap(s3, {TRAMPOLINE}, 0), 0)
     ELSE s3

proc_freepagetable(s, n) ==
  uvmfree(uvmunmap(uvmunmap(s, {TRAMPOLINE}, 0), {TRAPFRAME}, 0), n)
-----------------------------------------------------------------------------
(* Calls.  th[p]: pc and op; the pages a, from and the size to of a loop   *)
(* over pages; the child np; exec()'s table pt, size sz, program prog,     *)
(* segment i and argument pages argv.                                      *)

Idle == [pc |-> "user", op |-> "", a |-> 0, from |-> 0, to |-> 0, np |-> NoProc,
         pt |-> NoTable, sz |-> 0, prog |-> <<>>, i |-> 0, argv |-> {}]
Unused == [Idle EXCEPT !.pc = "unused"]
At(p, l) == panicked = 0 /\ th[p].pc = l

\* The allocator is left as s says.
Mem(s) == mem' = s.mem /\ panicked' = s.panic

\* userinit(): initcode in one page
Init ==
  LET s0 == [p |-> initproc, mem |-> NoTable, pt |-> NoTable, pa |-> Trampoline, panic |-> 0]
      tf == kalloc(s0, Frame)
      s1 == kalloc(proc_pagetable(tf, tf.pa), Leaf(0))
      s2 == mappages([s1 EXCEPT !.mem[s1.pa] = 1], 0, s1.pa, 1)
  IN
  /\ mem = s2.mem /\ panicked = s2.panic
  /\ pagetable = [p \in Procs |-> IF p = initproc THEN s2.pt ELSE NoTable]
  /\ sz = [p \in Procs |-> IF p = initproc THEN PGSIZE ELSE 0]
  /\ trapframe = [p \in Procs |-> IF p = initproc THEN tf.pa ELSE None]
  /\ th = [p \in Procs |-> IF p = initproc THEN Idle ELSE Unused]

\* copyout(), or a store of the program itself: the pages from a on, up to the
\* first one that is not mapped for the user
copyout(p, a, len) ==
  LET pa(b) == walkaddr(pagetable[p], b)
      written == {pa(b) : b \in {b \in a .. a + len - 1 : \A c \in a .. b : pa(c) # None}}
  IN
  /\ At(p, "user")
  /\ mem' = [m \in DOMAIN mem |-> IF m \in written THEN 2 ELSE mem[m]]
  /\ UNCHANGED <<pagetable, sz, trapframe, th, panicked>>

\* growproc().  A sum below zero wraps to a size above p->sz: no effect.
growproc(p, n) ==
  LET from == UserPages(sz[p])
      s == uvmdealloc(S(p, pagetable[p]), from, UserPages(sz[p] + n))
  IN
  /\ At(p, "user") /\ sz[p] + n \in 0 .. MaxSz
  /\ \/ /\ n > 0
        /\ th' = [th EXCEPT ![p] = [Idle EXCEPT !.pc = "alloc", !.op = "sbrk",
                                      !.a = from, !.from = from, !.to = sz[p] + n]]
        /\ UNCHANGED <<mem, pagetable, sz, panicked>>
     \/ /\ n < 0 /\ Mem(s)
        /\ pagetable' = [pagetable EXCEPT ![p] = s.pt] /\ sz' = [sz EXCEPT ![p] = @ + n]
        /\ UNCHANGED th
  /\ UNCHANGED trapframe
-----------------------------------------------------------------------------
(* uvmalloc(), on the process's own table or on the one that exec() builds *)

Table(p) == IF th[p].op = "sbrk" THEN pagetable[p] ELSE th[p].pt
SetTable(p, pt, t) ==
  IF th[p].op = "sbrk"
  THEN pagetable' = [pagetable EXCEPT ![p] = pt] /\ th' = [th EXCEPT ![p] = t]
  ELSE th' = [th EXCEPT ![p] = [t EXCEPT !.pt = pt]] /\ UNCHANGED pagetable

\* Mutants of uvmalloc: the page is not freed when mappages() fails; the page is
\* not cleared.
uvmalloc_no_kfree(s, a, from) ==
  LET t == kalloc(s, Leaf(a))
      r == mappages([t EXCEPT !.mem[t.pa] = 0], a, t.pa, 1)
  IN IF t.pa = None THEN uvmdealloc(t, a, from)
     ELSE IF r.pa = None THEN uvmdealloc(r, a, from)
     ELSE r
uvmalloc_no_memset(s, a, from) ==
  LET t == kalloc(s, Leaf(a))
      r == mappages(t, a, t.pa, 1)
  IN IF t.pa = None THEN uvmdealloc(t, a, from)
     ELSE IF r.pa = None THEN uvmdealloc(kfree(r, {t.pa}), a, from)
     ELSE r
\* One page a of uvmalloc(); pa is None if it failed, with everything undone.
uvmalloc(s, a, from) ==
  LET t == kalloc(s, Leaf(a))
      r == mappages([t EXCEPT !.mem[t.pa] = 0], a, t.pa, 1)
  IN IF t.pa = None THEN uvmdealloc(t, a, from)
     ELSE IF r.pa = None THEN uvmdealloc(kfree(r, {t.pa}), a, from)
     ELSE r

uvmalloc_page(p) ==
  LET t == th[p]
      r == uvmalloc(S(p, Table(p)), t.a, t.from)
  IN
  /\ At(p, "alloc") /\ t.a * PGSIZE < t.to /\ Mem(r)
  /\ SetTable(p, r.pt, IF r.pa # None THEN [t EXCEPT !.a = @ + 1]
                       ELSE IF t.op = "sbrk" THEN Idle ELSE [t EXCEPT !.pc = "bad"])
  /\ UNCHANGED <<sz, trapframe>>

\* It returns newsz, or oldsz if that is larger.
uvmalloc_done(p) ==
  LET t == th[p] IN
  /\ At(p, "alloc") /\ t.a * PGSIZE >= t.to
  /\ \/ t.op = "sbrk" /\ sz' = [sz EXCEPT ![p] = t.to] /\ th' = [th EXCEPT ![p] = Idle]
     \/ t.op # "sbrk" /\ UNCHANGED sz
        /\ th' = [th EXCEPT ![p].pc = t.op, ![p].sz = Max({@, t.to})]
  /\ UNCHANGED <<mem, pagetable, trapframe, panicked>>
-----------------------------------------------------------------------------
(* fork(), and the end of a process in wait()                              *)

freeproc(s, tf, n) == proc_freepagetable(kfree(s, {tf}), n)

fork_alloc(p, np) ==
  LET tf == kalloc(S(np, NoTable), Frame)
      s == proc_pagetable(tf, tf.pa)
      ok == tf.pa # None /\ s.pt # NoTable
  IN
  /\ At(p, "user") /\ At(np, "unused") /\ \A q \in Procs : th[q].np # np
  /\ tf.pa # None
  /\ IF ok THEN /\ Mem(s)
                /\ pagetable' = [pagetable EXCEPT ![np] = s.pt]
                /\ trapframe' = [trapframe EXCEPT ![np] = tf.pa]
                /\ th' = [th EXCEPT ![p] = [Idle EXCEPT !.pc = "copy", !.np = np]]
           ELSE Mem(kfree(s, {tf.pa})) /\ UNCHANGED <<pagetable, trapframe, th>>
  /\ UNCHANGED sz

\* One page a of uvmcopy(); pa is None if it failed and the child is freed.
uvmcopy(s, pte, a, tf) ==
  LET t == kalloc(s, Leaf(a))
      r == mappages([t EXCEPT !.mem[t.pa] = s.mem[pte.pa]], a, t.pa, pte.u)
      undo(x) == [freeproc(uvmunmap(x, 0 .. a - 1, 1), tf, 0) EXCEPT !.pa = None]
  IN IF t.pa = None THEN undo(t) ELSE IF r.pa = None THEN undo(kfree(r, {t.pa})) ELSE r

fork_copy(p) ==
  LET t == th[p]
      np == t.np
      r == uvmcopy(S(np, pagetable[np]), pagetable[p][Leaf(t.a)], t.a, trapframe[np])
  IN
  /\ At(p, "copy") /\ t.a * PGSIZE < sz[p] /\ Mem(r)
  /\ pagetable' = [pagetable EXCEPT ![np] = r.pt]
  /\ trapframe' = [trapframe EXCEPT ![np] = IF r.pa = None THEN None ELSE @]
  /\ th' = [th EXCEPT ![p] = IF r.pa = None THEN Idle ELSE [@ EXCEPT !.a = @ + 1]]
  /\ UNCHANGED sz

fork_done(p) ==
  /\ At(p, "copy") /\ th[p].a * PGSIZE >= sz[p]
  /\ sz' = [sz EXCEPT ![th[p].np] = sz[p]]
  /\ th' = [th EXCEPT ![p] = Idle, ![th[p].np] = Idle]
  /\ UNCHANGED <<mem, pagetable, trapframe, panicked>>

exit(p) ==
  LET s == freeproc(S(p, pagetable[p]), trapframe[p], UserPages(sz[p])) IN
  /\ At(p, "user") /\ p # initproc /\ Mem(s)
  /\ pagetable' = [pagetable EXCEPT ![p] = NoTable] /\ sz' = [sz EXCEPT ![p] = 0]
  /\ trapframe' = [trapframe EXCEPT ![p] = None] /\ th' = [th EXCEPT ![p] = Unused]
-----------------------------------------------------------------------------
(* exec().  A segment [start, text, end]: pages start .. start + text - 1  *)
(* are loaded from the file, and memory up to byte end is allocated.       *)

\* sys_exec(): a page for each argument, until the end of the program's array;
\* fetchstr() fills it or fails, see sys_exec_bad.
sys_exec(p, prog) ==
  /\ At(p, "user")
  /\ th' = [th EXCEPT ![p] = [Idle EXCEPT !.pc = "args", !.prog = prog]]
  /\ UNCHANGED <<mem, pagetable, sz, trapframe, panicked>>

sys_exec_arg(p) ==
  LET t == th[p]
      s == kalloc(S(p, NoTable), Arg(Cardinality(t.argv)))
  IN
  /\ At(p, "args") /\ Cardinality(t.argv) < MAXARG /\ s.pa # None /\ Mem(s)
  /\ th' = [th EXCEPT ![p].argv = @ \cup {s.pa}]
  /\ UNCHANGED <<pagetable, sz, trapframe>>

\* kalloc(), fetchaddr() or fetchstr() fails, or argv is full.
sys_exec_bad(p) ==
  /\ At(p, "args") /\ Mem(kfree(S(p, NoTable), th[p].argv))
  /\ th' = [th EXCEPT ![p] = Idle]
  /\ UNCHANGED <<pagetable, sz, trapframe>>

\* The file is found and is an executable, and there is a page table; or not.
exec(p) ==
  LET t == th[p]
      s == proc_pagetable(S(p, NoTable), trapframe[p])
  IN
  /\ At(p, "args") /\ Cardinality(t.argv) < MAXARG
  /\ \/ s.pt # NoTable /\ Mem(s) /\ th' = [th EXCEPT ![p].pt = s.pt, ![p].pc = "seg", ![p].i = 1]
     \/ Mem(kfree(S(p, NoTable), t.argv)) /\ th' = [th EXCEPT ![p] = Idle]
  /\ UNCHANGED <<pagetable, sz, trapframe>>

Alloc(t, op, from, to) ==
  [t EXCEPT !.pc = "alloc", !.op = op, !.from = UserPages(from), !.a = UserPages(from), !.to = to]

\* The next program header, unless it is no good
exec_segment(p) ==
  LET t == th[p] IN
  /\ At(p, "seg") /\ t.i <= Len(t.prog)
  /\ th' = [th EXCEPT ![p] = [t EXCEPT !.pc = "bad"]]
     \/ th' = [th EXCEPT ![p] = Alloc(t, "load", t.sz, t.prog[t.i].end)]
  /\ UNCHANGED <<mem, pagetable, sz, trapframe, panicked>>

\* loadseg(): n pages are read; then the segment ends, or a page is missing, or
\* the file cannot be read.
loadseg(p) ==
  LET t == th[p]
      seg == t.prog[t.i]
      page(k) == walkaddr(t.pt, seg.start + k)
  IN
  /\ At(p, "load")
  /\ \E n \in 0 .. seg.text :
       /\ \A k \in 0 .. n - 1 : page(k) # None
       /\ mem' = [m \in DOMAIN mem |-> IF \E k \in 0 .. n - 1 : m = page(k) THEN 1 ELSE mem[m]]
       /\ panicked' = IF n < seg.text /\ page(n) = None THEN 1 ELSE 0
       /\ th' = [th EXCEPT ![p] = IF n = seg.text THEN [t EXCEPT !.pc = "seg", !.i = @ + 1]
                                  ELSE [t EXCEPT !.pc = "bad"]]
  /\ UNCHANGED <<pagetable, sz, trapframe>>

\* Two more pages: the stack and its guard
exec_stack(p) ==
  LET t == th[p]
      up == UserPages(t.sz) * PGSIZE
  IN
  /\ At(p, "seg") /\ t.i > Len(t.prog)
  /\ th' = [th EXCEPT ![p] = Alloc([t EXCEPT !.sz = up], "stack", up, up + 2 * PGSIZE)]
  /\ UNCHANGED <<mem, pagetable, sz, trapframe, panicked>>

\* The stack does not hold the arguments.
exec_toolong(p) ==
  /\ At(p, "stack") /\ th' = [th EXCEPT ![p].pc = "bad"]
  /\ UNCHANGED <<mem, pagetable, sz, trapframe, panicked>>

\* uvmclear() of the guard, copyout() of the arguments, and the new image takes
\* the place of the old one.
exec_commit(p) ==
  LET t == th[p]
      top == UserPages(t.sz)
      new == [t.pt EXCEPT ![Leaf(top - 2)].u = 0]
      s == [S(p, pagetable[p]) EXCEPT !.mem[t.pt[Leaf(top - 1)].pa] = 3]
  IN
  /\ At(p, "stack")
  /\ Mem(kfree(proc_freepagetable(s, UserPages(sz[p])), t.argv))
  /\ pagetable' = [pagetable EXCEPT ![p] = new] /\ sz' = [sz EXCEPT ![p] = t.sz]
  /\ th' = [th EXCEPT ![p] = Idle]
  /\ UNCHANGED trapframe

exec_bad(p) ==
  LET t == th[p] IN
  /\ At(p, "bad")
  /\ Mem(kfree(proc_freepagetable(S(p, t.pt), UserPages(t.sz)), t.argv))
  /\ th' = [th EXCEPT ![p] = Idle]
  /\ UNCHANGED <<pagetable, sz, trapframe>>

Next ==
  \E p \in Procs :
    \/ \E c \in Copies : copyout(p, c[1], c[2])
    \/ \E n \in SbrkArgs : growproc(p, n)
    \/ uvmalloc_page(p) \/ uvmalloc_done(p)
    \/ \E np \in Procs : fork_alloc(p, np)
    \/ fork_copy(p) \/ fork_done(p) \/ exit(p)
    \/ \E prog \in Programs : sys_exec(p, prog)
    \/ sys_exec_arg(p) \/ sys_exec_bad(p) \/ exec(p) \/ exec_segment(p) \/ loadseg(p) \/ exec_stack(p)
    \/ exec_toolong(p) \/ exec_commit(p) \/ exec_bad(p)

Spec == Init /\ [][Next]_vars
-----------------------------------------------------------------------------
(* Properties                                                              *)

\* Every variable keeps to its values.
TypeOK ==
  /\ Cardinality(DOMAIN mem) <= NPAGES /\ sz \in [Procs -> 0 .. MaxSz]
  /\ \A p \in Procs : trapframe[p] \in DOMAIN mem \cup {None}
  /\ panicked \in {0, 1}

\* Who owns a page: a node of a page table (the trampoline and the trapframe
\* excepted), a trapframe, an argument of exec()
Owned(pt) == {<<n, pt[n].pa>> : n \in DOMAIN pt \ {Leaf(TRAMPOLINE), Leaf(TRAPFRAME)}}
Owners ==
  UNION {{<<p, "table">>} \X Owned(pagetable[p]) : p \in Procs} \cup
  UNION {{<<p, "exec">>} \X Owned(th[p].pt) : p \in Procs} \cup
  {<<<<p, "trapframe">>, <<Frame, trapframe[p]>>>> : p \in {q \in Procs : trapframe[q] # None}} \cup
  UNION {{<<<<p, "argv">>, <<Frame, x>>>> : x \in th[p].argv} : p \in Procs}

\* Every page of memory is free or has exactly one owner, at whatever point
\* fork(), exec() or sbrk() run out of memory: none is lost, shared or freed
\* twice, and no panic() of vm.c, kalloc.c or loadseg() is reached.  A program finds exactly
\* the pages below its p->sz mapped, as uvmcopy() and uvmunmap() rely on, also
\* after a call that failed; and the trampoline and its own trapframe above them.
PagesExact ==
  /\ TypeOK /\ panicked = 0
  /\ {o[2][2] : o \in Owners} = DOMAIN mem
  /\ Cardinality(Owners) = Cardinality(DOMAIN mem)
  /\ \A p \in Procs : th[p].pc = "user" =>
       LET pt == pagetable[p] IN
       /\ {n \in DOMAIN pt : n[1] = -1} =
            {Leaf(a) : a \in (0 .. UserPages(sz[p]) - 1) \cup {TRAMPOLINE, TRAPFRAME}}
       /\ pt[Leaf(TRAMPOLINE)].pa = Trampoline /\ pt[Leaf(TRAPFRAME)].pa = trapframe[p]

\* User memory as programs see it: fork(), exec() and sbrk() give each process
\* an address space of its own with the contents that AddrSpace says, and have
\* no effect if they fail.
Space(p) ==
  IF th[p].pc = "unused" THEN [sz |-> -1, page |-> <<>>]
  ELSE [sz |-> sz[p], page |-> [k \in 1 .. UserPages(sz[p]) |->
          LET e == pagetable[p][Leaf(k - 1)] IN [v |-> mem[e.pa], u |-> e.u]]]
\* What exec() makes of a program: text, zeroes, the guard and the stack
Image(prog) ==
  LET n == UserPages(Max({prog[i].end : i \in DOMAIN prog}))
      text == UNION {prog[i].start .. prog[i].start + prog[i].text - 1 : i \in DOMAIN prog}
  IN [sz |-> (n + 2) * PGSIZE, page |-> [k \in 1 .. n + 2 |->
        [v |-> IF k = n + 2 THEN 3 ELSE IF k - 1 \in text THEN 1 ELSE 0,
         u |-> IF k = n + 1 THEN 0 ELSE 1]]]
initcode == [sz |-> PGSIZE, page |-> <<[v |-> 1, u |-> 1]>>]
AS == INSTANCE AddrSpace WITH as <- [p \in Procs |-> Space(p)], Stored <- {2},
                              Images <- {initcode} \cup {Image(prog) : prog \in Programs}
AddressSpaces == AS!Spec
=============================================================================
