----------------------------- MODULE AddrSpace ------------------------------
(***************************************************************************)
(* What the kernel promises about user memory: every process has pages of  *)
(* its own, numbered from 0; nothing but its own calls changes them; fork() *)
(* copies them, exec() replaces them, sbrk() adds zeroed pages or removes  *)
(* the last ones, and a call that fails has no effect.                     *)
(***************************************************************************)
EXTENDS Integers, Sequences

CONSTANTS Procs,
          PGSIZE,
          Stored,  \* what a program may write into its pages
          Images   \* the images that exec() can start a program with

VARIABLE as        \* as[p]: the size in bytes, and contents of p's pages

NoSpace == [sz |-> -1, page |-> <<>>]
NPages(sz) == (sz + PGSIZE - 1) \div PGSIZE
ZeroPage == [v |-> 0, u |-> 1]

Init == \E p \in Procs, first \in Images :
          as = [q \in Procs |-> IF q = p THEN first ELSE NoSpace]

store(p, new) ==
  /\ \A k \in DOMAIN as[p].page : new[k].u = as[p].page[k].u
  /\ \A k \in DOMAIN as[p].page :
       new[k] = as[p].page[k] \/ (as[p].page[k].u = 1 /\ new[k].v \in Stored)
  /\ as' = [as EXCEPT ![p].page = new]

sbrk(p, sz) ==
  as' = [as EXCEPT ![p] = [sz |-> sz, page |->
           [k \in 1 .. NPages(sz) |-> IF k <= Len(as[p].page) THEN as[p].page[k] ELSE ZeroPage]]]

fork(p, np) == as[np] = NoSpace /\ as' = [as EXCEPT ![np] = as[p]]

exec(p, image) == as' = [as EXCEPT ![p] = image]

exit(p) == as' = [as EXCEPT ![p] = NoSpace]

\* The arguments are read off the state that the call arrives at.
Next ==
  \E p \in Procs :
    /\ as[p] # NoSpace
    /\ \/ Len(as'[p].page) = Len(as[p].page) /\ store(p, as'[p].page)
       \/ as'[p].sz >= 0 /\ sbrk(p, as'[p].sz)
       \/ \E np \in Procs : fork(p, np)
       \/ \E image \in Images : exec(p, image)
       \/ exit(p)

Spec == Init /\ [][Next]_as
=============================================================================
