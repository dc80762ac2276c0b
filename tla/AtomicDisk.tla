----------------------------- MODULE AtomicDisk -----------------------------
(***************************************************************************)
(* What kernel/log.c promises its callers, without a log: a disk whose     *)
(* contents change only in whole groups of completed file-system calls.    *)
(* "mem" is what the running kernel reads (buffer cache over disk) and     *)
(* "stable" is what it would read after a power failure now.               *)
(***************************************************************************)
CONSTANTS Procs,     \* processes that make file-system calls
          Blocks,    \* home blocks of the disk
          Vals       \* contents of a block

VARIABLES stable,    \* contents a recovery would restore
          mem,       \* contents the running kernel sees
          active     \* processes between begin_op() and end_op()

vars == <<stable, mem, active>>

Init == /\ stable \in [Blocks -> Vals]
        /\ mem = stable
        /\ active = {}

Begin(p) == /\ p \notin active
            /\ active' = active \cup {p}
            /\ UNCHANGED <<stable, mem>>

Write(p, b, v) == /\ p \in active
                  /\ mem' = [mem EXCEPT ![b] = v]
                  /\ UNCHANGED <<stable, active>>

End(p) == /\ p \in active
          /\ active' = active \ {p}
          /\ UNCHANGED <<stable, mem>>

\* All completed calls become durable together, and only while no call is
\* in the middle of its writes.
Commit == /\ active = {}
          /\ stable' = mem
          /\ UNCHANGED <<mem, active>>

Crash == /\ mem' = stable
         /\ active' = {}
         /\ UNCHANGED stable

Next == \/ \E p \in Procs : Begin(p) \/ End(p)
        \/ \E p \in Procs, b \in Blocks, v \in Vals : Write(p, b, v)
        \/ Commit
        \/ Crash

Spec == Init /\ [][Next]_vars
=============================================================================
