----------------------------- MODULE BlockStore -----------------------------
(***************************************************************************)
(* What the buffer cache promises: every block has one current contents,   *)
(* which the one process that has the block locked reads and replaces.     *)
(***************************************************************************)
CONSTANTS Holders, Blocks, Vals, Zero, Nobody

VARIABLES store,  \* current contents of each block
          owner   \* the process that has the block locked, or Nobody

Init == store = [b \in Blocks |-> Zero] /\ owner = [b \in Blocks |-> Nobody]

Lock(p, b) == /\ owner[b] = Nobody
              /\ owner' = [owner EXCEPT ![b] = p] /\ UNCHANGED store

Write(p, b) == /\ owner[b] = p /\ UNCHANGED owner
               /\ \E v \in Vals : store' = [store EXCEPT ![b] = v]

Unlock(p, b) == /\ owner[b] = p
                /\ owner' = [owner EXCEPT ![b] = Nobody] /\ UNCHANGED store

Next == \E p \in Holders, b \in Blocks : Lock(p, b) \/ Write(p, b) \/ Unlock(p, b)

Spec == Init /\ [][Next]_<<store, owner>>
=============================================================================
