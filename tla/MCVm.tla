------------------------------- MODULE MCVm --------------------------------
(* Two processes and a program of one page, two with stack and guard.      *)
EXTENDS Vm

MCPrograms == { << [start |-> 0, text |-> 1, end |-> 2] >> }
MCSbrkArgs == {3, -3}
MCCopies == {<<0, 2>>}
=============================================================================
