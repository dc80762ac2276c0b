------------------------------ MODULE MCNames -------------------------------
(* Two processes on the names a, a/b and b.                                *)
EXTENDS Names, TLC

C(op, path, new) == [op |-> op, path |-> path, new |-> new]
MCCalls ==
  { C("open", <<"b">>, <<>>), C("chdir", <<"/", "a">>, <<>>),
    C("create", <<"b">>, <<>>), C("mkdir", <<"/", "a">>, <<>>),
    C("unlink", <<"/", "a">>, <<>>), C("unlink", <<"b">>, <<>>),
    C("link", <<"b">>, <<"/", "a", "b">>) }
Symmetry == Permutations(Procs)
=============================================================================
