------------------------------- MODULE MCTty -------------------------------
EXTENDS Tty, TLC
Perms == Permutations(Readers)

\* Erased characters, a killed line, a full ring, two lines at once, an end of
\* file behind a line and behind part of one, a process listing.
Typed == {<<"x", "^H", "\r">>, <<"x", "^U">>, <<"x", "x", "x">>, <<"x", "^D">>, <<"\r", "^D">>, <<"^P">>}
=============================================================================
