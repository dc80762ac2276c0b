------------------------------ MODULE MCShell ------------------------------
EXTENDS Shell

Alphabet == {"echo", "|", ";", "&", "(", ")", ">"}
\* Every line of up to three tokens with at most one pipe or background job.
Short == {l \in UNION {[1 .. n -> Alphabet] : n \in 0 .. 3} : Count(l, "|") + Count(l, "&") <= 1}

Long == {
  <<"echo", "f", "|", "cat">>,
  <<"echo", "f", "|", "cat", "|", "cat", ">", "f">>,
  <<"echo", "<", "f", ">", "f", "|", "cat", "|", "cat">>,
  <<"cat", "|", "echo", "f">>,
  <<"echo", "f", "|", "hog">>,
  <<"echo", "f", "|", "stray">>,
  <<"echo", "f", "&", ";", "cat">>,
  <<"(", "echo", ";", "cat", "&", ")", "|", "cat">>,
  <<"(", "echo", "f", ";", "echo", "f", ")", "|", "cat">>,
  <<"(", "echo", "|", "cat", ")", ">", "f", "&">>,
  <<"echo", ">", "f", ";", "cat", "<", "f", ">", "g", ">", "h">>,
  <<"echo", "f", "|", "cat", "<", "f">>,
  <<"echo", ">>", "f", "|", "cat", ";", "echo">>,
  <<"echo", "f", "f", "f">>,
  <<"cd", "f">>,
  <<"glut">>,
  <<"(", "(", "echo", ")", ">", "f", ";", "echo", ")", "&">>,
  <<"(", "echo", "&", ";", ")", ";", "echo", "<">>,
  <<"(", "echo", ")", "f", "|", "echo">>,
  <<"(", "(", "echo", ")", ";", "echo">>,
  <<"echo", "&", "|", "echo">>,
  <<"echo", "<", ">", "f">>,
  <<"echo", "(", "echo", ")">>}

Typed == {<<l>> : l \in Short \union Long}
  \union {<< <<"echo", "f", "|", "cat", "&">>, <<"echo", ">", "f">> >>}
=============================================================================
