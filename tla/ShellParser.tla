---------------------------- MODULE ShellParser ----------------------------
(***************************************************************************)
(* The parser of user/sh.c.  A line is a sequence of tokens, words or      *)
(* symbols, as gettoken() finds them; what is left of it is what *ps       *)
(* points at.  panic() ends the process, so it ends the parse.             *)
(***************************************************************************)
EXTENDS Naturals, Sequences

CONSTANT MAXARGS

Symbols == {"<", "|", ">", ">>", "&", ";", "(", ")"}

execcmd(argv) == [type |-> "EXEC", argv |-> argv]
redircmd(cmd, file, sym) ==
  [type |-> "REDIR", cmd |-> cmd, file |-> file, sym |-> sym, fd |-> IF sym = "<" THEN 0 ELSE 1]
pipecmd(left, right) == [type |-> "PIPE", left |-> left, right |-> right]
listcmd(left, right) == [type |-> "LIST", left |-> left, right |-> right]
backcmd(cmd) == [type |-> "BACK", cmd |-> cmd]

Ok(cmd, s) == [ok |-> TRUE, cmd |-> cmd, rest |-> s]
panic == [ok |-> FALSE, cmd |-> execcmd(<<>>), rest |-> <<>>]

peek(s, toks) == s # <<>> /\ Head(s) \in toks

\* Redirections are parsed to a list; Redirected puts them around a command.
RECURSIVE Redirected(_, _)
Redirected(cmd, rs) ==
  IF rs = <<>> THEN cmd
  ELSE Redirected(redircmd(cmd, Head(rs)[2], Head(rs)[1]), Tail(rs))

RECURSIVE parseredirs(_, _)
parseredirs(rs, s) ==
  IF ~peek(s, {"<", ">", ">>"}) THEN [ok |-> TRUE, redirs |-> rs, rest |-> s]
  ELSE IF Len(s) = 1 \/ s[2] \in Symbols THEN [ok |-> FALSE, redirs |-> rs, rest |-> s]
  ELSE parseredirs(Append(rs, <<s[1], s[2]>>), SubSeq(s, 3, Len(s)))

Redirect(cmd, q) == IF q.ok THEN Ok(Redirected(cmd, q.redirs), q.rest) ELSE panic

\* The loop of parseexec() after redirections q: an argument or the end.
RECURSIVE parseargs(_, _)
parseargs(argv, q) ==
  IF ~q.ok \/ q.rest = <<>> \/ peek(q.rest, {"|", ")", "&", ";"})
  THEN Redirect(execcmd(argv), q)
  ELSE IF Head(q.rest) \in Symbols \/ Len(argv) + 1 >= MAXARGS THEN panic
  ELSE parseargs(Append(argv, Head(q.rest)), parseredirs(q.redirs, Tail(q.rest)))

\* parseblock() after the line l inside the parentheses.
parseblock(l) ==
  IF ~l.ok \/ ~peek(l.rest, {")"}) THEN panic
  ELSE Redirect(l.cmd, parseredirs(<<>>, Tail(l.rest)))

RECURSIVE parseline(_)
parseexec(s) == IF peek(s, {"("}) THEN parseblock(parseline(Tail(s)))
                ELSE parseargs(<<>>, parseredirs(<<>>, s))

Joined(type, l, r) ==
  IF ~r.ok THEN panic
  ELSE Ok(IF type = "PIPE" THEN pipecmd(l.cmd, r.cmd) ELSE listcmd(l.cmd, r.cmd), r.rest)

\* parsepipe() from its "|" on, and the "&"s and the ";" of parseline().
RECURSIVE parsepipe(_)
Piped(l) == IF ~l.ok \/ ~peek(l.rest, {"|"}) THEN l
            ELSE Joined("PIPE", l, parsepipe(Tail(l.rest)))
parsepipe(s) == Piped(parseexec(s))

RECURSIVE Backs(_)
Backs(l) == IF ~l.ok \/ ~peek(l.rest, {"&"}) THEN l ELSE Backs(Ok(backcmd(l.cmd), Tail(l.rest)))
Listed(l) == IF ~l.ok \/ ~peek(l.rest, {";"}) THEN l
             ELSE Joined("LIST", l, parseline(Tail(l.rest)))
parseline(s) == Listed(Backs(parsepipe(s)))

\* Mutant: what follows a complete line is ignored.
parsecmd_leftovers(s) == parseline(s)

\* Leftovers are a syntax error.
Complete(l) == IF l.ok /\ l.rest = <<>> THEN l ELSE panic
parsecmd(s) == Complete(parseline(s))
-----------------------------------------------------------------------------
(* The language of the shell, defined by where a line splits: at the first *)
(* ";" outside parentheses, at the "&"s that end a part, at the first "|". *)

Upto(s, i) == SubSeq(s, 1, i - 1)
After(s, i) == SubSeq(s, i + 1, Len(s))
Count(s, tok) == Len(SelectSeq(s, LAMBDA t : t = tok))
\* Positions of tok outside parentheses, and the first of them.
Outside(s, tok) ==
  {i \in DOMAIN s : s[i] = tok /\ Count(Upto(s, i), "(") = Count(Upto(s, i), ")")}
First(S) == CHOOSE i \in S : \A j \in S : i <= j

\* A list of redirections and words: every redirection has its word.
IsRedir(s, i) == s[i] \in {"<", ">", ">>"}
IsWord(s, i) == i \in DOMAIN s /\ s[i] \notin Symbols
Simple(s) == \A i \in DOMAIN s : IsWord(s, i) \/ (IsRedir(s, i) /\ IsWord(s, i + 1))
Where(s, P(_)) == SelectSeq([i \in DOMAIN s |-> i], P)
Argv(s) ==
  LET plain == Where(s, LAMBDA i : IsWord(s, i) /\ ~(i > 1 /\ IsRedir(s, i - 1)))
  IN [k \in DOMAIN plain |-> s[plain[k]]]
Redirs(s) ==
  LET rs == Where(s, LAMBDA i : IsRedir(s, i))
  IN [k \in DOMAIN rs |-> <<s[rs[k]], s[rs[k] + 1]>>]

Accepts(cmd) == [ok |-> TRUE, cmd |-> cmd]
Rejects == [ok |-> FALSE, cmd |-> execcmd(<<>>)]
Both(f(_, _), a, b) == IF a.ok /\ b.ok THEN Accepts(f(a.cmd, b.cmd)) ELSE Rejects

RECURSIVE Line(_)
Block(b, tail) == IF b.ok /\ Simple(tail) /\ Argv(tail) = <<>>
                  THEN Accepts(Redirected(b.cmd, Redirs(tail))) ELSE Rejects
Unit(s) ==
  IF s # <<>> /\ s[1] = "("
  THEN LET ends == {i \in DOMAIN s : Count(SubSeq(s, 1, i), "(") = Count(SubSeq(s, 1, i), ")")}
       IN IF ends = {} THEN Rejects
          ELSE Block(Line(SubSeq(s, 2, First(ends) - 1)), After(s, First(ends)))
  ELSE IF Simple(s) /\ Len(Argv(s)) < MAXARGS
       THEN Accepts(Redirected(execcmd(Argv(s)), Redirs(s))) ELSE Rejects

RECURSIVE Pipeline(_)
Pipeline(s) ==
  LET bars == Outside(s, "|") IN
  IF bars = {} THEN Unit(s)
  ELSE Both(pipecmd, Unit(Upto(s, First(bars))), Pipeline(After(s, First(bars))))

RECURSIVE Job(_)
Backed(j) == IF j.ok THEN Accepts(backcmd(j.cmd)) ELSE Rejects
Job(s) ==
  IF s # <<>> /\ s[Len(s)] = "&" THEN Backed(Job(Upto(s, Len(s))))
  ELSE IF Outside(s, "&") = {} THEN Pipeline(s) ELSE Rejects

Line(s) ==
  LET semis == Outside(s, ";") IN
  IF semis = {} THEN Job(s)
  ELSE Both(listcmd, Job(Upto(s, First(semis))), Line(After(s, First(semis))))
=============================================================================
