------------------------------- MODULE Shell -------------------------------
(***************************************************************************)
(* The shell (user/sh.c) at work on lines typed at the console: runcmd()   *)
(* as processes that fork, wait, open, dup, close and pipe their way       *)
(* through the command tree, over the kernel's descriptor tables, its      *)
(* file table (file.c) and its pipes.                                      *)
(*                                                                         *)
(* code[p] is what process p has still to do, a sequence of operations     *)
(* whose first may be the rest of a system call that has released a lock.  *)
(* init is process 0: it holds the console open and reaps orphans.         *)
(***************************************************************************)
EXTENDS ShellParser, FiniteSets, FiniteSetsExt, SequencesExt

CONSTANTS NPROC,     \* process slots, init's excepted
          NOFILE,    \* descriptors per process
          NFILE,     \* entries of the file table
          PIPESIZE,  \* what a pipe holds, in writes
          Scripts    \* what is typed: sequences of lines, then end of file

VARIABLES heard,   \* the lines main() has read
          code, parent, pstate, ofile,
          ref, obj,  \* ftable: f->ref, and what f is
          pipes,     \* page -> [open: the ends that are open, n: writes it holds, at: ghost]
          files,     \* names of the files that exist
          job,       \* ghost: the line and the node of its tree that p runs
          forkfailed \* ghost

procvars == <<code, parent, pstate, job, forkfailed>>
filevars == <<ofile, ref, obj, pipes, files>>
vars == <<heard, procvars, filevars>>

init == 0
Procs == 1 .. NPROC
Fds == 0 .. NOFILE - 1
Lines == UNION {ToSet(s) : s \in Scripts}
Follows == [h \in UNION {{SubSeq(s, 1, n) : n \in 0 .. Len(s)} : s \in Scripts} |->
              {s[Len(h) + 1] : s \in {x \in Scripts : Len(x) > Len(h) /\ SubSeq(x, 1, Len(h)) = h}}]
Parsed == [l \in Lines |-> parsecmd(l)]
Files == 1 .. NFILE
Pages == 1 .. NFILE   \* for pipes: each open end has a file
None == <<"none">>
Console == <<"console">>
NoJob == [line |-> 0, path |-> <<"back">>]
Free == [open |-> {}, n |-> 0, at |-> NoJob]

op(p) == Head(code[p])
At(p, name) == pstate[p] = "run" /\ op(p)[1] = name
Continue(p) == code' = [code EXCEPT ![p] = Tail(@)]
Become(p, c) == code' = [code EXCEPT ![p] = c]
Before(p, c) == Become(p, c \o Tail(code[p]))
Exit == << <<"exit">> >>

NoFd(p) == {fd \in Fds : ofile[p][fd] = 0}
FreeFiles == {f \in Files : ref[f] = 0}
FreePages == {g \in Pages : pipes[g].open = {}}
fdalloc(p) == Min(NoFd(p))
filealloc == Min(FreeFiles)
-----------------------------------------------------------------------------
(* The file table.                                                         *)

\* fileclose() in its locked part; the last close of a pipe's end goes on
\* to pipeclose() after ftable.lock is released.
fileclose(p, f, rest) ==
  /\ ref' = [ref EXCEPT ![f] = @ - 1]
  /\ obj' = [obj EXCEPT ![f] = IF ref[f] = 1 THEN None ELSE @]
  /\ Become(p, IF ref[f] = 1 /\ obj[f][1] = "pipe" THEN <<obj[f]>> \o rest ELSE rest)

\* close(fd), and what exit() does for each descriptor that is open.
sys_close(p) ==
  /\ At(p, "close")
  /\ LET fd == op(p)[2] f == ofile[p][fd] IN
     IF f = 0 THEN Continue(p) /\ UNCHANGED <<ofile, ref, obj>>
     ELSE /\ ofile' = [ofile EXCEPT ![p][fd] = 0]
          /\ fileclose(p, f, Tail(code[p]))
  /\ UNCHANGED <<heard, parent, pstate, pipes, files, job, forkfailed>>

\* The undo of a system call that allocated f and cannot use it.
undo(p) ==
  /\ At(p, "fileclose")
  /\ fileclose(p, op(p)[2], Tail(code[p]))
  /\ UNCHANGED <<heard, parent, pstate, ofile, pipes, files, job, forkfailed>>

pipeclose(p) ==
  /\ At(p, "pipe")
  /\ LET left == pipes[op(p)[2]].open \ {op(p)[3]} IN
     pipes' = [pipes EXCEPT ![op(p)[2]] = IF left = {} THEN Free ELSE [@ EXCEPT !.open = left]]
  /\ Continue(p)
  /\ UNCHANGED <<heard, parent, pstate, ofile, ref, obj, files, job, forkfailed>>

sys_dup(p) ==
  /\ At(p, "dup")
  /\ LET f == ofile[p][op(p)[2]] IN
     IF f = 0 \/ NoFd(p) = {} THEN UNCHANGED <<ofile, ref>>
     ELSE /\ ofile' = [ofile EXCEPT ![p][fdalloc(p)] = f]
          /\ ref' = [ref EXCEPT ![f] = @ + 1]
  /\ Continue(p)
  /\ UNCHANGED <<heard, parent, pstate, obj, pipes, files, job, forkfailed>>

\* open() of a file that is there or may be created; rest[fd] follows a
\* success, failed a failure.
open(p, o, rest, failed) ==
  IF FreeFiles = {} THEN Become(p, failed) /\ UNCHANGED <<ofile, ref, obj>>
  ELSE /\ ref' = [ref EXCEPT ![filealloc] = 1]
       /\ IF NoFd(p) = {}
          THEN Become(p, << <<"fileclose", filealloc>> >> \o failed) /\ UNCHANGED <<ofile, obj>>
          ELSE /\ ofile' = [ofile EXCEPT ![p][fdalloc(p)] = filealloc]
               /\ obj' = [obj EXCEPT ![filealloc] = o]
               /\ Become(p, rest[fdalloc(p)])

\* runcmd()'s open(rcmd->file, rcmd->mode): all modes but "<" create.
sys_open(p) ==
  /\ At(p, "open")
  /\ LET name == op(p)[2] sym == op(p)[3] IN
     /\ files' = IF sym = "<" THEN files ELSE files \union {name}
     /\ IF name \notin files' THEN Become(p, Exit) /\ UNCHANGED <<ofile, ref, obj>>
        ELSE open(p, <<"inode", name, sym>>, [fd \in Fds |-> Tail(code[p])], Exit)
  /\ UNCHANGED <<heard, parent, pstate, pipes, job, forkfailed>>

\* pipe(p): pipealloc() takes two files and a page, sys_pipe() two
\* descriptors, and each failure gives back what was taken.  Memory is shared
\* with the rest of the system: kalloc() may fail at any time.
pipealloc_first(p) ==
  /\ At(p, "mkpipe")
  /\ IF FreeFiles = {} THEN Become(p, Exit) /\ UNCHANGED ref
     ELSE /\ ref' = [ref EXCEPT ![filealloc] = 1]
          /\ Before(p, << <<"mkpipe2", filealloc, op(p)[2]>> >>)
  /\ UNCHANGED <<heard, parent, pstate, ofile, obj, pipes, files, job, forkfailed>>

pipealloc_second(p) ==
  /\ At(p, "mkpipe2")
  /\ LET rf == op(p)[2] wf == filealloc pi == Min(FreePages) IN
     IF FreeFiles = {}
     THEN Become(p, << <<"fileclose", rf>> >> \o Exit) /\ UNCHANGED <<ref, obj, pipes>>
     ELSE /\ ref' = [ref EXCEPT ![wf] = 1]
          /\ \/ /\ Become(p, << <<"fileclose", rf>>, <<"fileclose", wf>> >> \o Exit)
                /\ UNCHANGED <<obj, pipes>>
             \/ /\ obj' = [obj EXCEPT ![rf] = <<"pipe", pi, "read">>, ![wf] = <<"pipe", pi, "write">>]
                /\ pipes' = [pipes EXCEPT ![pi] = [open |-> {"read", "write"}, n |-> 0, at |-> job[p]]]
                /\ Before(p, << <<"pipefds", rf, wf, op(p)[3]>> >>)
  /\ UNCHANGED <<heard, parent, pstate, ofile, files, job, forkfailed>>

\* runcmd(cmd): what the process will do, up to its exit or its pipe(),
\* whose descriptors the rest depends on.  The right side of a LIST runs in
\* the process that waited for the left.
RECURSIVE runcmd(_)
runcmd(cmd) ==
  CASE cmd.type = "EXEC" -> IF cmd.argv = <<>> THEN Exit ELSE << <<"exec", cmd.argv>> >> \o Exit
    [] cmd.type = "REDIR" -> << <<"close", cmd.fd>>, <<"open", cmd.file, cmd.sym>> >> \o runcmd(cmd.cmd)
    [] cmd.type = "LIST" -> << <<"fork", runcmd(cmd.left), "first">>, <<"wait", "second">> >> \o runcmd(cmd.right)
    [] cmd.type = "PIPE" -> << <<"mkpipe", <<cmd>> >> >>
    [] cmd.type = "BACK" -> << <<"fork", runcmd(cmd.cmd), "back">> >> \o Exit

\* Mutants: a child keeps the descriptors of the pipe; the parent does.
runcmd_pipe_keep(cmd, r, w) ==
  << <<"fork", << <<"close", 1>>, <<"dup", w>> >> \o runcmd(cmd.left), "writer">>,
     <<"fork", << <<"close", 0>>, <<"dup", r>> >> \o runcmd(cmd.right), "reader">>,
     <<"close", r>>, <<"close", w>>, <<"wait">>, <<"wait">> >> \o Exit
runcmd_pipe_hold(cmd, r, w) ==
  LET ends == << <<"close", r>>, <<"close", w>> >> IN
  << <<"fork", << <<"close", 1>>, <<"dup", w>> >> \o ends \o runcmd(cmd.left), "writer">>,
     <<"fork", << <<"close", 0>>, <<"dup", r>> >> \o ends \o runcmd(cmd.right), "reader">>,
     <<"wait">>, <<"wait">> >> \o Exit

\* The rest of the PIPE case, with p[0] = r and p[1] = w.
runcmd_pipe(cmd, r, w) ==
  LET ends == << <<"close", r>>, <<"close", w>> >> IN
  << <<"fork", << <<"close", 1>>, <<"dup", w>> >> \o ends \o runcmd(cmd.left), "writer">>,
     <<"fork", << <<"close", 0>>, <<"dup", r>> >> \o ends \o runcmd(cmd.right), "reader">> >>
  \o ends \o << <<"wait">>, <<"wait">> >> \o Exit

\* Mutant: a failure leaves the descriptor that was allocated.
sys_pipe_keep(p) ==
  /\ At(p, "pipefds")
  /\ LET rf == op(p)[2] wf == op(p)[3]
         r == fdalloc(p) w == Min(NoFd(p) \ {r})
         opened == [ofile EXCEPT ![p][r] = rf, ![p][w] = wf] IN
     IF Cardinality(NoFd(p)) < 2
     THEN /\ Become(p, << <<"fileclose", rf>>, <<"fileclose", wf>> >> \o Exit)
          /\ UNCHANGED ofile
     ELSE \/ /\ ofile' = opened
             /\ Become(p, IF op(p)[4] = <<>> THEN Tail(code[p]) ELSE runcmd_pipe(op(p)[4][1], r, w))
          \/ /\ op(p)[4] = <<>>
             /\ ofile' = [opened EXCEPT ![p][r] = 0]
             /\ Become(p, << <<"fileclose", rf>>, <<"fileclose", wf>> >> \o Exit)
  /\ UNCHANGED <<heard, parent, pstate, ref, obj, pipes, files, job, forkfailed>>

\* Two descriptors; copyout() of their numbers fails if the program's array is
\* not in its memory (the shell's is), and both are given back.
sys_pipe(p) ==
  /\ At(p, "pipefds")
  /\ LET rf == op(p)[2] wf == op(p)[3]
         r == fdalloc(p) w == Min(NoFd(p) \ {r})
         opened == [ofile EXCEPT ![p][r] = rf, ![p][w] = wf] IN
     IF Cardinality(NoFd(p)) < 2
     THEN /\ Become(p, << <<"fileclose", rf>>, <<"fileclose", wf>> >> \o Exit)
          /\ UNCHANGED ofile
     ELSE \/ /\ ofile' = opened
             /\ Become(p, IF op(p)[4] = <<>> THEN Tail(code[p]) ELSE runcmd_pipe(op(p)[4][1], r, w))
          \/ /\ op(p)[4] = <<>>
             /\ ofile' = [opened EXCEPT ![p][r] = 0, ![p][w] = 0]
             /\ Become(p, << <<"fileclose", rf>>, <<"fileclose", wf>> >> \o Exit)
  /\ UNCHANGED <<heard, parent, pstate, ref, obj, pipes, files, job, forkfailed>>
-----------------------------------------------------------------------------
(* Processes.                                                              *)

Path(p, step) == [job[p] EXCEPT !.path = Append(@, step)]
Unused == {q \in Procs : pstate[q] = "unused"}
Children(p) == {q \in Procs : pstate[q] # "unused" /\ parent[q] = p}
Zombies(p) == {q \in Children(p) : pstate[q] = "zombie"}

\* fork1(): the child gets every open file.
fork(p) ==
  LET q == Min(Unused) IN
  /\ At(p, "fork") /\ Unused # {}
  /\ pstate' = [pstate EXCEPT ![q] = "run"]
  /\ parent' = [parent EXCEPT ![q] = p]
  /\ ofile' = [ofile EXCEPT ![q] = ofile[p]]
  /\ ref' = [f \in Files |-> ref[f] + Cardinality({fd \in Fds : ofile[p][fd] = f})]
  /\ code' = [code EXCEPT ![p] = Tail(@), ![q] = op(p)[2]]
  /\ job' = [job EXCEPT ![q] = IF job[p] = NoJob
                               THEN [line |-> Len(heard), path |-> <<>>]
                               ELSE Path(p, op(p)[3])]
  /\ UNCHANGED <<heard, obj, pipes, files, forkfailed>>

\* Without a slot, or without memory in allocproc() or uvmcopy(), which may be
\* at any time: freeproc() takes the slot back, and fork1() panics.
fork_fails(p) ==
  /\ At(p, "fork") /\ Become(p, Exit)
  /\ forkfailed' = TRUE
  /\ UNCHANGED <<heard, parent, pstate, job, filevars>>

freeproc(q) ==
  /\ pstate' = [pstate EXCEPT ![q] = "unused"]
  /\ parent' = [parent EXCEPT ![q] = init]

wait(p) ==
  /\ At(p, "wait")
  /\ \/ Zombies(p) # {} /\ freeproc(Min(Zombies(p)))
     \/ Children(p) = {} /\ UNCHANGED <<pstate, parent>>
  /\ job' = IF Len(op(p)) = 1 THEN job ELSE [job EXCEPT ![p] = Path(p, op(p)[2])]
  /\ Continue(p)
  /\ UNCHANGED <<heard, filevars, forkfailed>>

\* init's loop around wait(): a parentless process, or the shell.
init_wait ==
  /\ Zombies(init) # {}
  /\ freeproc(Min(Zombies(init)))
  /\ UNCHANGED <<heard, code, filevars, job, forkfailed>>

\* exit(): close what is open, then give the children to init and be a
\* zombie.  A pipe's end is closed in a step of its own, the files before
\* it together: those closes only decrement.
exit(p) ==
  /\ At(p, "exit")
  /\ LET opened == Fds \ NoFd(p)
         ispipe(fd) == obj[ofile[p][fd]][1] = "pipe"
         batch == {fd \in opened : \A e \in opened : e <= fd => ~ispipe(e)}
         n(f) == Cardinality({fd \in batch : ofile[p][fd] = f})
     IN
     \/ /\ batch # {}
        /\ ofile' = [ofile EXCEPT ![p] = [fd \in Fds |-> IF fd \in batch THEN 0 ELSE @[fd]]]
        /\ ref' = [f \in Files |-> ref[f] - n(f)]
        /\ obj' = [f \in Files |-> IF ref'[f] = 0 /\ n(f) > 0 THEN None ELSE obj[f]]
        /\ UNCHANGED <<code, parent, pstate, job>>
     \/ /\ batch = {} /\ opened # {}
        /\ ofile' = [ofile EXCEPT ![p][Min(opened)] = 0]
        /\ fileclose(p, ofile[p][Min(opened)], code[p])
        /\ UNCHANGED <<parent, pstate, job>>
     \/ /\ opened = {}
        /\ pstate' = [pstate EXCEPT ![p] = "zombie"]
        /\ parent' = [q \in Procs |-> IF q \in Children(p) THEN init ELSE parent[q]]
        /\ job' = [job EXCEPT ![p] = NoJob]
        /\ Become(p, <<>>)
        /\ UNCHANGED <<ofile, ref, obj>>
  /\ UNCHANGED <<heard, pipes, files, forkfailed>>
-----------------------------------------------------------------------------
(* sh.c.                                                                   *)

\* main(): open the console until descriptor 3, which is closed again.
console(p) ==
  /\ At(p, "console")
  /\ open(p, Console,
          [fd \in Fds |-> (IF fd >= 3 THEN << <<"close", fd>> >> ELSE <<op(p)>>) \o Tail(code[p])],
          Tail(code[p]))
  /\ UNCHANGED <<heard, parent, pstate, pipes, files, job, forkfailed>>

\* getcmd() and the body of main()'s loop; "cd" and the word after it (main()
\* compares the characters "cd ") are for chdir() in the shell itself.
getcmd(p) ==
  /\ At(p, "getcmd")
  /\ \/ /\ heard \in Scripts
        /\ Become(p, Exit)
        /\ UNCHANGED heard
     \/ \E l \in Follows[heard] :
          /\ heard' = Append(heard, l)
          /\ IF Len(l) > 1 /\ l[1] = "cd" THEN UNCHANGED code
             ELSE Before(p, << <<"fork", << <<"parse", l>> >>, "line">>, <<"wait">>, <<"getcmd">> >>)
  /\ UNCHANGED <<parent, pstate, job, forkfailed, filevars>>

parse(p) ==
  /\ At(p, "parse")
  /\ LET t == Parsed[op(p)[2]] IN Become(p, IF t.ok THEN runcmd(t.cmd) ELSE Exit)
  /\ UNCHANGED <<heard, parent, pstate, job, forkfailed, filevars>>

\* Three programs that are not in user/ exercise the system calls: hog runs out
\* of descriptors in the middle of pipe(), glut before open(), and stray may call
\* pipe() with an address outside its memory.
StandIn(argv) ==
  CASE argv[1] = "hog" -> << <<"dup", 0>>, <<"mkpipe", <<>> >> >>
    [] argv[1] = "glut" -> << <<"close", 3>>, <<"dup", 0>>, <<"dup", 0>>, <<"dup", 0>>, <<"open", "f", ">">> >>
    [] argv[1] = "stray" -> << <<"mkpipe", <<>> >> >>

\* echo ignores what write() returns, cat stops when it fails.
Program(argv) ==
  CASE argv[1] = "echo" -> [i \in 1 .. 2 * (Len(argv) - 1) |-> <<"write", "any">>]
    [] argv[1] = "cat" -> << <<"cat">> >>
    [] OTHER -> StandIn(argv)

Found(argv) == argv[1] \in {"echo", "cat", "hog", "glut", "stray"}
exec(p) ==
  /\ At(p, "exec")
  /\ IF Found(op(p)[2]) THEN Before(p, Program(op(p)[2])) ELSE Continue(p)
  /\ UNCHANGED <<heard, parent, pstate, job, forkfailed, filevars>>

\* read(0) of cat: end of file when a pipe is empty and has no writer, and
\* at once for a file or the console.
read(p) ==
  /\ At(p, "cat")
  /\ LET o == obj[ofile[p][0]] pi == o[2] IN
     IF o[1] # "pipe" THEN Continue(p) /\ UNCHANGED pipes
     ELSE \/ /\ pipes[pi].n > 0
             /\ pipes' = [pipes EXCEPT ![pi].n = @ - 1]
             /\ Become(p, << <<"write", "all">> >> \o code[p])
          \/ /\ pipes[pi].n = 0 /\ "write" \notin pipes[pi].open
             /\ Continue(p)
             /\ UNCHANGED pipes
  /\ UNCHANGED <<heard, parent, pstate, ofile, ref, obj, files, job, forkfailed>>

write(p) ==
  /\ At(p, "write")
  /\ LET o == obj[ofile[p][1]] pi == o[2] IN
     IF o[1] # "pipe" THEN Continue(p) /\ UNCHANGED pipes
     ELSE \/ /\ "read" \notin pipes[pi].open
             /\ IF op(p)[2] = "all" THEN Become(p, Exit) ELSE Continue(p)
             /\ UNCHANGED pipes
          \/ /\ "read" \in pipes[pi].open /\ pipes[pi].n < PIPESIZE
             /\ pipes' = [pipes EXCEPT ![pi].n = @ + 1]
             /\ Continue(p)
  /\ UNCHANGED <<heard, parent, pstate, ofile, ref, obj, files, job, forkfailed>>
-----------------------------------------------------------------------------
Init ==
  /\ heard = <<>>
  /\ code = [p \in Procs |-> IF p = 1 THEN << <<"console">>, <<"getcmd">> >> ELSE <<>>]
  /\ parent = [p \in Procs |-> init]
  /\ pstate = [p \in Procs |-> IF p = 1 THEN "run" ELSE "unused"]
  /\ ofile = [p \in {init} \union Procs |->
                [fd \in Fds |-> IF p \in {init, 1} /\ fd < 3 THEN 1 ELSE 0]]
  /\ ref = [f \in Files |-> IF f = 1 THEN 6 ELSE 0]
  /\ obj = [f \in Files |-> IF f = 1 THEN Console ELSE None]
  /\ pipes = [g \in Pages |-> Free]
  /\ files = {}
  /\ job = [p \in Procs |-> NoJob]
  /\ forkfailed = FALSE

Step(p) ==
  \/ sys_close(p) \/ undo(p) \/ pipeclose(p) \/ sys_dup(p) \/ sys_open(p)
  \/ pipealloc_first(p) \/ pipealloc_second(p) \/ sys_pipe(p)
  \/ fork(p) \/ fork_fails(p) \/ wait(p) \/ exit(p)
  \/ console(p) \/ getcmd(p) \/ parse(p) \/ exec(p) \/ read(p) \/ write(p)

Next == init_wait \/ \E p \in Procs : Step(p)

Spec == Init /\ [][Next]_vars /\ WF_vars(Next)
-----------------------------------------------------------------------------
\* parsecmd() (sh.c:328-447) finds the tree of every line that the shell's
\* language has, and reports a syntax error for every other line.
ParseCorrect ==
  \A p \in Procs : At(p, "parse") =>
    LET t == Parsed[op(p)[2]] l == Line(op(p)[2])
    IN t.ok = l.ok /\ (t.ok => t.cmd = l.cmd)

\* f->ref (file.c:29-84) counts the descriptors and the system calls under way
\* that hold f, whatever forks, dups, failed pipes and exits went on; an end
\* of a pipe is open as long as a file for it is, or is just being closed.
Held(f) ==
  {<<p, fd>> \in (DOMAIN ofile) \X Fds : ofile[p][fd] = f}
Pending(f) ==
  {p \in Procs : \E i \in DOMAIN code[p] :
     LET o == code[p][i] IN
     \/ o[1] \in {"fileclose", "mkpipe2"} /\ o[2] = f
     \/ o[1] = "pipefds" /\ f \in {o[2], o[3]}}
FilesExact ==
  /\ \A f \in Files : /\ ref[f] = Cardinality(Held(f)) + Cardinality(Pending(f))
                      /\ obj[f] # None => ref[f] > 0
  /\ \A g \in Pages : \A e \in {"read", "write"} :
       (e \in pipes[g].open) <=>
         \/ \E f \in Files : obj[f][1] = "pipe" /\ obj[f] = <<"pipe", g, e>>
         \/ \E p \in Procs : At(p, "pipe") /\ op(p)[2] = g /\ op(p)[3] = e

\* What descriptors 0, 1 and 2 of the program at path in cmd should be.
RECURSIVE Wired(_, _, _, _)
Wired(cmd, path, here, fds) ==
  LET down(c, new) == Wired(c, Tail(path), [here EXCEPT !.path = Append(@, Head(path))], new) IN
  CASE cmd.type = "EXEC" -> fds
    [] cmd.type = "REDIR" ->
         Wired(cmd.cmd, path, here, [fds EXCEPT ![cmd.fd + 1] = <<"inode", cmd.file, cmd.sym>>])
    [] cmd.type = "LIST" -> down(IF Head(path) = "first" THEN cmd.left ELSE cmd.right, fds)
    [] cmd.type = "PIPE" -> IF Head(path) = "writer"
                            THEN down(cmd.left, [fds EXCEPT ![2] = <<"pipe", here, "write">>])
                            ELSE down(cmd.right, [fds EXCEPT ![1] = <<"pipe", here, "read">>])
    [] cmd.type = "BACK" -> down(cmd.cmd, fds)

Sees(p, fd) ==
  LET o == obj[ofile[p][fd]]
  IN IF o[1] = "pipe" THEN <<"pipe", pipes[o[2]].at, o[3]>> ELSE o

\* j must be over before i starts: an earlier line, or the left of a list
\* of which i is on the right, and not in the background.
Precedes(j, i) ==
  IF j.line # i.line THEN j.line < i.line /\ ~Contains(j.path, "back")
  ELSE \E n \in DOMAIN i.path :
         /\ n <= Len(j.path)
         /\ SubSeq(i.path, 1, n - 1) = SubSeq(j.path, 1, n - 1)
         /\ i.path[n] = "second" /\ j.path[n] = "first"
         /\ ~Contains(SubSeq(j.path, n, Len(j.path)), "back")

\* When runcmd() (sh.c:58-131) starts a program, its input, output and errors are what the line
\* says, it has no other descriptor (a pipe end left open would keep a
\* reader waiting for ever), and what was to end before it has ended.
RunsAsWritten ==
  \A p \in Procs : (At(p, "exec") /\ Found(op(p)[2])) =>
    LET line == job[p].line IN
    /\ Fds \ NoFd(p) = 0 .. 2
    /\ <<Sees(p, 0), Sees(p, 1), Sees(p, 2)>> =
         Wired(Parsed[heard[line]].cmd, job[p].path, [line |-> line, path |-> <<>>],
               <<Console, Console, Console>>)
    /\ forkfailed \/ \A q \in Procs : pstate[q] # "unused" => ~Precedes(job[q], job[p])

\* Every line ends: no pipeline waits for ever in read(), write() or the two
\* wait()s of sh.c:121-122, and in the end nothing is left but init, its
\* console and an empty file table.
Quiet ==
  /\ \A p \in Procs : pstate[p] = "unused"
  /\ \A f \in Files : ref[f] = IF f = 1 THEN 3 ELSE 0
  /\ \A g \in Pages : pipes[g] = Free
LineDone == <>[]Quiet
=============================================================================
