------------------------------- MODULE Names --------------------------------
(***************************************************************************)
(* Inodes, directories and path names: the inode table of kernel/fs.c and  *)
(* the system calls of kernel/sysfile.c that work on names.  A stretch of  *)
(* code under one inode's sleep lock is a single step when it waits for no *)
(* other inode; iput() is its own steps, because it takes itable.lock and  *)
(* may come to free the inode.  Every call is one transaction, so a power  *)
(* failure takes the disk back to a state in which no call was running     *)
(* (module Log).  The table has one entry per inode number in use.         *)
(*                                                                         *)
(* A path is a sequence of elements, "/" first if it is absolute.  File    *)
(* contents are in FileData; "." leads nowhere else, and is left out.      *)
(***************************************************************************)
EXTENDS Naturals, Sequences, FiniteSets

CONSTANTS Procs,
          Inums,    \* inode numbers, 1 the root
          Elems,    \* names of directory entries
          Calls,    \* system calls that programs make: [op, path, new]
          NINODE,   \* numbers of entries that the inode table may have
          MaxLinks, \* link() is called while no file has this many links
          NoProc

ROOTINO == 1

ASSUME NamesAssumption ==
  /\ ROOTINO \in Inums /\ Inums \subseteq Nat \ {0} /\ IsFiniteSet(Inums)
  /\ NINODE \subseteq Nat /\ MaxLinks \in Nat /\ ".." \notin Elems

VARIABLES
  dinode,   \* struct dinode as the buffer cache shows it: type and nlink
  dirent,   \* contents of a directory: the inode number of each name, or 0
  inode,    \* struct inode: valid, type and nlink
  ref,      \* ip->ref
  ninode,   \* entries of the table; it stays as it is
  lock,     \* ip->lock: its holder, or NoProc
  cwd,      \* p->cwd
  file,     \* the inode of the process's open file, or 0
  th,       \* the call in progress of each process
  panicked, \* the function whose panic() has stopped the kernel, or "no"
  lost      \* history: a name was entered in a removed directory, or ialloc()
            \* took an inode whose last iput() had still to count itself out

disk == <<dinode, dirent>>
table == <<inode, ref, lock>>
vars == <<dinode, dirent, inode, ref, ninode, lock, cwd, file, th, panicked, lost>>

Free == [type |-> "none", nlink |-> 0]
NoEntries == [e \in Elems \cup {".."} |-> 0]
\* th[p]: where the call stands (pc) and what it is (op, new), its place in the
\* path, the inodes it holds, and the inodes it is about to iput().
Idle == [pc |-> "user", op |-> "", path |-> <<>>, new |-> <<>>, name |-> "",
         ip |-> 0, dp |-> 0, old |-> 0, puts |-> <<>>, freeing |-> 0]

\* mkfs writes the root directory; every process starts there.
Init ==
  /\ dinode = [i \in Inums |-> IF i = ROOTINO THEN [type |-> "dir", nlink |-> 1] ELSE Free]
  /\ dirent = [i \in Inums |-> IF i = ROOTINO THEN [NoEntries EXCEPT ![".."] = ROOTINO]
                                              ELSE NoEntries]
  /\ inode = [i \in Inums |-> [valid |-> 0, type |-> "none", nlink |-> 0]]
  /\ ref = [i \in Inums |-> IF i = ROOTINO THEN Cardinality(Procs) ELSE 0]
  /\ ninode \in NINODE /\ lock = [i \in Inums |-> NoProc]
  /\ cwd = [p \in Procs |-> ROOTINO] /\ file = [p \in Procs |-> 0]
  /\ th = [p \in Procs |-> Idle] /\ panicked = "no" /\ lost = 0
-----------------------------------------------------------------------------
(* The inode table                                                         *)

\* iget() panics when it needs an entry and there is none.
igetPanics(i) == ref[i] = 0 /\ Cardinality({j \in Inums : ref[j] > 0}) >= ninode

\* iget() and idup(): the table's reference counts afterwards.  A recycled
\* entry is not valid.
iget(i) == ref' = [ref EXCEPT ![i] = @ + 1]
Recycled(i) == IF ref[i] = 0 THEN [inode EXCEPT ![i].valid = 0] ELSE inode

\* The in-memory inode after ilock(), which reads it from disk if necessary.
Loaded(i) == IF inode[i].valid = 1 THEN inode[i]
             ELSE [valid |-> 1, type |-> dinode[i].type, nlink |-> dinode[i].nlink]
\* panic("ilock: no type")
ilockPanics(i) == Loaded(i).type = "none"

\* p may run the next step of its call: nothing waits to be put first.
At(p, l) == panicked = "no" /\ th[p].pc = l /\ th[p].puts = <<>>

\* iput(), under itable.lock: drop the reference, or lock the inode to free it.
\* acquiresleep() would wait here for a lock that somebody holds.  Mutants of
\* LastUse: nlink, or ref, is not looked at.
LastUse_links_ignored(i) == ref[i] = 1 /\ inode[i].valid = 1
LastUse_refs_ignored(i) == inode[i].valid = 1 /\ inode[i].nlink = 0
LastUse(i) == ref[i] = 1 /\ inode[i].valid = 1 /\ inode[i].nlink = 0
iput(p) ==
  LET i == Head(th[p].puts) IN
  /\ panicked = "no" /\ th[p].puts # <<>> /\ th[p].freeing = 0
  /\ IF LastUse(i)
     THEN /\ lock[i] = NoProc /\ lock' = [lock EXCEPT ![i] = p]
          /\ th' = [th EXCEPT ![p].freeing = 1] /\ UNCHANGED ref
     ELSE /\ ref' = [ref EXCEPT ![i] = @ - 1]
          /\ th' = [th EXCEPT ![p].puts = Tail(@)] /\ UNCHANGED lock
  /\ UNCHANGED <<disk, inode, cwd, file, panicked, lost>>

\* itrunc(), type = 0, iupdate(), valid = 0, releasesleep()
iput_free(p) ==
  LET i == Head(th[p].puts) IN
  /\ panicked = "no" /\ th[p].puts # <<>> /\ th[p].freeing = 1
  /\ dirent' = [dirent EXCEPT ![i] = NoEntries]
  /\ dinode' = [dinode EXCEPT ![i] = [type |-> "none", nlink |-> inode[i].nlink]]
  /\ inode' = [inode EXCEPT ![i].valid = 0, ![i].type = "none"]
  /\ lock' = [lock EXCEPT ![i] = NoProc]
  /\ th' = [th EXCEPT ![p].freeing = 2]
  /\ UNCHANGED <<ref, cwd, file, panicked, lost>>

\* ... and, under itable.lock again, ref--
iput_dec(p) ==
  LET i == Head(th[p].puts) IN
  /\ panicked = "no" /\ th[p].puts # <<>> /\ th[p].freeing = 2
  /\ ref' = [ref EXCEPT ![i] = @ - 1]
  /\ th' = [th EXCEPT ![p].puts = Tail(@), ![p].freeing = 0]
  /\ UNCHANGED <<disk, inode, lock, cwd, file, panicked, lost>>
-----------------------------------------------------------------------------
(* Path lookup                                                             *)

\* iupdate(): inode i becomes n in memory and on disk.
Mem(f, i, n) == [f EXCEPT ![i] = n]
Disk(f, i, n) == [f EXCEPT ![i] = [type |-> n.type, nlink |-> n.nlink]]

Start(p, path) == IF Head(path) = "/" THEN ROOTINO ELSE cwd[p]
Elements(path) == IF Head(path) = "/" THEN Tail(path) ELSE path

\* begin_op() and the start of namex()
call(p, c) ==
  /\ At(p, "user") /\ (c.op \in {"open", "create"} => file[p] = 0)
  /\ c.op = "link" => \A i \in Inums : dinode[i].type = "file" => dinode[i].nlink < MaxLinks
  /\ th' = [th EXCEPT ![p] = [Idle EXCEPT !.pc = "walk", !.op = c.op, !.new = c.new,
                                 !.path = Elements(c.path), !.ip = Start(p, c.path)]]
  /\ iget(Start(p, c.path)) /\ inode' = Recycled(Start(p, c.path))
  /\ panicked' = IF igetPanics(Start(p, c.path)) THEN "iget" ELSE "no"
  /\ UNCHANGED <<disk, lock, cwd, file, lost>>

\* nameiparent() rather than namei()
Parent(t) == t.op \in {"unlink", "create", "mkdir"} \/ t.old # 0
AfterWalk(t) == IF t.op = "mkdir" THEN "create" ELSE IF t.old # 0 THEN "link_to" ELSE t.op

\* The call fails: it only has to put the inodes in puts, and link() to undo.
Fails(t, puts) ==
  IF t.old # 0 THEN [Idle EXCEPT !.pc = "link_bad", !.op = t.op, !.old = t.old, !.puts = puts]
               ELSE [Idle EXCEPT !.puts = puts]

\* One element: ilock(ip), look at it, iunlock(ip).
Walking(p) == At(p, "walk") /\ lock[th[p].ip] = NoProc
Next1(p) == dirent[th[p].ip][Head(th[p].path)]

walk_down(p) ==
  LET t == th[p] IN
  /\ Walking(p) /\ Loaded(t.ip).type = "dir" /\ Next1(p) # 0
  /\ ~(Parent(t) /\ Len(t.path) = 1)
  /\ iget(Next1(p)) /\ inode' = [Recycled(Next1(p)) EXCEPT ![t.ip] = Loaded(t.ip)]
  /\ panicked' = IF igetPanics(Next1(p)) THEN "iget" ELSE "no"
  /\ th' = [th EXCEPT ![p].ip = Next1(p), ![p].path = Tail(@), ![p].puts = <<t.ip>>,
                      ![p].pc = IF Len(t.path) = 1 THEN AfterWalk(t) ELSE "walk"]
  /\ UNCHANGED <<disk, lock, cwd, file, lost>>

\* Stop one level early.
walk_parent(p) ==
  LET t == th[p] IN
  /\ Walking(p) /\ Loaded(t.ip).type = "dir" /\ Parent(t) /\ Len(t.path) = 1
  /\ inode' = Mem(inode, t.ip, Loaded(t.ip))
  /\ th' = [th EXCEPT ![p].ip = 0, ![p].dp = t.ip, ![p].name = Head(t.path),
                      ![p].path = <<>>, ![p].pc = AfterWalk(t)]
  /\ UNCHANGED <<disk, ref, lock, cwd, file, panicked, lost>>

\* Not a directory, or no such name; an inode that is free on disk panics.
walk_fails(p) ==
  LET t == th[p] IN
  /\ Walking(p)
  /\ Loaded(t.ip).type # "dir" \/ (Next1(p) = 0 /\ ~(Parent(t) /\ Len(t.path) = 1))
  /\ inode' = Mem(inode, t.ip, Loaded(t.ip))
  /\ panicked' = IF ilockPanics(t.ip) THEN "ilock" ELSE "no"
  /\ th' = [th EXCEPT ![p] = Fails(t, <<t.ip>>)]
  /\ UNCHANGED <<disk, ref, lock, cwd, file, lost>>
-----------------------------------------------------------------------------
(* open() without O_CREATE, close(), chdir()                               *)

\* The rest of sys_open(): there is a free struct file, or there is not.
Opened(p, i) == file' = [file EXCEPT ![p] = i] /\ th' = [th EXCEPT ![p] = Idle]
NotOpened(p, i) == th' = [th EXCEPT ![p] = [Idle EXCEPT !.puts = <<i>>]] /\ UNCHANGED file

open(p) ==
  LET i == th[p].ip IN
  /\ At(p, "open") /\ lock[i] = NoProc
  /\ inode' = Mem(inode, i, Loaded(i)) /\ panicked' = IF ilockPanics(i) THEN "ilock" ELSE "no"
  /\ Opened(p, i) \/ NotOpened(p, i)
  /\ UNCHANGED <<disk, ref, lock, cwd, lost>>

\* fileclose() of the last reference
close(p) ==
  /\ At(p, "user") /\ file[p] # 0
  /\ file' = [file EXCEPT ![p] = 0]
  /\ th' = [th EXCEPT ![p].puts = <<file[p]>>]
  /\ UNCHANGED <<disk, table, cwd, panicked, lost>>

chdir(p) ==
  LET i == th[p].ip
      ok == Loaded(i).type = "dir"
  IN
  /\ At(p, "chdir") /\ lock[i] = NoProc
  /\ inode' = Mem(inode, i, Loaded(i)) /\ panicked' = IF ilockPanics(i) THEN "ilock" ELSE "no"
  /\ cwd' = IF ok THEN [cwd EXCEPT ![p] = i] ELSE cwd
  /\ th' = [th EXCEPT ![p] = [Idle EXCEPT !.puts = IF ok THEN <<cwd[p]>> ELSE <<i>>]]
  /\ UNCHANGED <<disk, ref, lock, file, lost>>
-----------------------------------------------------------------------------
(* unlink()                                                                *)

\* ilock(dp) and dirlookup(); dp stays locked if there is such a name.
unlink(p) ==
  LET t == th[p]
      i == dirent[t.dp][t.name]
      ok == t.name # ".." /\ i # 0
  IN
  /\ At(p, "unlink") /\ lock[t.dp] = NoProc
  /\ IF ok
     THEN /\ iget(i) /\ inode' = Recycled(i) /\ panicked' = IF igetPanics(i) THEN "iget" ELSE "no"
          /\ lock' = [lock EXCEPT ![t.dp] = p]
          /\ th' = [th EXCEPT ![p].ip = i, ![p].pc = "unlink_ip"]
     ELSE /\ th' = [th EXCEPT ![p] = Fails(t, <<t.dp>>)]
          /\ UNCHANGED <<table, panicked>>
  /\ UNCHANGED <<disk, cwd, file, lost>>

isdirempty(i) == \A e \in Elems : dirent[i][e] = 0

\* ilock(ip) while dp is locked: remove the entry, unlock and put dp.
unlink_entry(p) ==
  LET t == th[p]
      in == Loaded(t.ip)
      d == IF in.type = "dir" THEN [inode[t.dp] EXCEPT !.nlink = @ - 1] ELSE inode[t.dp]
  IN
  /\ At(p, "unlink_ip") /\ lock[t.ip] = NoProc /\ ~(in.type = "dir" /\ ~isdirempty(t.ip))
  /\ panicked' = IF in.type = "none" \/ in.nlink < 1 THEN "unlink" ELSE "no"
  /\ dirent' = [dirent EXCEPT ![t.dp][t.name] = 0]
  /\ inode' = Mem(Mem(inode, t.ip, in), t.dp, d) /\ dinode' = Disk(dinode, t.dp, d)
  /\ lock' = [lock EXCEPT ![t.dp] = NoProc, ![t.ip] = p]
  /\ th' = [th EXCEPT ![p].dp = 0, ![p].puts = <<t.dp>>, ![p].pc = "unlink_drop"]
  /\ UNCHANGED <<ref, cwd, file, lost>>

\* A directory with names in it stays: put ip, then unlock and put dp.
unlink_notempty(p) ==
  LET t == th[p] IN
  /\ At(p, "unlink_ip") /\ lock[t.ip] = NoProc
  /\ Loaded(t.ip).type = "dir" /\ ~isdirempty(t.ip)
  /\ panicked' = IF Loaded(t.ip).nlink < 1 THEN "unlink" ELSE "no"
  /\ inode' = Mem(inode, t.ip, Loaded(t.ip))
  /\ th' = [th EXCEPT ![p].ip = 0, ![p].puts = <<t.ip>>, ![p].pc = "bad"]
  /\ UNCHANGED <<disk, ref, lock, cwd, file, lost>>

\* iunlockput(dp) on the way out of unlink() and create()
bad(p) ==
  /\ At(p, "bad")
  /\ lock' = [lock EXCEPT ![th[p].dp] = NoProc]
  /\ th' = [th EXCEPT ![p] = [Idle EXCEPT !.puts = <<th[p].dp>>]]
  /\ UNCHANGED <<disk, inode, ref, cwd, file, panicked, lost>>

\* ip->nlink--, iupdate(ip), iunlockput(ip)
unlink_drop(p) ==
  LET i == th[p].ip
      in == [inode[i] EXCEPT !.nlink = @ - 1]
  IN
  /\ At(p, "unlink_drop")
  /\ inode' = Mem(inode, i, in) /\ dinode' = Disk(dinode, i, in)
  /\ lock' = [lock EXCEPT ![i] = NoProc]
  /\ th' = [th EXCEPT ![p] = [Idle EXCEPT !.puts = <<i>>]]
  /\ UNCHANGED <<dirent, ref, cwd, file, panicked, lost>>
-----------------------------------------------------------------------------
(* create(): open(O_CREATE) and mkdir()                                    *)

\* dirlink(): the directories (f) with name e for inode i in directory d
dirlink(f, d, e, i) == [f EXCEPT ![d][e] = i]

\* ilock(dp); the name is there: unlock and put dp, ...
create_found(p) ==
  LET t == th[p]
      i == dirent[t.dp][t.name]
  IN
  /\ At(p, "create") /\ lock[t.dp] = NoProc /\ i # 0
  /\ iget(i) /\ inode' = Recycled(i) /\ panicked' = IF igetPanics(i) THEN "iget" ELSE "no"
  /\ th' = [th EXCEPT ![p].ip = i, ![p].dp = 0, ![p].puts = <<t.dp>>, ![p].pc = "create_old"]
  /\ UNCHANGED <<disk, lock, cwd, file, lost>>

\* ... ilock(ip), and return it if open(O_CREATE) may have it.
create_old(p) ==
  LET i == th[p].ip IN
  /\ At(p, "create_old") /\ lock[i] = NoProc
  /\ inode' = Mem(inode, i, Loaded(i)) /\ panicked' = IF ilockPanics(i) THEN "ilock" ELSE "no"
  /\ \/ th[p].op = "create" /\ Loaded(i).type = "file" /\ Opened(p, i)
     \/ NotOpened(p, i)
  /\ UNCHANGED <<disk, ref, lock, cwd, lost>>

\* ilock(dp), ialloc(): the first inode that is free on disk.
FreeInodes == {i \in Inums : dinode[i].type = "none"}
First(S) == CHOOSE i \in S : \A j \in S : i <= j
Type(t) == IF t.op = "mkdir" THEN "dir" ELSE "file"

create_alloc(p) ==
  LET t == th[p]
      i == First(FreeInodes)
  IN
  /\ At(p, "create") /\ lock[t.dp] = NoProc /\ dirent[t.dp][t.name] = 0 /\ FreeInodes # {}
  /\ dinode' = [dinode EXCEPT ![i] = [type |-> Type(t), nlink |-> 0]]
  /\ iget(i) /\ inode' = Recycled(i) /\ panicked' = IF igetPanics(i) THEN "iget" ELSE "no"
  /\ lock' = [lock EXCEPT ![t.dp] = p]
  /\ th' = [th EXCEPT ![p].ip = i, ![p].pc = "create_new"]
  /\ lost' = IF ref[i] > 0 THEN 1 ELSE lost
  /\ UNCHANGED <<dirent, cwd, file>>

create_noinode(p) ==
  LET t == th[p] IN
  /\ At(p, "create") /\ lock[t.dp] = NoProc /\ dirent[t.dp][t.name] = 0 /\ FreeInodes = {}
  /\ th' = [th EXCEPT ![p] = Fails(t, <<t.dp>>)]
  /\ UNCHANGED <<disk, table, cwd, file, panicked, lost>>

\* ilock(ip) while dp is locked: fill the inode in and enter it in dp.
create_new(p) ==
  LET t == th[p]
      in == [Loaded(t.ip) EXCEPT !.nlink = 1]
      d == IF Type(t) = "dir" THEN [inode[t.dp] EXCEPT !.nlink = @ + 1] ELSE inode[t.dp]
  IN
  /\ At(p, "create_new") /\ lock[t.ip] = NoProc
  /\ panicked' = IF ilockPanics(t.ip) THEN "ilock" ELSE "no"
  /\ inode' = Mem(Mem(inode, t.ip, in), t.dp, d)
  /\ dinode' = Disk(Disk(dinode, t.ip, in), t.dp, d)
  /\ dirent' = dirlink(IF Type(t) = "dir" THEN dirlink(dirent, t.ip, "..", t.dp) ELSE dirent,
                       t.dp, t.name, t.ip)
  /\ lock' = [lock EXCEPT ![t.dp] = NoProc, ![t.ip] = p]
  /\ th' = [th EXCEPT ![p].dp = 0, ![p].puts = <<t.dp>>, ![p].pc = "create_done"]
  /\ lost' = IF inode[t.dp].nlink = 0 THEN 1 ELSE lost
  /\ UNCHANGED <<ref, cwd, file>>

\* Mutant of create_fail: the link count stays.
create_fail_nlink_kept(p) ==
  LET t == th[p]
      in == [Loaded(t.ip) EXCEPT !.nlink = 1]
  IN
  /\ At(p, "create_new") /\ lock[t.ip] = NoProc
  /\ panicked' = IF ilockPanics(t.ip) THEN "ilock" ELSE "no"
  /\ inode' = Mem(inode, t.ip, in) /\ dinode' = Disk(dinode, t.ip, in)
  /\ th' = [th EXCEPT ![p].ip = 0, ![p].puts = <<t.ip>>, ![p].pc = "bad"]
  /\ UNCHANGED <<dirent, ref, lock, cwd, file, lost>>
\* dirlink() finds no disk block: nlink = 0, iunlockput(ip), iunlockput(dp).
create_fail(p) ==
  LET t == th[p]
      in == [Loaded(t.ip) EXCEPT !.nlink = 0]
  IN
  /\ At(p, "create_new") /\ lock[t.ip] = NoProc
  /\ panicked' = IF ilockPanics(t.ip) THEN "ilock" ELSE "no"
  /\ inode' = Mem(inode, t.ip, in) /\ dinode' = Disk(dinode, t.ip, in)
  /\ th' = [th EXCEPT ![p].ip = 0, ![p].puts = <<t.ip>>, ![p].pc = "bad"]
  /\ UNCHANGED <<dirent, ref, lock, cwd, file, lost>>

\* The caller opens the new file, or unlocks and puts what it made: a directory,
\* a device of mknod(), or a file for which there is no struct file.
create_done(p) ==
  LET i == th[p].ip IN
  /\ At(p, "create_done") /\ lock' = [lock EXCEPT ![i] = NoProc]
  /\ \/ th[p].op = "create" /\ Opened(p, i)
     \/ NotOpened(p, i)
  /\ UNCHANGED <<disk, inode, ref, cwd, panicked, lost>>
-----------------------------------------------------------------------------
(* link()                                                                  *)

\* ip->nlink++, iupdate(ip), and on to nameiparent(new)
link(p) ==
  LET t == th[p]
      in == [Loaded(t.ip) EXCEPT !.nlink = @ + 1]
  IN
  /\ At(p, "link") /\ lock[t.ip] = NoProc
  /\ Loaded(t.ip).type = "file"
  /\ inode' = Mem(Recycled(Start(p, t.new)), t.ip, in) /\ dinode' = Disk(dinode, t.ip, in)
  /\ iget(Start(p, t.new)) /\ panicked' = IF igetPanics(Start(p, t.new)) THEN "iget" ELSE "no"
  /\ th' = [th EXCEPT ![p] = [Idle EXCEPT !.pc = "walk", !.op = "link", !.old = t.ip,
                                 !.path = Elements(t.new), !.ip = Start(p, t.new)]]
  /\ UNCHANGED <<dirent, lock, cwd, file, lost>>

link_dir(p) ==
  LET t == th[p] IN
  /\ At(p, "link") /\ lock[t.ip] = NoProc /\ Loaded(t.ip).type # "file"
  /\ inode' = Mem(inode, t.ip, Loaded(t.ip))
  /\ panicked' = IF ilockPanics(t.ip) THEN "ilock" ELSE "no"
  /\ th' = [th EXCEPT ![p] = Fails(t, <<t.ip>>)]
  /\ UNCHANGED <<disk, ref, lock, cwd, file, lost>>

\* Mutant of link_to: the reference to the file is not put.
link_to_no_iput(p) ==
  LET t == th[p] IN
  /\ At(p, "link_to") /\ lock[t.dp] = NoProc /\ dirent[t.dp][t.name] = 0
  /\ dirent' = dirlink(dirent, t.dp, t.name, t.old)
  /\ th' = [th EXCEPT ![p] = [Idle EXCEPT !.puts = <<t.dp>>]]
  /\ lost' = IF inode[t.dp].nlink = 0 THEN 1 ELSE lost
  /\ UNCHANGED <<dinode, table, cwd, file, panicked>>
\* ilock(dp), dirlink(), iunlockput(dp), iput(ip)
link_to(p) ==
  LET t == th[p] IN
  /\ At(p, "link_to") /\ lock[t.dp] = NoProc /\ dirent[t.dp][t.name] = 0
  /\ dirent' = dirlink(dirent, t.dp, t.name, t.old)
  /\ th' = [th EXCEPT ![p] = [Idle EXCEPT !.puts = <<t.dp, t.old>>]]
  /\ lost' = IF inode[t.dp].nlink = 0 THEN 1 ELSE lost
  /\ UNCHANGED <<dinode, table, cwd, file, panicked>>

\* The name exists (the reference that dirlookup() takes is put at once), or
\* dirlink() finds no disk block.
link_fails(p) ==
  LET t == th[p]
      i == dirent[t.dp][t.name]
  IN
  /\ At(p, "link_to") /\ lock[t.dp] = NoProc
  /\ panicked' = IF i # 0 /\ igetPanics(i) THEN "iget" ELSE "no"
  /\ th' = [th EXCEPT ![p] = Fails(t, <<t.dp>>)]
  /\ UNCHANGED <<disk, table, cwd, file, lost>>

\* bad: ip->nlink--, iupdate(ip), iunlockput(ip)
link_bad(p) ==
  LET i == th[p].old
      in == [Loaded(i) EXCEPT !.nlink = @ - 1]
  IN
  /\ At(p, "link_bad") /\ lock[i] = NoProc
  /\ inode' = Mem(inode, i, in) /\ dinode' = Disk(dinode, i, in)
  /\ th' = [th EXCEPT ![p] = [Idle EXCEPT !.puts = <<i>>]]
  /\ UNCHANGED <<dirent, ref, lock, cwd, file, panicked, lost>>

Step(p) ==
  \/ iput(p) \/ iput_free(p) \/ iput_dec(p)
  \/ walk_down(p) \/ walk_parent(p) \/ walk_fails(p)
  \/ open(p) \/ chdir(p)
  \/ unlink(p) \/ unlink_entry(p) \/ unlink_notempty(p) \/ unlink_drop(p) \/ bad(p)
  \/ create_found(p) \/ create_old(p) \/ create_alloc(p) \/ create_noinode(p)
  \/ create_new(p) \/ create_fail(p) \/ create_done(p)
  \/ link(p) \/ link_dir(p) \/ link_to(p) \/ link_fails(p) \/ link_bad(p)

\* panic() never returns.
panic == panicked # "no" /\ UNCHANGED vars

Next ==
  \/ panic
  \/ /\ \E p \in Procs : Step(p) \/ close(p) \/ \E c \in Calls : call(p, c)
     /\ UNCHANGED ninode

Spec == Init /\ [][Next]_vars
-----------------------------------------------------------------------------
(* Properties                                                              *)

\* Every variable keeps to its values.
TypeOK ==
  /\ \A i \in Inums : /\ dinode[i].type \in {"none", "dir", "file"} /\ dinode[i].nlink \in Nat
                      /\ inode[i].type \in {"none", "dir", "file"} /\ inode[i].nlink \in Nat
                      /\ inode[i].valid \in {0, 1}
  /\ dirent \in [Inums -> [Elems \cup {".."} -> Inums \cup {0}]]
  /\ ref \in [Inums -> Nat] /\ ninode \in NINODE /\ lock \in [Inums -> Procs \cup {NoProc}]
  /\ cwd \in [Procs -> Inums] /\ file \in [Procs -> Inums \cup {0}]
  /\ panicked \in {"no", "iget", "ilock", "unlink"} /\ lost \in {0, 1}

\* ip->ref counts the pointers to the entry (fs.c:130-135): current directories,
\* open files and what calls in progress hold.  iput() frees an inode when the
\* count says that its own pointer is the last.
Pointers(p) == <<cwd[p], file[p], th[p].ip, th[p].dp, th[p].old>> \o th[p].puts
RefsExact ==
  /\ TypeOK
  /\ \A i \in Inums : ref[i] = Cardinality(UNION {{<<p, k>> : k \in
                           {k \in DOMAIN Pointers(p) : Pointers(p)[k] = i}} : p \in Procs})

\* The names that nlink has to count: entries for i, and the ".." of the
\* directories entered in i; the root keeps one of its own.
NLinks(i) ==
  Cardinality({x \in Inums \X Elems : dirent[x[1]][x[2]] = i})
    + Cardinality({e \in Elems : dirent[i][e] # 0 /\ dinode[dirent[i][e]].type = "dir"})
    + (IF i = ROOTINO THEN 1 ELSE 0)

\* No interleaving of create(), link(), unlink() and iput() frees an inode that
\* a directory still names, or makes ilock() meet a free inode (fs.c:313) or
\* unlink() a link count below 1 (sysfile.c:213); iget() may find the table full.
LinksCovered ==
  /\ panicked \in {"no", "iget"}
  /\ \A i \in Inums : /\ dinode[i].nlink >= NLinks(i)
                      /\ NLinks(i) > 0 => dinode[i].type # "none"

\* When no call is in progress the link counts are exact, and an inode is
\* allocated on disk only if it has a name or somebody holds it: what create(),
\* link() and unlink() undo on their error paths leaves nothing behind.  The
\* exceptions are the two that lost records: a name entered in a directory that
\* was removed meanwhile, and an inode that ialloc() took between the two
\* halves of the iput() that freed it (fs.c:352-357).
NoLeak ==
  (\A p \in Procs : th[p] = Idle) /\ lost = 0 =>
    \A i \in Inums :
      /\ dinode[i].nlink = NLinks(i)
      /\ dinode[i].type # "none" <=> (NLinks(i) > 0 \/ ref[i] > 0)

\* "ip->ref == 1 means no other process can have ip locked, so this
\* acquiresleep() won't block (or deadlock)" (fs.c:345-346).
IputWontBlock ==
  \A p \in Procs :
    th[p].puts # <<>> /\ th[p].freeing = 0 /\ LastUse(Head(th[p].puts)) =>
      lock[Head(th[p].puts)] = NoProc
=============================================================================
