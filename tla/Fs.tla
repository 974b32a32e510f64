-------------------------------- MODULE Fs --------------------------------
(***************************************************************************)
(* Inodes, directories and path names (fs.c), the file table (file.c) and  *)
(* the system calls on them (sysfile.c, fork and exit in proc.c), as run   *)
(* by several processes at once.  A step is a critical section: what a     *)
(* call does under one lock, up to the next lock it may wait for.          *)
(*                                                                         *)
(* An in-memory inode is named by its inode number: iget keeps at most one *)
(* entry of the table per number.  Directories are functions from names to *)
(* inode numbers, 0 for a name that is not there; the contents of files,   *)
(* and the blocks behind them, are left out.  All calls run inside         *)
(* transactions, which the log makes atomic.                               *)
(***************************************************************************)
EXTENDS Integers, Sequences, FiniteSets

CONSTANTS NPROC, NINODE,   \* entries in the table of in-memory inodes
          NINODES,         \* inodes on the disk
          NFILE, NOFILE,   \* open files: of the system, of a process
          Name,            \* names a directory may have, "." and ".." aside
          Calls            \* system calls with their arguments

Proc == 1..NPROC
Inum == 1..NINODES
ROOTINO == 1
Fd == 0..(NOFILE - 1)
File == 1..NFILE
Dots == {".", ".."}

ASSUME FsAssumption == {NPROC, NINODE, NINODES, NFILE, NOFILE} \subseteq Nat \ {0}

VARIABLES dinode,    \* the inodes on disk
          dir,       \* the entries of the directories
          inode,     \* the in-memory inodes; ref is 0 for one not in the table
          file,      \* the file table: ref and ip (0 while FD_NONE)
          ofile,     \* the descriptors of each process, 0 for a free one
          cwd,       \* the current directory, 0 for a process that does not exist
          th,        \* what each process is doing in the kernel
          panicked   \* "no", "bad", or "ialloc" when the disk ran out of inodes

\* History, not state of the kernel: the directories whose ".." was freed while
\* they were in use, and whether a path has led through such a "..".
VARIABLES stale, strayed
vars == <<dinode, dir, inode, file, ofile, cwd, th, panicked, stale, strayed>>

NoInode == [ref |-> 0, lock |-> 0, valid |-> FALSE, type |-> "free", nlink |-> 0]
NoEntries == [n \in Name \cup Dots |-> 0]
NoCall == [op |-> "none"]

\* A process in user space.  In the kernel: call is the system call, dp and ip
\* are its pointers to inodes, path is what is left of the path name, and put
\* lists the inodes it must iput before it goes on at pc, the first of them at
\* the stage iput.
User == [pc |-> "user", call |-> NoCall, path |-> <<>>, dp |-> 0, ip |-> 0, put |-> <<>>, iput |-> "test"]

Init ==
  /\ dinode = [i \in Inum |-> IF i = ROOTINO THEN [type |-> "dir", nlink |-> 1]
                                             ELSE [type |-> "free", nlink |-> 0]]
  /\ dir = [i \in Inum |-> IF i = ROOTINO THEN [n \in Name \cup Dots |-> IF n \in Dots THEN ROOTINO ELSE 0]
                                          ELSE NoEntries]
  /\ inode = [i \in Inum |-> IF i = ROOTINO THEN [NoInode EXCEPT !.ref = 1] ELSE NoInode]
  /\ file = [f \in File |-> [ref |-> 0, ip |-> 0]]
  /\ ofile = [p \in Proc |-> [fd \in Fd |-> 0]]
  /\ cwd = [p \in Proc |-> IF p = 1 THEN ROOTINO ELSE 0]
  /\ th = [p \in Proc |-> User]
  /\ panicked = "no"
  /\ stale = {} /\ strayed = FALSE

---------------------------------------------------------------------------
(* The inode table.  it is a value of inode, changed within a step.        *)

idup(it, i) == [it EXCEPT ![i].ref = @ + 1]
iget(it, i) == IF it[i].ref > 0 THEN idup(it, i) ELSE [it EXCEPT ![i] = [NoInode EXCEPT !.ref = 1]]
iunlock(it, i) == [it EXCEPT ![i].lock = 0]

\* iget's panic: more inodes are in use than the table has entries.
NoRoom == Cardinality({i \in Inum : inode[i].ref > 0}) > NINODE
Running == panicked = "no" /\ ~NoRoom

\* panic(): the machine stops.
Panic(why) == panicked' = why /\ UNCHANGED <<dinode, dir, inode, file, ofile, cwd, th>>

\* The inode as ilock leaves it: read from disk unless it is valid.
Locked(p, i) ==
  [inode EXCEPT ![i] = IF @.valid THEN [@ EXCEPT !.lock = p]
                       ELSE [ref |-> @.ref, lock |-> p, valid |-> TRUE,
                             type |-> dinode[i].type, nlink |-> dinode[i].nlink]]

\* ilock's panics: nobody refers to the inode, or it is free on disk.
ilockPanics(i) == inode[i].ref < 1 \/ (~inode[i].valid /\ dinode[i].type = "free")

\* ilock, and then what the step does with the table as ilock leaves it.
ilock(p, i, Body(_)) ==
  /\ inode[i].lock = 0
  /\ IF ilockPanics(i) THEN Panic("bad")
     ELSE \E it \in {Locked(p, i)} : Body(it)

\* ilock of the directory that nameiparent has returned, for a dirlookup, which
\* panics if it is no directory.
ilockdir(p, i, Body(_)) ==
  ilock(p, i, LAMBDA it : IF it[i].type # "dir" THEN Panic("bad") ELSE Body(it))

\* A step that panics unless ok.
Check(ok) == panicked' = IF ok THEN "no" ELSE "bad"

\* iupdate: the in-memory inode i of it on its way to the disk inodes dn.
iupdate(dn, it, i) == [dn EXCEPT ![i] = [type |-> it[i].type, nlink |-> it[i].nlink]]

\* A process that is to iput some inodes does so before anything else.
At(p, pc) == th[p].pc = pc /\ th[p].put = <<>> /\ cwd[p] # 0 /\ Running
Go(p, t) == th' = [th EXCEPT ![p] = t]

\* (mutant) iput does not look for other references.
LastPutShared(i) == inode[i].valid /\ inode[i].nlink = 0

\* iput's test: this is the last pointer to an inode without links.
LastPut(i) == inode[i].ref = 1 /\ inode[i].valid /\ inode[i].nlink = 0

Dropped(i) == [inode EXCEPT ![i] = IF @.ref = 1 THEN NoInode ELSE [@ EXCEPT !.ref = @ - 1]]
Putting(p, stage) == th[p].put # <<>> /\ th[p].iput = stage /\ Running

\* iput up to the test, and all of it unless the inode is to be freed.
\* acquiresleep under a spinlock must not sleep: sched() would panic.
iput(p) ==
  /\ Putting(p, "test")
  /\ LET i == Head(th[p].put) IN
     IF LastPut(i)
     THEN /\ Check(inode[i].lock = 0)
          /\ inode' = [inode EXCEPT ![i].lock = p]
          /\ th' = [th EXCEPT ![p].iput = "free"]
     ELSE /\ inode' = Dropped(i)
          /\ th' = [th EXCEPT ![p].put = Tail(@)]
          /\ UNCHANGED panicked
  /\ UNCHANGED <<dinode, dir, file, ofile, cwd>>

\* iput of an inode without links: its contents and then the inode are freed
\* on disk, and the lock is released ...
iput_free(p) ==
  /\ Putting(p, "free")
  /\ LET i == Head(th[p].put) IN
     /\ dinode' = [dinode EXCEPT ![i] = [type |-> "free", nlink |-> 0]]
     /\ dir' = [dir EXCEPT ![i] = NoEntries]
     /\ inode' = [inode EXCEPT ![i] = [NoInode EXCEPT !.ref = inode[i].ref]]
  /\ th' = [th EXCEPT ![p].iput = "drop"]
  /\ UNCHANGED <<file, ofile, cwd, panicked>>

\* ... before the reference is dropped.
iput_drop(p) ==
  /\ Putting(p, "drop")
  /\ inode' = Dropped(Head(th[p].put))
  /\ th' = [th EXCEPT ![p].iput = "test", ![p].put = Tail(@)]
  /\ UNCHANGED <<dinode, dir, file, ofile, cwd, panicked>>

---------------------------------------------------------------------------
(* Path names: namex walks with dp, and leaves the name that is left over  *)
(* in path when it looks for a parent.                                     *)

dirlookup(i, name) == dir[i][name]
dirlink(entries, i, name, inum) == [entries EXCEPT ![i][name] = inum]

\* The path leads nowhere: back to the user, or to bad: in sys_link.
Lost(t) == IF t.ip = 0 THEN [User EXCEPT !.put = <<t.dp>>]
           ELSE [t EXCEPT !.pc = "link_bad", !.dp = 0, !.put = <<t.dp>>]
NotFound(p) == Go(p, Lost(th[p]))

\* The end of the path: namei returns the inode, nameiparent has no name.
Arrive(t) == IF t.path # <<>> THEN t
             ELSE IF t.pc = "nameiparent" THEN Lost(t)
             ELSE [t EXCEPT !.pc = t.call.op, !.ip = t.dp, !.dp = 0]

\* A call that takes a path enters the kernel, up to namex's loop.
enter(p, c) ==
  /\ At(p, "user") /\ c.op \in {"open", "link", "chdir", "unlink", "create"}
  /\ LET start == IF c.path.root THEN ROOTINO ELSE cwd[p] IN
     /\ inode' = IF c.path.root THEN iget(inode, ROOTINO) ELSE idup(inode, cwd[p])
     /\ Go(p, Arrive([User EXCEPT !.pc = IF c.op \in {"unlink", "create"} THEN "nameiparent" ELSE "namei",
                                  !.call = c, !.path = c.path.elems, !.dp = start]))
  /\ UNCHANGED <<dinode, dir, file, ofile, cwd, panicked>>

\* One turn of namex's loop.
namex(p) ==
  /\ At(p, "namei") \/ At(p, "nameiparent")
  /\ th[p].path # <<>>
  /\ LET t == th[p]
         name == Head(t.path) IN
     ilock(p, t.dp, LAMBDA it : UNCHANGED panicked /\ (
       \/ /\ it[t.dp].type # "dir"
          /\ inode' = iunlock(it, t.dp)
          /\ NotFound(p)
       \/ /\ it[t.dp].type = "dir" /\ t.pc = "nameiparent" /\ Len(t.path) = 1
          /\ inode' = iunlock(it, t.dp)
          /\ Go(p, [t EXCEPT !.pc = IF t.call.op = "link" THEN "link_entry" ELSE t.call.op])
       \/ /\ it[t.dp].type = "dir" /\ ~(t.pc = "nameiparent" /\ Len(t.path) = 1)
          /\ dirlookup(t.dp, name) = 0
          /\ inode' = iunlock(it, t.dp)
          /\ NotFound(p)
       \/ /\ it[t.dp].type = "dir" /\ ~(t.pc = "nameiparent" /\ Len(t.path) = 1)
          /\ dirlookup(t.dp, name) # 0
          /\ inode' = iget(iunlock(it, t.dp), dirlookup(t.dp, name))
          /\ Go(p, Arrive([t EXCEPT !.dp = dirlookup(t.dp, name), !.path = Tail(@), !.put = <<t.dp>>]))))
  /\ UNCHANGED <<dinode, dir, file, ofile, cwd>>

---------------------------------------------------------------------------
(* The system calls, from where namex has found their inode.               *)

\* Back to user space, with some inodes to put on the way.
Return(p, puts) == Go(p, [User EXCEPT !.put = puts])
Least(S) == CHOOSE x \in S : \A y \in S : x <= y

\* filealloc and fdalloc.
FreeFiles == {f \in File : file[f].ref = 0}
FreeFds(p) == {fd \in Fd : ofile[p][fd] = 0}

\* The end of sys_open, with the inode locked.
OpenFile(p, it, i) ==
  /\ inode' = iunlock(it, i)
  /\ \/ /\ it[i].type = "baddev" \/ FreeFiles = {} \/ FreeFds(p) = {}
        /\ Return(p, <<i>>)
        /\ UNCHANGED <<file, ofile>>
     \/ /\ it[i].type # "baddev" /\ FreeFiles # {} /\ FreeFds(p) # {}
        /\ file' = [file EXCEPT ![Least(FreeFiles)] = [ref |-> 1, ip |-> i]]
        /\ ofile' = [ofile EXCEPT ![p][Least(FreeFds(p))] = Least(FreeFiles)]
        /\ Return(p, <<>>)

\* sys_open without O_CREATE.
open(p) ==
  /\ At(p, "open")
  /\ LET i == th[p].ip IN
     ilock(p, i, LAMBDA it : UNCHANGED panicked /\ (
       \/ /\ it[i].type = "dir" /\ ~th[p].call.rdonly
          /\ inode' = iunlock(it, i)
          /\ Return(p, <<i>>)
          /\ UNCHANGED <<file, ofile>>
       \/ /\ it[i].type # "dir" \/ th[p].call.rdonly
          /\ OpenFile(p, it, i)))
  /\ UNCHANGED <<dinode, dir, cwd>>

\* create(): the name exists, or a new inode is allocated for it; ialloc panics
\* when the disk has none.
FreeInodes == {i \in Inum : dinode[i].type = "free"}
create(p) ==
  /\ At(p, "create")
  /\ LET t == th[p]
         found == dirlookup(t.dp, Head(t.path))
         new == Least(FreeInodes) IN
     ilockdir(p, t.dp, LAMBDA it : (
       \/ /\ found # 0
          /\ inode' = iget(iunlock(it, t.dp), found)
          /\ Go(p, [t EXCEPT !.pc = "create_found", !.dp = 0, !.ip = found, !.put = <<t.dp>>])
          /\ UNCHANGED <<dinode, panicked>>
       \/ /\ found = 0 /\ FreeInodes # {}
          /\ dinode' = [dinode EXCEPT ![new] = [type |-> t.call.type, nlink |-> 0]]
          /\ inode' = iget(it, new)
          /\ Go(p, [t EXCEPT !.pc = "create_new", !.ip = new])
          /\ UNCHANGED panicked
       \/ found = 0 /\ FreeInodes = {} /\ Panic("ialloc")))
  /\ UNCHANGED <<dir, file, ofile, cwd>>

\* The inode that was there is what the caller asked for, or is not.
create_found(p) ==
  /\ At(p, "create_found")
  /\ LET t == th[p] IN
     ilock(p, t.ip, LAMBDA it : UNCHANGED panicked /\ (
       \/ /\ t.call.type = "file" /\ it[t.ip].type # "dir"
          /\ inode' = it
          /\ Go(p, [t EXCEPT !.pc = "create_done"])
       \/ /\ t.call.type # "file" \/ it[t.ip].type = "dir"
          /\ inode' = iunlock(it, t.ip)
          /\ Return(p, <<t.ip>>)))
  /\ UNCHANGED <<dinode, dir, file, ofile, cwd>>

\* (mutant) the parent's count does not include "..".
create_newUncounted(p) ==
  /\ At(p, "create_new")
  /\ LET t == th[p]
         isdir == t.call.type = "dir" IN
     ilock(p, t.ip, LAMBDA it :
       /\ inode' = iunlock([it EXCEPT ![t.ip].nlink = 1], t.dp)
       /\ dinode' = [dinode EXCEPT ![t.ip].nlink = 1]
       /\ dir' = [dir EXCEPT ![t.dp][Head(t.path)] = t.ip,
                             ![t.ip] = IF isdir THEN [@ EXCEPT !["."] = t.ip, ![".."] = t.dp] ELSE @]
       /\ Check(TRUE)
       /\ Go(p, [t EXCEPT !.pc = "create_done", !.dp = 0, !.put = <<t.dp>>]))
  /\ UNCHANGED <<file, ofile, cwd>>

\* The new inode gets its link, its dots and its entry; the parent is let go.
create_new(p) ==
  /\ At(p, "create_new")
  /\ LET t == th[p]
         name == Head(t.path)
         isdir == t.call.type = "dir" IN
     ilock(p, t.ip, LAMBDA it :
       \E linked \in {[it EXCEPT ![t.ip].nlink = 1, ![t.dp].nlink = IF isdir THEN @ + 1 ELSE @]} :
         /\ inode' = iunlock(linked, t.dp)
         /\ dinode' = IF isdir THEN iupdate(iupdate(dinode, linked, t.ip), linked, t.dp)
                               ELSE iupdate(dinode, linked, t.ip)
         /\ dir' = dirlink(IF isdir THEN dirlink(dirlink(dir, t.ip, ".", t.ip), t.ip, "..", t.dp) ELSE dir,
                           t.dp, name, t.ip)
         /\ Check(dirlookup(t.dp, name) = 0 /\ (isdir => \A n \in Dots : dirlookup(t.ip, n) = 0))
         /\ Go(p, [t EXCEPT !.pc = "create_done", !.dp = 0, !.put = <<t.dp>>]))
  /\ UNCHANGED <<file, ofile, cwd>>

\* create() has returned its inode locked: to sys_open, sys_mkdir or sys_mknod.
create_done(p) ==
  /\ At(p, "create_done")
  /\ LET i == th[p].ip IN
     \/ /\ th[p].call.type = "file"
        /\ OpenFile(p, inode, i)
     \/ /\ th[p].call.type # "file"
        /\ inode' = iunlock(inode, i)
        /\ Return(p, <<i>>)
        /\ UNCHANGED <<file, ofile>>
  /\ UNCHANGED <<dinode, dir, cwd, panicked>>
\* sys_link counts the link, and looks for the directory it goes to ...
link(p) ==
  /\ At(p, "link")
  /\ LET t == th[p]
         to == t.call.new
         start == IF to.root THEN ROOTINO ELSE cwd[p] IN
     ilock(p, t.ip, LAMBDA it : UNCHANGED panicked /\ (
       \/ /\ it[t.ip].type = "dir"
          /\ inode' = iunlock(it, t.ip)
          /\ Return(p, <<t.ip>>)
          /\ UNCHANGED dinode
       \/ /\ it[t.ip].type # "dir"
          /\ \E linked \in {[it EXCEPT ![t.ip].nlink = @ + 1]} :
               /\ dinode' = iupdate(dinode, linked, t.ip)
               /\ inode' = IF to.root THEN iget(iunlock(linked, t.ip), ROOTINO)
                                      ELSE idup(iunlock(linked, t.ip), cwd[p])
          /\ Go(p, Arrive([t EXCEPT !.pc = "nameiparent", !.path = to.elems, !.dp = start]))))
  /\ UNCHANGED <<dir, file, ofile, cwd>>

\* ... writes the entry, unless dirlink finds the name taken ...
link_entry(p) ==
  /\ At(p, "link_entry")
  /\ LET t == th[p]
         found == dirlookup(t.dp, Head(t.path)) IN
     ilockdir(p, t.dp, LAMBDA it : UNCHANGED panicked /\ (
       \/ /\ found # 0
          /\ inode' = iget(it, found)
          /\ Go(p, [t EXCEPT !.pc = "bad", !.put = <<found>>])
          /\ UNCHANGED dir
       \/ /\ found = 0
          /\ dir' = dirlink(dir, t.dp, Head(t.path), t.ip)
          /\ inode' = iunlock(it, t.dp)
          /\ Return(p, <<t.dp, t.ip>>)))
  /\ UNCHANGED <<dinode, file, ofile, cwd>>

\* ... and takes the link back when that failed.
link_bad(p) ==
  /\ At(p, "link_bad")
  /\ LET i == th[p].ip IN
     ilock(p, i, LAMBDA it :
       \E unlinked \in {[it EXCEPT ![i].nlink = @ - 1]} :
         /\ dinode' = iupdate(dinode, unlinked, i)
         /\ inode' = iunlock(unlinked, i)
         /\ Return(p, <<i>>)
         /\ UNCHANGED panicked)
  /\ UNCHANGED <<dir, file, ofile, cwd>>

\* iunlockput(dp) on the way out of sys_link and sys_unlink.
bad(p) ==
  /\ At(p, "bad")
  /\ inode' = iunlock(inode, th[p].dp)
  /\ NotFound(p)
  /\ UNCHANGED <<dinode, dir, file, ofile, cwd, panicked>>

\* (mutant) "." and ".." can be unlinked.
unlinkDots(p) ==
  /\ At(p, "unlink")
  /\ LET t == th[p]
         found == dirlookup(t.dp, Head(t.path)) IN
     ilockdir(p, t.dp, LAMBDA it : UNCHANGED panicked /\ (
       \/ /\ found = 0
          /\ inode' = iunlock(it, t.dp)
          /\ Return(p, <<t.dp>>)
       \/ /\ found # 0
          /\ inode' = iget(it, found)
          /\ Go(p, [t EXCEPT !.pc = "unlink_inode", !.ip = found])))
  /\ UNCHANGED <<dinode, dir, file, ofile, cwd>>

\* sys_unlink looks the name up, and locks its inode with the directory locked.
unlink(p) ==
  /\ At(p, "unlink")
  /\ LET t == th[p]
         found == dirlookup(t.dp, Head(t.path)) IN
     ilockdir(p, t.dp, LAMBDA it : UNCHANGED panicked /\ (
       \/ /\ Head(t.path) \in Dots \/ found = 0
          /\ inode' = iunlock(it, t.dp)
          /\ Return(p, <<t.dp>>)
       \/ /\ Head(t.path) \notin Dots /\ found # 0
          /\ inode' = iget(it, found)
          /\ Go(p, [t EXCEPT !.pc = "unlink_inode", !.ip = found])))
  /\ UNCHANGED <<dinode, dir, file, ofile, cwd>>

isdirempty(i) == \A n \in Name : dir[i][n] = 0

\* The entry is erased, and with it a directory's link to its parent.
unlink_inode(p) ==
  /\ At(p, "unlink_inode")
  /\ LET t == th[p] IN
     ilock(p, t.ip, LAMBDA it :
       /\ Check(it[t.ip].nlink >= 1)
       /\ \/ /\ it[t.ip].type = "dir" /\ ~isdirempty(t.ip)
             /\ inode' = iunlock(it, t.ip)
             /\ Go(p, [t EXCEPT !.pc = "bad", !.ip = 0, !.put = <<t.ip>>])
             /\ UNCHANGED <<dinode, dir>>
          \/ /\ it[t.ip].type # "dir" \/ isdirempty(t.ip)
             /\ dir' = [dir EXCEPT ![t.dp][Head(t.path)] = 0]
             /\ \E left \in {[it EXCEPT ![t.dp].nlink = IF it[t.ip].type = "dir" THEN @ - 1 ELSE @]} :
                  /\ inode' = iunlock(left, t.dp)
                  /\ dinode' = IF it[t.ip].type = "dir" THEN iupdate(dinode, left, t.dp) ELSE dinode
             /\ Go(p, [t EXCEPT !.pc = "unlink_done", !.dp = 0, !.put = <<t.dp>>]))
  /\ UNCHANGED <<file, ofile, cwd>>

unlink_done(p) ==
  /\ At(p, "unlink_done")
  /\ LET i == th[p].ip IN
     \E unlinked \in {[inode EXCEPT ![i].nlink = @ - 1]} :
       /\ dinode' = iupdate(dinode, unlinked, i)
       /\ inode' = iunlock(unlinked, i)
       /\ Return(p, <<i>>)
  /\ UNCHANGED <<dir, file, ofile, cwd, panicked>>

\* (mutant) sys_chdir forgets the old directory.
chdirLeaks(p) ==
  /\ At(p, "chdir")
  /\ LET t == th[p] IN
     ilock(p, t.ip, LAMBDA it :
       /\ UNCHANGED panicked
       /\ inode' = iunlock(it, t.ip)
       /\ IF it[t.ip].type # "dir" THEN Return(p, <<t.ip>>)
          ELSE Go(p, [t EXCEPT !.pc = "chdir_end"]))
  /\ UNCHANGED <<dinode, dir, file, ofile, cwd>>

\* sys_chdir puts the old directory before it has set the new one.
chdir(p) ==
  /\ At(p, "chdir")
  /\ LET t == th[p] IN
     ilock(p, t.ip, LAMBDA it :
       /\ UNCHANGED panicked
       /\ inode' = iunlock(it, t.ip)
       /\ \/ it[t.ip].type # "dir" /\ Return(p, <<t.ip>>)
          \/ it[t.ip].type = "dir" /\ Go(p, [t EXCEPT !.pc = "chdir_end", !.put = <<cwd[p]>>]))
  /\ UNCHANGED <<dinode, dir, file, ofile, cwd>>

chdir_end(p) ==
  /\ At(p, "chdir_end")
  /\ cwd' = [cwd EXCEPT ![p] = th[p].ip]
  /\ Return(p, <<>>)
  /\ UNCHANGED <<dinode, dir, inode, file, ofile, panicked>>

---------------------------------------------------------------------------
(* Descriptors: dup, close, and what fork and exit do with them.           *)

argfd(p, fd) == ofile[p][fd] # 0
filedup(files, f) == [files EXCEPT ![f].ref = @ + 1]

dup(p, fd) ==
  /\ At(p, "user") /\ argfd(p, fd) /\ FreeFds(p) # {}
  /\ ofile' = [ofile EXCEPT ![p][Least(FreeFds(p))] = ofile[p][fd]]
  /\ file' = filedup(file, ofile[p][fd])
  /\ UNCHANGED <<dinode, dir, inode, cwd, th, panicked>>

\* fileclose of a descriptor, and on to pc.
fileclose(p, fd, pc) ==
  LET f == ofile[p][fd]
      last == file[f].ref = 1 IN
  /\ ofile' = [ofile EXCEPT ![p][fd] = 0]
  /\ file' = [file EXCEPT ![f] = IF last THEN [ref |-> 0, ip |-> 0] ELSE [@ EXCEPT !.ref = @ - 1]]
  /\ Go(p, [User EXCEPT !.pc = pc, !.put = IF last THEN <<file[f].ip>> ELSE <<>>])

close(p, fd) ==
  /\ At(p, "user") /\ argfd(p, fd)
  /\ fileclose(p, fd, "user")
  /\ UNCHANGED <<dinode, dir, inode, cwd, panicked>>

\* fork shares the open files and the current directory.
fork(p, np) ==
  /\ At(p, "user") /\ cwd[np] = 0
  /\ ofile' = [ofile EXCEPT ![np] = ofile[p]]
  /\ file' = [f \in File |-> [file[f] EXCEPT !.ref = @ + Cardinality({fd \in Fd : ofile[p][fd] = f})]]
  /\ inode' = idup(inode, cwd[p])
  /\ cwd' = [cwd EXCEPT ![np] = cwd[p]]
  /\ UNCHANGED <<dinode, dir, th, panicked>>

\* exit closes the descriptors one by one, and then puts the directory.
OpenFds(p) == Fd \ FreeFds(p)
exit(p) ==
  /\ (p # 1 /\ At(p, "user")) \/ At(p, "exit")
  /\ \/ OpenFds(p) # {} /\ fileclose(p, Least(OpenFds(p)), "exit")
     \/ /\ OpenFds(p) = {}
        /\ Go(p, [User EXCEPT !.pc = "exit_end", !.put = <<cwd[p]>>])
        /\ UNCHANGED <<file, ofile>>
  /\ UNCHANGED <<dinode, dir, inode, cwd, panicked>>

exit_end(p) ==
  /\ At(p, "exit_end")
  /\ cwd' = [cwd EXCEPT ![p] = 0]
  /\ Return(p, <<>>)
  /\ UNCHANGED <<dinode, dir, inode, file, ofile, panicked>>

---------------------------------------------------------------------------
\* p's step is a turn of namex's loop that takes the ".." of a stale directory.
Strays(p) ==
  /\ th[p].pc \in {"namei", "nameiparent"} /\ th[p].dp \in stale
  /\ th[p].path # <<>> /\ Head(th[p].path) = ".." /\ th'[p].path = Tail(th[p].path)

\* The directories whose ".." is free, or in the hands of an iput that will
\* free it.
Gone(i) == dinode[i].type = "free" \/ \E p \in Proc : Putting(p, "free") /\ Head(th[p].put) = i
Orphans == {d \in Inum : dinode[d].type = "dir" /\ dir[d][".."] # 0 /\ Gone(dir[d][".."])}

Remember ==
  /\ stale' = Orphans' \cup {d \in stale : dinode'[d].type = "dir"}
  /\ strayed' = (strayed \/ \E p \in Proc : Strays(p))

Step(p) ==
  \/ iput(p) \/ iput_free(p) \/ iput_drop(p) \/ namex(p) \/ open(p)
  \/ create(p) \/ create_found(p) \/ create_new(p) \/ create_done(p)
  \/ link(p) \/ link_entry(p) \/ link_bad(p) \/ bad(p)
  \/ unlink(p) \/ unlink_inode(p) \/ unlink_done(p) \/ chdir(p) \/ chdir_end(p)
  \/ \E c \in Calls : enter(p, c)
  \/ \E fd \in Fd : dup(p, fd) \/ close(p, fd)
  \/ \E np \in Proc : fork(p, np)
  \/ exit(p) \/ exit_end(p)

Next == (\E p \in Proc : Step(p)) /\ Remember

Spec == Init /\ [][Next]_vars

---------------------------------------------------------------------------
(* Properties                                                              *)

TypeOK ==
  /\ dinode \in [Inum -> [type : {"free", "file", "dir", "dev", "baddev"}, nlink : Nat]]
  /\ dir \in [Inum -> [Name \cup Dots -> Inum \cup {0}]]
  /\ inode \in [Inum -> [ref : Nat, lock : Proc \cup {0}, valid : BOOLEAN,
                         type : {"free", "file", "dir", "dev", "baddev"}, nlink : Nat]]
  /\ file \in [File -> [ref : Nat, ip : Inum \cup {0}]]
  /\ ofile \in [Proc -> [Fd -> File \cup {0}]]
  /\ cwd \in [Proc -> Inum \cup {0}]
  /\ panicked \in {"no", "bad", "ialloc"}

\* p->cwd is a pointer to an inode, except once exit or chdir has put it.
Cwd(p) == IF th[p].pc \in {"chdir_end", "exit_end"} THEN 0 ELSE cwd[p]

\* The pointers to inode i in files, processes and the variables of calls.
Pointers(i) ==
  LET local(p) == Len(SelectSeq(th[p].put \o <<th[p].dp, th[p].ip, Cwd(p)>>, LAMBDA j : j = i))
      sum[n \in 0..NPROC] == IF n = 0 THEN 0 ELSE sum[n - 1] + local(n)
  IN  sum[NPROC] + Cardinality({f \in File : file[f].ref > 0 /\ file[f].ip = i})

Entries(i) == Cardinality({e \in Inum \X Name : dir[e[1]][e[2]] = i})
Nlink(i) == IF inode[i].valid THEN inode[i].nlink ELSE dinode[i].nlink

\* "ip->ref tracks the number of in-memory pointers to the entry" (fs.c:131),
\* also half way through a call and on every path out of it; and f->ref counts
\* the descriptors that share a file.  Nothing leaks, and nothing is dropped
\* while a pointer to it is left.  What iput and ilock see in memory is what is on
\* disk whenever nobody holds the inode's lock.  No entry dangles: the inode it
\* names is allocated, and counts at least that many links, so that iput cannot
\* free it.  The links are exact only until a path strays (see NoPanic): a
\* directory that create has allocated can then be reached before create sets
\* nlink to 1, which loses the link of a directory made in it meanwhile.
RefsCounted ==
  /\ TypeOK
  /\ \A i \in Inum :
       /\ inode[i].ref = Pointers(i)
       /\ Entries(i) > 0 /\ ~strayed => dinode[i].type # "free" /\ Nlink(i) >= Entries(i)
       /\ inode[i].valid /\ inode[i].lock = 0 =>
            inode[i].type = dinode[i].type /\ inode[i].nlink = dinode[i].nlink
  /\ \A f \in File : file[f].ref = Cardinality({q \in Proc \X Fd : ofile[q[1]][q[2]] = f})

\* The kernel does not panic, short of running out of inodes: nobody locks a
\* free inode, looks a name up in what is no directory or unlinks what has no
\* link, and iput never waits for a sleep-lock while it holds itable.lock
\* (the claim of fs.c:340).  The exception is the ".." that a removed directory
\* keeps (sys_unlink gives its link back, sysfile.c:222): once the parent too
\* is removed and its last reference is on its way out, a path through that ".."
\* reaches an inode that is free, or has become another file, and ilock panics
\* with "no type" (fs.c:311).
NoPanic == panicked = "bad" => strayed

\* An inode that is open or somebody's current directory stays what it is: it
\* is neither freed nor reused for another file, unlinked or not.
Held(i) == \/ \E f \in File : file[f].ref > 0 /\ file[f].ip = i
           \/ \E p \in Proc : Cwd(p) = i
HeldStays ==
  [][\A i \in Inum : Held(i) => dinode[i].type # "free" /\ dinode'[i].type = dinode[i].type]_vars

\* The inode whose lock a call needs next, 0 if none.
Wants(p) ==
  IF th[p].put # <<>> THEN 0
  ELSE IF th[p].pc \in {"namei", "nameiparent", "create", "link_entry", "unlink"} THEN th[p].dp
  ELSE IF th[p].pc \in {"open", "create_found", "create_new", "link", "link_bad", "unlink_inode", "chdir"}
  THEN th[p].ip ELSE 0

\* No set of calls wait for each other's inodes, and none for itself, although
\* create and unlink hold a directory while they wait for an inode in it, and
\* paths lead down, up through "..", to the same directory through "." and back
\* to the root, also from a directory that has been removed; and no call returns
\* with an inode locked.
NoDeadlock ==
  /\ \A S \in SUBSET Proc \ {{}} : \E p \in S : Wants(p) = 0 \/ inode[Wants(p)].lock \notin S
  /\ \A i \in Inum : inode[i].lock # 0 => th[inode[i].lock].pc # "user" \/ th[inode[i].lock].put # <<>>

====
