------------------------------ MODULE FileData ------------------------------
(***************************************************************************)
(* The blocks of files: mkfs/mkfs.c, which builds the image, and           *)
(* kernel/fs.c's balloc, bfree, bmap, itrunc, readi and writei under       *)
(* kernel/file.c's fileread and filewrite.                                 *)
(*                                                                         *)
(* A turn of writei's loop is a step; the process has ip->lock from ilock  *)
(* to iunlock.  A block is BSIZE cells, and a cell holds a byte, an address*)
(* or a directory entry.  Names, types and links are in module Fs; the     *)
(* log's promise, that what a group of calls has logged reaches the disk   *)
(* together, is that of module Log.                                        *)
(***************************************************************************)
EXTENDS Naturals, Sequences, FiniteSets, SequencesExt, FiniteSetsExt

CONSTANTS Proc,
          Ino,           \* [open file -> its inode]
          BSIZE, NDIRECT, FSSIZE, LOGSIZE, NINODES, IPB, MAXOPBLOCKS,
          Files,         \* the possible arguments of mkfs: sequences of files
          Writes,        \* the write() calls: [p, f, bytes, good: how many of them are
                         \* mapped, upto: it is made while f->off is below this]
          Reads,         \* the read() calls: [p, f, n]
          Truncs         \* who opens f with O_TRUNC: [p, f]

NINDIRECT == BSIZE
MAXFILE == NDIRECT + NINDIRECT
ROOTINO == 1
BPB == BSIZE * 8
NoProc == 0

ASSUME ProcAssumption == NoProc \notin Proc

\* mkfs's layout: [ boot block | sb block | log | inode blocks | free bit map | data blocks ]
nbitmap == FSSIZE \div BPB + 1
ninodeblocks == NINODES \div IPB + 1
nmeta == 2 + LOGSIZE + ninodeblocks + nbitmap
inodestart == 2 + LOGSIZE
bmapstart == inodestart + ninodeblocks
IBLOCK(i) == i \div IPB + inodestart
BBLOCK(b) == b \div BPB + bmapstart

Block == 0 .. FSSIZE - 1
Inum == 1 .. NINODES - 1
File == DOMAIN Ino
Zeroes == [k \in 0 .. BSIZE - 1 |-> 0]
Free == [size |-> 0, addrs |-> [k \in 0 .. NDIRECT |-> 0]]
Idle == [pc |-> "user", f |-> 0, bytes |-> <<>>, good |-> 0, n1 |-> 0, tot |-> 0, log |-> {}]

VARIABLES bitmap,      \* the blocks marked in use
          data,        \* the blocks' contents, as the buffer cache has them
          disk,        \* and on the disk
          dinode,      \* the inodes on the disk
          inode,       \* and in memory
          lock,        \* ip->lock
          logged,      \* blocks written by the calls of the log's current group
          off,         \* [open file -> f->off]
          th,          \* [Proc -> its write() and how far it has come]
          got,         \* [Proc -> what its last good read() returned]
          mk,          \* what mkfs has still to append, and freeblock
          panicked     \* "no"; "balloc"; "log_write" when a reader allocates

diskVars == <<bitmap, data, disk, dinode, inode>>
vars == <<diskVars, lock, logged, off, th, got, mk, panicked>>

lesser(a, b) == IF a < b THEN a ELSE b
greater(a, b) == IF a > b THEN a ELSE b

\* A block after some bytes are copied to it.
Copied(block, at, bytes) ==
  [c \in 0 .. BSIZE - 1 |-> IF c >= at /\ c < at + Len(bytes) THEN bytes[c - at + 1] ELSE block[c]]

---------------------------------------------------------------------------
(* mkfs                                                                    *)

\* main(): "." and "..", then an inode, an entry and the contents of each file.
RootEntries == [inum |-> ROOTINO, bytes |-> <<ROOTINO, ROOTINO>>]
Entry(i) == [inum |-> ROOTINO, bytes |-> <<i>>]
Appends(files) ==
  <<RootEntries>> \o FlattenSeq([k \in DOMAIN files |-> <<Entry(k + 1), [inum |-> k + 1, bytes |-> files[k]]>>])

Init ==
  /\ bitmap = {} /\ dinode = [i \in Inum |-> Free] /\ inode = dinode
  /\ data = [b \in Block |-> Zeroes] /\ disk = data
  /\ lock = [i \in Inum |-> NoProc]
  /\ logged = {}
  /\ off = [f \in File |-> 0]
  /\ th = [p \in Proc |-> Idle]
  /\ got = [p \in Proc |-> <<>>]
  /\ \E files \in Files : mk = [appends |-> Appends(files), freeblock |-> nmeta]
  /\ panicked = "no"

Booted == mk.freeblock = 0
Running == panicked = "no" /\ Booted

\* One turn of iappend's loop: fbn's block, and the indirect block's entry for
\* it, are allocated in this order where they are missing.
iappend ==
  /\ mk.appends # <<>>
  /\ LET a == Head(mk.appends)
         d == dinode[a.inum]
         fbn == d.size \div BSIZE
         n1 == lesser(Len(a.bytes), (fbn + 1) * BSIZE - d.size)
         newind == fbn >= NDIRECT /\ d.addrs[NDIRECT] = 0
         ind == IF newind THEN mk.freeblock ELSE d.addrs[NDIRECT]
         have == IF fbn < NDIRECT THEN d.addrs[fbn] ELSE data[ind][fbn - NDIRECT]
         next == IF newind THEN mk.freeblock + 1 ELSE mk.freeblock
         x == IF have = 0 THEN next ELSE have
         copied == Copied(data[x], d.size % BSIZE, SubSeq(a.bytes, 1, n1)) IN
     /\ data' = IF fbn < NDIRECT THEN [data EXCEPT ![x] = copied]
                ELSE [data EXCEPT ![ind][fbn - NDIRECT] = x, ![x] = copied]
     /\ dinode' = [dinode EXCEPT ![a.inum].size = @ + n1,
                                 ![a.inum].addrs[lesser(fbn, NDIRECT)] = IF fbn < NDIRECT THEN x ELSE ind]
     /\ mk' = [appends |-> IF n1 = Len(a.bytes) THEN Tail(mk.appends)
                           ELSE [mk.appends EXCEPT ![1].bytes = SubSeq(@, n1 + 1, Len(@))],
               freeblock |-> IF have = 0 THEN next + 1 ELSE next]
  /\ UNCHANGED <<bitmap, disk, inode, lock, logged, off, th, got, panicked>>

\* The root directory is made whole blocks, the bitmap is written; then the
\* kernel starts on the image.
mkfs_end ==
  /\ ~Booted /\ mk.appends = <<>>
  /\ dinode' = [dinode EXCEPT ![ROOTINO].size = (@ \div BSIZE + 1) * BSIZE]
  /\ bitmap' = 0 .. mk.freeblock - 1
  /\ mk' = [appends |-> <<>>, freeblock |-> 0]
  /\ disk' = data /\ inode' = dinode'
  /\ UNCHANGED <<data, lock, logged, off, th, got, panicked>>

---------------------------------------------------------------------------
(* Blocks.  s is what a call changes: bitmap, data, ip, and its log blocks;*)
(* s.addr is the block a function returns, 0 for a panic of balloc.        *)

\* Mutant: the new block is not zeroed.
ballocDirty(s) ==
  IF Block \ s.bitmap = {} THEN [s EXCEPT !.addr = 0]
  ELSE LET b == Min(Block \ s.bitmap) IN [s EXCEPT !.addr = b, !.bitmap = @ \cup {b}, !.log = @ \cup {BBLOCK(b)}]

balloc(s) ==
  IF Block \ s.bitmap = {} THEN [s EXCEPT !.addr = 0]
  ELSE LET b == Min(Block \ s.bitmap) IN
       [s EXCEPT !.addr = b, !.bitmap = @ \cup {b}, !.data[b] = Zeroes, !.log = @ \cup {BBLOCK(b), b}]

\* addr, or a new block where it is 0.
Mapped(s, addr) == IF addr # 0 THEN [s EXCEPT !.addr = addr] ELSE balloc(s)

InAddrs(s, k) == [s EXCEPT !.ip.addrs[k] = s.addr]
InBlock(s, ind, k) ==
  IF s.data[ind][k] = s.addr \/ s.addr = 0 THEN s
  ELSE [s EXCEPT !.data[ind][k] = s.addr, !.log = @ \cup {ind}]

bmap(s, bn) ==
  IF bn < NDIRECT THEN InAddrs(Mapped(s, s.ip.addrs[bn]), bn)
  ELSE LET t == InAddrs(Mapped(s, s.ip.addrs[NDIRECT]), NDIRECT) IN
       IF t.addr = 0 THEN t
       ELSE InBlock(Mapped(t, t.data[t.addr][bn - NDIRECT]), t.addr, bn - NDIRECT)

\* The blocks itrunc frees.
Entries(d, ip) == IF ip.addrs[NDIRECT] = 0 THEN {} ELSE {d[ip.addrs[NDIRECT]][k] : k \in 0 .. NINDIRECT - 1}
BlocksOf(d, ip) == ({ip.addrs[k] : k \in 0 .. NDIRECT} \cup Entries(d, ip)) \ {0}

\* end_op: the last call of a group commits what the group has logged.
Outstanding == {p \in Proc : th[p].pc \in {"filewrite", "writei", "writei_end"}}
\* Mutant: a call that is not the last of its group forgets what others logged.
endOpAlone(p, log) ==
  IF Outstanding \ {p} = {}
  THEN /\ disk' = [b \in Block |-> IF b \in logged \cup log THEN data'[b] ELSE disk[b]]
       /\ logged' = {}
  ELSE /\ logged' = log
       /\ UNCHANGED disk

end_op(p, log) ==
  IF Outstanding \ {p} = {}
  THEN /\ disk' = [b \in Block |-> IF b \in logged \cup log THEN data'[b] ELSE disk[b]]
       /\ logged' = {}
  ELSE /\ logged' = logged \cup log
       /\ UNCHANGED disk

---------------------------------------------------------------------------
(* write(), read(), and open() with O_TRUNC                                *)

Start(w) == LET p == w.p IN
  /\ th[p].pc = "user" /\ Running
  /\ off[w.f] < w.upto
  /\ th' = [th EXCEPT ![p] = [Idle EXCEPT !.pc = "begin_op", !.f = w.f, !.bytes = w.bytes, !.good = w.good]]
  /\ got' = [got EXCEPT ![p] = <<>>]
  /\ UNCHANGED <<diskVars, lock, logged, off, mk, panicked>>

\* Mutant: the whole write is one transaction.
maxFile == MAXFILE * BSIZE

\* The most a transaction writes.
max == ((MAXOPBLOCKS - 1 - 1 - 2) \div 2) * BSIZE

begin_op(p) ==
  /\ th[p].pc = "begin_op" /\ Running
  /\ th' = [th EXCEPT ![p].pc = "filewrite"]
  /\ UNCHANGED <<diskVars, lock, logged, off, got, mk, panicked>>

\* filewrite's next round: ilock, and writei's checks; when they fail, the call
\* is over.
filewrite(p) ==
  /\ th[p].pc = "filewrite" /\ Running
  /\ LET t == th[p]
         i == Ino[t.f]
         n1 == lesser(Len(t.bytes), max) IN
     /\ lock[i] = NoProc
     /\ \/ /\ off[t.f] > inode[i].size \/ off[t.f] + n1 > MAXFILE * BSIZE
           /\ th' = [th EXCEPT ![p] = Idle]
           /\ UNCHANGED <<data, lock>>
           /\ end_op(p, {})
        \/ /\ off[t.f] <= inode[i].size /\ off[t.f] + n1 <= MAXFILE * BSIZE
           /\ th' = [th EXCEPT ![p] = [t EXCEPT !.pc = "writei", !.n1 = n1, !.tot = 0, !.log = {}]]
           /\ lock' = [lock EXCEPT ![i] = p]
           /\ UNCHANGED <<data, disk, logged>>
  /\ UNCHANGED <<bitmap, dinode, inode, off, got, mk, panicked>>

\* One turn of writei's loop.  either_copyin may fail after it has copied some
\* of the bytes: these stay in the buffer, which is not logged.
writei(p) ==
  /\ th[p].pc = "writei" /\ th[p].tot < th[p].n1 /\ Running
  /\ LET t == th[p]
         i == Ino[t.f]
         o == off[t.f] + t.tot
         m == lesser(t.n1 - t.tot, BSIZE - (o % BSIZE)) IN
     \E s \in {bmap([bitmap |-> bitmap, data |-> data, ip |-> inode[i], log |-> t.log, addr |-> 0], o \div BSIZE)} :
       \/ /\ s.addr = 0
          /\ panicked' = "balloc"
          /\ UNCHANGED <<bitmap, data, inode, th>>
       \/ \E k \in IF t.good >= t.tot + m THEN {m} ELSE 0 .. t.good - t.tot :
          /\ s.addr # 0
          /\ bitmap' = s.bitmap
          /\ data' = [s.data EXCEPT ![s.addr] =
                        Copied(@, o % BSIZE, SubSeq(t.bytes, t.tot + 1, t.tot + k))]
          /\ inode' = [inode EXCEPT ![i] = s.ip]
          /\ th' = [th EXCEPT ![p] = IF k = m THEN [t EXCEPT !.tot = @ + m, !.log = s.log \cup {s.addr}]
                                     ELSE [t EXCEPT !.pc = "writei_end", !.log = s.log]]
          /\ UNCHANGED panicked
  /\ UNCHANGED <<disk, dinode, lock, logged, off, got, mk>>

\* The end of writei and of filewrite's round: the size, iupdate, f->off,
\* iunlock, end_op; the call ends when all is written or writei stopped short.
writei_end(p) ==
  /\ th[p].pc = "writei_end" \/ (th[p].pc = "writei" /\ th[p].tot = th[p].n1)
  /\ Running
  /\ LET t == th[p]
         i == Ino[t.f]
         ip == [inode[i] EXCEPT !.size = greater(@, off[t.f] + t.tot)] IN
     /\ inode' = [inode EXCEPT ![i] = ip]
     /\ dinode' = [dinode EXCEPT ![i] = ip]
     /\ off' = [off EXCEPT ![t.f] = @ + t.tot]
     /\ lock' = [lock EXCEPT ![i] = NoProc]
     /\ UNCHANGED data
     /\ end_op(p, t.log \cup {IBLOCK(i)})
     /\ th' = [th EXCEPT ![p] = IF t.tot # t.n1 \/ t.tot = Len(t.bytes) THEN Idle
                                ELSE [Idle EXCEPT !.pc = "begin_op", !.f = t.f, !.good = t.good - t.tot,
                                                  !.bytes = SubSeq(t.bytes, t.tot + 1, Len(t.bytes))]]
  /\ UNCHANGED <<bitmap, got, mk, panicked>>

\* The address of ip's block bn, 0 for a hole; and a byte.
BlockAt(d, ip, bn) ==
  IF bn < NDIRECT THEN ip.addrs[bn]
  ELSE IF ip.addrs[NDIRECT] = 0 THEN 0 ELSE d[ip.addrs[NDIRECT]][bn - NDIRECT]
ByteAt(d, ip, o) == d[BlockAt(d, ip, o \div BSIZE)][o % BSIZE]

\* fileread and readi.  In a hole bmap allocates a block: outside of a transaction
\* this panics, and it is in another call's transaction otherwise.  The block stays
\* when either_copyout fails, at the kth block; such a read changes nothing else.
fileread(p, f, n) ==
  /\ th[p].pc = "user" /\ Running
  /\ lock[Ino[f]] = NoProc
  /\ LET ip == inode[Ino[f]]
         m == IF off[f] > ip.size THEN 0 ELSE lesser(n, ip.size - off[f])
         first == off[f] \div BSIZE
         bns == [k \in 1 .. (IF m = 0 THEN 0 ELSE (off[f] + m - 1) \div BSIZE - first + 1) |-> first + k - 1]
         full == Block \ bitmap = {} IN
     \E k \in 0 .. Len(bns), good \in BOOLEAN :
     LET hole == \E j \in 1 .. k : BlockAt(data, ip, bns[j]) = 0
         panic == hole /\ (full \/ Outstanding = {}) IN
     /\ IF good THEN k = Len(bns) ELSE hole
     /\ \/ /\ panic
           /\ panicked' = IF full THEN "balloc" ELSE "log_write"
           /\ UNCHANGED <<bitmap, data, inode, logged, got, off>>
        \/ /\ ~panic
           /\ \E s \in {FoldLeft(bmap, [bitmap |-> bitmap, data |-> data, ip |-> ip, log |-> {}, addr |-> 0],
                                SubSeq(bns, 1, k))} :
                /\ bitmap' = s.bitmap /\ data' = s.data
                /\ inode' = [inode EXCEPT ![Ino[f]] = s.ip]
                /\ logged' = logged \cup s.log
                /\ got' = [got EXCEPT ![p] = IF good THEN [j \in 1 .. m |-> ByteAt(s.data, s.ip, off[f] + j - 1)] ELSE @]
           /\ off' = [off EXCEPT ![f] = IF good THEN @ + m ELSE @]
           /\ UNCHANGED panicked
  /\ UNCHANGED <<disk, dinode, lock, th, mk>>

\* sys_open with O_TRUNC: itrunc, as one transaction, and as one step: balloc does
\* not see the blocks as free one by one.
itrunc(p, i) ==
  /\ th[p].pc = "user" /\ Running
  /\ lock[i] = NoProc
  /\ bitmap' = bitmap \ BlocksOf(data, inode[i])
  /\ inode' = [inode EXCEPT ![i] = Free]
  /\ dinode' = [dinode EXCEPT ![i] = Free]
  /\ UNCHANGED data
  /\ end_op(p, {IBLOCK(i)} \cup {BBLOCK(b) : b \in BlocksOf(data, inode[i])})
  /\ UNCHANGED <<lock, off, th, got, mk, panicked>>

---------------------------------------------------------------------------
\* bget recycles the buffer of a block that is not pinned by the log.
Recycle(b) ==
  /\ Running
  /\ b \notin logged /\ \A p \in Proc : b \notin th[p].log
  /\ data[b] # disk[b]
  /\ data' = [data EXCEPT ![b] = disk[b]]
  /\ UNCHANGED <<bitmap, disk, dinode, inode, lock, logged, off, th, got, mk, panicked>>

\* The machine is started again when no call is in a transaction.
Reboot ==
  /\ Running /\ Outstanding = {}
  /\ data' = disk /\ inode' = dinode
  /\ off' = [f \in File |-> 0]
  /\ th' = [p \in Proc |-> Idle]
  /\ got' = [p \in Proc |-> <<>>]
  /\ UNCHANGED <<bitmap, disk, dinode, lock, logged, mk, panicked>>

Next ==
  \/ iappend \/ mkfs_end
  \/ \E p \in Proc :
       begin_op(p) \/ filewrite(p) \/ writei(p) \/ writei_end(p)
  \/ \E w \in Writes : Start(w)
  \/ \E r \in Reads : fileread(r.p, r.f, r.n)
  \/ \E t \in Truncs : itrunc(t.p, Ino[t.f])
  \/ \E b \in Block : Recycle(b)
  \/ Reboot

Spec == Init /\ [][Next]_vars

---------------------------------------------------------------------------
(* Properties                                                              *)

Slots(ip) == {<<"inode", k>> : k \in {k \in 0 .. NDIRECT : ip.addrs[k] # 0}}
             \cup {<<"block", k>> : k \in {k \in 0 .. NINDIRECT - 1 :
                                          ip.addrs[NDIRECT] # 0 /\ data[ip.addrs[NDIRECT]][k] # 0}}

\* The entries of the root directory fill its last block exactly.
RootFull == LET d == dinode[ROOTINO] IN
  BSIZE * Cardinality({k \in 0 .. NDIRECT - 1 : d.addrs[k] # 0}) < d.size

\* Every block in use has one owner and is marked in the bitmap, and no other
\* block is, from the image of mkfs on; an inode that nobody writes to is the same
\* on the disk; and a file has all the blocks below its size, so that readi never
\* allocates.  The exception is a root directory whose entries fill their last
\* block: mkfs.c:166 makes it longer than its blocks, and reading it panics or
\* takes a block that the inode on the disk never gets.
BlocksOwned ==
  Booted =>
    LET used == 0 .. nmeta - 1 \cup UNION {BlocksOf(data, inode[i]) : i \in Inum} IN
    /\ used \subseteq bitmap
    /\ bitmap = used \/ RootFull
    /\ \A i \in Inum :
         /\ BlocksOf(data, inode[i]) \cap (0 .. nmeta - 1) = {}
         /\ Cardinality(BlocksOf(data, inode[i])) = Cardinality(Slots(inode[i]))
         /\ \A j \in Inum \ {i} : BlocksOf(data, inode[i]) \cap BlocksOf(data, inode[j]) = {}
         /\ \/ i = ROOTINO /\ RootFull
            \/ /\ lock[i] = NoProc => dinode[i] = inode[i]
               /\ \A o \in 0 .. inode[i].size - 1 : BlockAt(data, inode[i], o \div BSIZE) # 0
    /\ panicked = "log_write" => RootFull

\* "write a few blocks at a time to avoid exceeding the maximum log transaction
\* size" (file.c:150): no round of filewrite logs more blocks than begin_op
\* reserved for it, data, bitmap, indirect block and inode taken together.
TransactionFits ==
  \A p \in Outstanding : Cardinality(th[p].log \cup {IBLOCK(Ino[th[p].f])}) <= MAXOPBLOCKS

\* Files are sequences of bytes: what mkfs was given, and then what write()
\* puts there and read() finds there, at the offsets of the open files.
SizeSeen(i) == IF lock[i] = NoProc THEN inode[i].size
               ELSE greater(inode[i].size, off[th[lock[i]].f] + th[lock[i]].tot)
BytesIn(ip, n) == [j \in 1 .. n |-> ByteAt(data, ip, j - 1)]
ToCome(i) == [k \in DOMAIN mk.appends |-> IF mk.appends[k].inum = i THEN mk.appends[k].bytes ELSE <<>>]
Image(i) == LET bytes == BytesIn(dinode[i], dinode[i].size) \o FlattenSeq(ToCome(i)) IN
            IF i # ROOTINO THEN bytes
            ELSE bytes \o [k \in 1 .. BSIZE - (Len(bytes) % BSIZE) |-> 0]
ContentSeen == [i \in {Ino[f] : f \in File} |->
                  IF Booted THEN BytesIn(inode[i], SizeSeen(i)) ELSE Image(i)]
Unlogged(b) == data[b] # disk[b] /\ b \notin logged /\ \A p \in Proc : b \notin th[p].log
LooseBytes == [i \in {Ino[f] : f \in File} |->
                 {j \in 1 .. (IF Booted THEN SizeSeen(i) ELSE 0) :
                    LET b == BlockAt(data, inode[i], (j - 1) \div BSIZE) IN
                    Unlogged(b) /\ data[b][(j - 1) % BSIZE] # disk[b][(j - 1) % BSIZE]}]
OffSeen == [f \in File |-> off[f] + IF lock[Ino[f]] # NoProc /\ th[lock[Ino[f]]].f = f
                                    THEN th[lock[Ino[f]]].tot ELSE 0]
Left(t) == IF t.pc \in {"user", "writei_end"} \/ t.tot = Len(t.bytes) THEN [f |-> 0, bytes |-> <<>>, good |-> 0]
           ELSE [f |-> t.f, bytes |-> SubSeq(t.bytes, t.tot + 1, Len(t.bytes)), good |-> t.good - t.tot]
Abstract == INSTANCE ByteFile WITH
  MaxBytes <- MAXFILE * BSIZE, Byte <- Nat, content <- ContentSeen, loose <- LooseBytes, off <- OffSeen,
  todo <- [p \in Proc |-> Left(th[p])]
FileIsBytes == Abstract!Spec
=============================================================================
