------------------------------ MODULE Memory --------------------------------
(***************************************************************************)
(* Physical pages, page tables and the memory of processes: kalloc.c, vm.c *)
(* (walk, mappages, the uvm functions, copyin and copyout), exec.c and     *)
(* what proc.c does to a process's memory (allocproc, freeproc, fork,      *)
(* growproc).                                                              *)
(*                                                                         *)
(* A system call works on its own process's table, or on one that is not   *)
(* in use yet or any more; calls meet only at the list of free pages.  So  *)
(* a call is one step, and what others do in the meantime shows in how     *)
(* many pages are left: kalloc() fails at any of its calls.  A page holds  *)
(* bytes or is a page-table page; a PTE without flags points to a lower    *)
(* page-table page.  Which free page kalloc() returns makes no difference  *)
(* to anybody, and is the least one here.                                  *)
(***************************************************************************)
EXTENDS Integers, Sequences, FiniteSets, SequencesExt

CONSTANTS NPAGES,      \* pages of RAM from "end" to PHYSTOP
          PGSIZE,      \* bytes in a page
          FANOUT,      \* PTEs in a page-table page (512)
          LEVELS,      \* levels of a page table (3)
          W32, W64,    \* 2^32 and 2^64: uint and uint64 wrap
          NPROC,
          Byte, Zero, Junk, NoPte, NoPage, Trampoline, NoAccess, Dead,
          Increments, Addrs, Lens, Images   \* arguments of the calls

\* The end of the addresses; riscv.h leaves out half of the root's entries.
MAXVA == FANOUT ^ LEVELS * PGSIZE

\* There is less memory than addresses, and less than an int can count.
ASSUME MemoryAssumption ==
  /\ NPAGES * PGSIZE < MAXVA - 2 * PGSIZE
  /\ 2 * NPAGES * PGSIZE < W32 /\ W32 < W64 /\ MAXVA < W64

Page == 1..NPAGES
Proc == 1..NPROC
Init1 == 1      \* initproc

TRAMPOLINE == MAXVA - PGSIZE
TRAPFRAME == TRAMPOLINE - PGSIZE

VARIABLES m,          \* memory: contents of pages (ram), how often each is on
                      \* the free list (free), and whether the kernel panicked
          pagetable,  \* p->pagetable, or NoPage
          trapframe,  \* p->trapframe, or NoPage
          sz          \* p->sz

vars == <<m, pagetable, trapframe, sz>>

UserFlags == {"R", "W", "X", "U"}
ZeroPage == [i \in 0..(PGSIZE - 1) |-> Zero]
EmptyTable == [i \in 0..(FANOUT - 1) |-> NoPte]

PGROUNDUP(a) == ((a + PGSIZE - 1) \div PGSIZE) * PGSIZE
PGROUNDDOWN(a) == a - (a % PGSIZE)
PX(level, va) == (va \div (PGSIZE * FANOUT ^ level)) % FANOUT

\* A function's result with the memory it leaves, and a call whose result is
\* used by what follows.
Ret(mem, r) == [m |-> mem, r |-> r]
With(result, Rest(_)) == Rest(result)
Panic(mem) == [mem EXCEPT !.panic = TRUE]

-----------------------------------------------------------------------------
(* kalloc.c                                                                *)

NoneFree(mem) == \A pg \in Page : mem.free[pg] = 0

\* r is the page, or NoPage.
kalloc(mem) ==
  IF NoneFree(mem) THEN Ret(mem, NoPage)
  ELSE LET pg == CHOOSE q \in Page : mem.free[q] > 0 /\ \A s \in 1..(q - 1) : mem.free[s] = 0
       IN Ret([mem EXCEPT !.free[pg] = @ - 1, !.ram[pg] = Junk], pg)

kfree(mem, pa) ==
  IF pa \notin Page THEN Panic(mem)
  ELSE [mem EXCEPT !.free[pa] = @ + 1, !.ram[pa] = Junk]

-----------------------------------------------------------------------------
(* vm.c: page tables                                                       *)

\* r is the PTE's place <<page, index>>, or NoPte.
RECURSIVE walkLevel(_, _, _, _, _)
walkLevel(mem, pt, va, alloc, level) ==
  IF level = 0 THEN Ret(mem, <<pt, PX(0, va)>>)
  ELSE LET i == PX(level, va)
       IN IF mem.ram[pt][i] # NoPte
          THEN walkLevel(mem, mem.ram[pt][i].pa, va, alloc, level - 1)
          ELSE IF ~alloc THEN Ret(mem, NoPte)
          ELSE With(kalloc(mem), LAMBDA k :
                 IF k.r = NoPage THEN Ret(k.m, NoPte)
                 ELSE walkLevel([k.m EXCEPT !.ram[k.r] = EmptyTable,
                                            !.ram[pt][i] = [pa |-> k.r, flags |-> {}]],
                                k.r, va, alloc, level - 1))

walk(mem, pt, va, alloc) ==
  IF va >= MAXVA THEN Ret(Panic(mem), NoPte)
  ELSE walkLevel(mem, pt, va, alloc, LEVELS - 1)

\* The PTE at place w, or NoPte.
PteAt(mem, w) == IF w = NoPte THEN NoPte ELSE mem.ram[w[1]][w[2]]
Pte(mem, pt, va) == PteAt(mem, walk(mem, pt, va, FALSE).r)

walkaddr(mem, pt, va) ==
  IF va >= MAXVA THEN NoPage
  ELSE With(Pte(mem, pt, va), LAMBDA pte :
         IF pte = NoPte THEN NoPage ELSE IF "U" \in pte.flags THEN pte.pa ELSE NoPage)

\* mappages of one page; r is 0, or -1 when a page-table page is missing.
mappages(mem, pt, va, pa, perm) ==
  With(walk(mem, pt, va, TRUE), LAMBDA w :
    IF w.r = NoPte THEN Ret(w.m, -1)
    ELSE IF PteAt(w.m, w.r) # NoPte THEN Ret(Panic(w.m), -1)
    ELSE Ret([w.m EXCEPT !.ram[w.r[1]][w.r[2]] = [pa |-> pa, flags |-> perm]], 0))

RECURSIVE uvmunmap(_, _, _, _, _)
uvmunmap(mem, pt, va, npages, do_free) ==
  IF npages = 0 THEN mem
  ELSE With(walk(mem, pt, va, FALSE).r, LAMBDA w :
         With(PteAt(mem, w), LAMBDA pte :
           IF pte = NoPte THEN Panic(mem)
           ELSE IF pte.flags = {} THEN Panic(mem)
           ELSE uvmunmap([IF do_free THEN kfree(mem, pte.pa) ELSE mem
                            EXCEPT !.ram[w[1]][w[2]] = NoPte],
                         pt, va + PGSIZE, npages - 1, do_free)))

uvmdealloc(mem, pt, oldsz, newsz) ==
  IF newsz >= oldsz THEN Ret(mem, oldsz)
  ELSE Ret(uvmunmap(mem, pt, PGROUNDUP(newsz),
                    (PGROUNDUP(oldsz) - PGROUNDUP(newsz)) \div PGSIZE, TRUE),
           newsz)

uvmcreate(mem) ==
  With(kalloc(mem), LAMBDA k :
    IF k.r = NoPage THEN k ELSE Ret([k.m EXCEPT !.ram[k.r] = EmptyTable], k.r))

\* (mutant) the new page is not freed when it cannot be mapped.
MapNewLeaks(mem, pt, va, contents, perm) ==
  With(kalloc(mem), LAMBDA k :
    IF k.r = NoPage THEN Ret(k.m, -1)
    ELSE mappages([k.m EXCEPT !.ram[k.r] = contents], pt, va, k.r, perm))

\* A page with these contents, mapped at va; r is 0, or -1 with nothing left
\* behind when a page is missing (the body of uvmalloc's and uvmcopy's loops).
MapNew(mem, pt, va, contents, perm) ==
  With(kalloc(mem), LAMBDA k :
    IF k.r = NoPage THEN Ret(k.m, -1)
    ELSE With(mappages([k.m EXCEPT !.ram[k.r] = contents], pt, va, k.r, perm), LAMBDA map :
           IF map.r # 0 THEN Ret(kfree(map.m, k.r), -1) ELSE map))

\* uvmalloc's loop, at address a.
RECURSIVE uvmallocFrom(_, _, _, _, _)
uvmallocFrom(mem, pt, a, oldsz, newsz) ==
  IF a >= newsz THEN Ret(mem, newsz)
  ELSE With(MapNew(mem, pt, a, ZeroPage, UserFlags), LAMBDA new :
         IF new.r # 0 THEN Ret(uvmdealloc(new.m, pt, a, oldsz).m, 0)
         ELSE uvmallocFrom(new.m, pt, a + PGSIZE, oldsz, newsz))

uvmalloc(mem, pt, oldsz, newsz) ==
  IF newsz < oldsz THEN Ret(mem, oldsz)
  ELSE uvmallocFrom(mem, pt, PGROUNDUP(oldsz), PGROUNDUP(oldsz), newsz)

RECURSIVE freewalk(_, _)
freewalk(mem, pt) ==
  LET entry(mm, i) ==
        With(mm.ram[pt][i], LAMBDA pte :
          IF pte = NoPte THEN mm
          ELSE IF pte.flags = {} THEN [freewalk(mm, pte.pa) EXCEPT !.ram[pt][i] = NoPte]
          ELSE Panic(mm))
  IN kfree(FoldLeft(entry, mem, [i \in 1..FANOUT |-> i - 1]), pt)

uvmfree(mem, pt, size) ==
  freewalk(uvmunmap(mem, pt, 0, PGROUNDUP(size) \div PGSIZE, TRUE), pt)

\* uvmcopy's loop, at address i; r is 0 or -1.
RECURSIVE uvmcopy(_, _, _, _, _)
uvmcopy(mem, old, new, i, size) ==
  IF i >= size THEN Ret(mem, 0)
  ELSE With(Pte(mem, old, i), LAMBDA pte :
         IF pte = NoPte THEN Ret(Panic(mem), -1)
         ELSE With(MapNew(mem, new, i, mem.ram[pte.pa], pte.flags), LAMBDA copy :
                IF copy.r # 0 THEN Ret(uvmunmap(copy.m, new, 0, i \div PGSIZE, TRUE), -1)
                ELSE uvmcopy(copy.m, old, new, i + PGSIZE, size)))

uvmclear(mem, pt, va) ==
  With(walk(mem, pt, va, FALSE).r, LAMBDA w :
    IF w = NoPte THEN Panic(mem)
    ELSE [mem EXCEPT !.ram[w[1]][w[2]].flags = @ \ {"U"}])

-----------------------------------------------------------------------------
(* vm.c: copies between kernel and user, a page at a time                  *)

\* The part of a copy of len bytes at va that lies in va's page.
Chunk(va, len) ==
  LET room == PGSIZE - (va % PGSIZE) IN IF len < room THEN len ELSE room

\* (mutant) the copy goes to the start of the page.
OverwriteAtStart(page, off, bytes) ==
  [i \in 0..(PGSIZE - 1) |-> IF i + 1 \in DOMAIN bytes THEN bytes[i + 1] ELSE page[i]]

\* A page with some bytes from off on replaced.
Overwrite(page, off, bytes) ==
  [i \in 0..(PGSIZE - 1) |->
     IF i - off + 1 \in DOMAIN bytes THEN bytes[i - off + 1] ELSE page[i]]

RECURSIVE copyout(_, _, _, _)
copyout(mem, pt, dstva, src) ==
  IF src = <<>> THEN Ret(mem, 0)
  ELSE With(walkaddr(mem, pt, PGROUNDDOWN(dstva)), LAMBDA pa0 :
         LET n == Chunk(dstva, Len(src))
         IN IF pa0 = NoPage THEN Ret(mem, -1)
            ELSE copyout([mem EXCEPT !.ram[pa0] = Overwrite(@, dstva % PGSIZE, SubSeq(src, 1, n))],
                         pt, PGROUNDDOWN(dstva) + PGSIZE, SubSeq(src, n + 1, Len(src))))

\* The n bytes at va, all of them in one page.
BytesAt(mem, pa0, va, n) == [i \in 1..n |-> mem.ram[pa0][(va % PGSIZE) + i - 1]]

\* The bytes copied; r is 0 or -1.
RECURSIVE copyin(_, _, _, _, _)
copyin(mem, pt, dst, srcva, len) ==
  IF len = 0 THEN [dst |-> dst, r |-> 0]
  ELSE With(walkaddr(mem, pt, PGROUNDDOWN(srcva)), LAMBDA pa0 :
         LET n == Chunk(srcva, len)
         IN IF pa0 = NoPage THEN [dst |-> dst, r |-> -1]
            ELSE copyin(mem, pt, dst \o BytesAt(mem, pa0, srcva, n),
                        PGROUNDDOWN(srcva) + PGSIZE, len - n))

RECURSIVE copyinstr(_, _, _, _, _)
copyinstr(mem, pt, dst, srcva, max) ==
  IF max = 0 THEN [dst |-> dst, r |-> -1]
  ELSE With(walkaddr(mem, pt, PGROUNDDOWN(srcva)), LAMBDA pa0 :
         LET bytes == BytesAt(mem, pa0, srcva, Chunk(srcva, max))
         IN IF pa0 = NoPage THEN [dst |-> dst, r |-> -1]
            ELSE IF \E i \in DOMAIN bytes : bytes[i] = Zero
            THEN [dst |-> dst \o SubSeq(bytes, 1, SelectInSeq(bytes, LAMBDA b : b = Zero) - 1),
                  r |-> 0]
            ELSE copyinstr(mem, pt, dst \o bytes, PGROUNDDOWN(srcva) + PGSIZE, max - Len(bytes)))

-----------------------------------------------------------------------------
(* proc.c: a process's table and trapframe                                 *)

proc_pagetable(mem, tf) ==
  With(uvmcreate(mem), LAMBDA c :
    IF c.r = NoPage THEN c
    ELSE With(mappages(c.m, c.r, TRAMPOLINE, Trampoline, {"R", "X"}), LAMBDA tramp :
      IF tramp.r # 0 THEN Ret(uvmfree(tramp.m, c.r, 0), NoPage)
      ELSE With(mappages(tramp.m, c.r, TRAPFRAME, tf, {"R", "W"}), LAMBDA frame :
        IF frame.r # 0
        THEN Ret(uvmfree(uvmunmap(frame.m, c.r, TRAMPOLINE, 1, FALSE), c.r, 0), NoPage)
        ELSE Ret(frame.m, c.r))))

proc_freepagetable(mem, pt, size) ==
  uvmfree(uvmunmap(uvmunmap(mem, pt, TRAMPOLINE, 1, FALSE), pt, TRAPFRAME, 1, FALSE), pt, size)

\* freeproc's part of the memory: tf and pt may be missing.
FreeMemory(mem, tf, pt, size) ==
  With(IF tf = NoPage THEN mem ELSE kfree(mem, tf), LAMBDA f :
    IF pt = NoPage THEN f ELSE proc_freepagetable(f, pt, size))

\* allocproc's part of the memory; pt is NoPage when it fails.
AllocMemory(mem) ==
  With(kalloc(mem), LAMBDA k :
    IF k.r = NoPage THEN [m |-> k.m, tf |-> NoPage, pt |-> NoPage]
    ELSE With(proc_pagetable(k.m, k.r), LAMBDA t :
           IF t.r = NoPage
           THEN [m |-> FreeMemory(t.m, k.r, NoPage, 0), tf |-> NoPage, pt |-> NoPage]
           ELSE [m |-> t.m, tf |-> k.r, pt |-> t.r]))

\* Start: userinit gives the first process one page with initcode in it.
Init ==
  \E a \in {AllocMemory([ram |-> [pg \in Page |-> Junk], free |-> [pg \in Page |-> 1],
                         panic |-> FALSE])} :
     /\ m = MapNew(a.m, a.pt, 0, [i \in 0..(PGSIZE - 1) |-> CHOOSE b \in Byte : b # Zero],
                   UserFlags).m
     /\ pagetable = [p \in Proc |-> IF p = Init1 THEN a.pt ELSE NoPage]
     /\ trapframe = [p \in Proc |-> IF p = Init1 THEN a.tf ELSE NoPage]
     /\ sz = [p \in Proc |-> IF p = Init1 THEN PGSIZE ELSE 0]

Alive(p) == pagetable[p] # NoPage
Running(p) == Alive(p) /\ ~m.panic

-----------------------------------------------------------------------------
(* System calls                                                            *)

\* fork() up to the copy of the memory; it leaves nothing behind if it fails.
fork(p, np) ==
  /\ Running(p) /\ ~Alive(np)
  /\ \E a \in {AllocMemory(m)} :
       IF a.pt = NoPage THEN m' = a.m /\ UNCHANGED <<pagetable, trapframe, sz>>
       ELSE \E c \in {uvmcopy(a.m, pagetable[p], a.pt, 0, sz[p])} :
         IF c.r # 0
         THEN m' = FreeMemory(c.m, a.tf, a.pt, 0) /\ UNCHANGED <<pagetable, trapframe, sz>>
         ELSE /\ m' = c.m
              /\ pagetable' = [pagetable EXCEPT ![np] = a.pt]
              /\ trapframe' = [trapframe EXCEPT ![np] = a.tf]
              /\ sz' = [sz EXCEPT ![np] = sz[p]]

\* wait() collects a child that has exited.
freeproc(p) ==
  /\ Running(p) /\ p # Init1
  /\ m' = FreeMemory(m, trapframe[p], pagetable[p], sz[p])
  /\ pagetable' = [pagetable EXCEPT ![p] = NoPage]
  /\ trapframe' = [trapframe EXCEPT ![p] = NoPage]
  /\ sz' = [sz EXCEPT ![p] = 0]

\* The size growproc asks for, in the unsigned arithmetic of its uint sz.
NewSize(p, n) == (sz[p] + n) % W32

growproc(p, n) ==
  /\ Running(p)
  /\ \E g \in {IF n > 0 THEN uvmalloc(m, pagetable[p], sz[p], NewSize(p, n))
               ELSE uvmdealloc(m, pagetable[p], sz[p], NewSize(p, n))} :
        /\ m' = g.m
        /\ sz' = IF n > 0 /\ g.r = 0 THEN sz ELSE [sz EXCEPT ![p] = g.r]
  /\ UNCHANGED <<pagetable, trapframe>>

\* A user program's store; a page without PTE_U faults.
store(p, a, v) ==
  /\ Running(p)
  /\ \E pa \in {walkaddr(m, pagetable[p], PGROUNDDOWN(a))} :
        /\ pa # NoPage
        /\ m' = [m EXCEPT !.ram[pa][a % PGSIZE] = v]
  /\ UNCHANGED <<pagetable, trapframe, sz>>

\* The kernel copies bytes or a string from p in and then out to q, as read
\* and write do through a pipe or a file.
transfer(p, q, from, to, len) ==
  /\ Running(p) /\ Running(q)
  /\ \E c \in {copyin(m, pagetable[p], <<>>, from, len),
               copyinstr(m, pagetable[p], <<>>, from, len)} :
        c.r = 0 /\ m' = copyout(m, pagetable[q], to, c.dst).m
  /\ UNCHANGED <<pagetable, trapframe, sz>>

-----------------------------------------------------------------------------
(* exec.c                                                                  *)

\* loadseg, at offset i: the bytes of the file go into pages that must exist.
RECURSIVE loadseg(_, _, _, _)
loadseg(mem, pt, ph, i) ==
  IF i >= ph.filesz THEN Ret(mem, IF ph.short THEN -1 ELSE 0)
  ELSE With(walkaddr(mem, pt, ph.vaddr + i), LAMBDA pa :
         LET n == IF ph.filesz - i < PGSIZE THEN ph.filesz - i ELSE PGSIZE
         IN IF pa = NoPage THEN Ret(Panic(mem), -1)
            ELSE loadseg([mem EXCEPT !.ram[pa] = Overwrite(@, 0, [j \in 1..n |-> ph.byte])],
                         pt, ph, i + PGSIZE))

\* The checks on a program header before any memory is allocated for it.
BadHeader(ph) == ph.memsz < ph.filesz \/ (ph.vaddr + ph.memsz) % W64 < ph.vaddr

\* exec's loop over the program headers, with the size so far; ok is FALSE
\* after a "goto bad".
RECURSIVE LoadSegments(_, _, _, _)
LoadSegments(mem, pt, segs, size) ==
  LET done(mm, s, ok) == [m |-> mm, sz |-> s, ok |-> ok]
      ph == Head(segs)
  IN IF segs = <<>> THEN done(mem, size, TRUE)
     ELSE IF ~ph.load THEN LoadSegments(mem, pt, Tail(segs), size)
     ELSE IF BadHeader(ph) THEN done(mem, size, FALSE)
     ELSE With(uvmalloc(mem, pt, size, (ph.vaddr + ph.memsz) % W64), LAMBDA a :
       IF a.r = 0 THEN done(a.m, size, FALSE)
       ELSE IF ph.vaddr % PGSIZE # 0 THEN done(a.m, a.r, FALSE)
       ELSE With(loadseg(a.m, pt, ph, 0), LAMBDA l :
         IF l.r # 0 THEN done(l.m, a.r, FALSE)
         ELSE LoadSegments(l.m, pt, Tail(segs), a.r)))

\* The argument strings and the array of pointers to them, one block each.
RECURSIVE PushArgs(_, _, _, _, _, _)
PushArgs(mem, pt, args, byte, sp, stackbase) ==
  LET low == sp - Head(args)
  IN IF args = <<>> THEN Ret(mem, 0)
     ELSE IF low < stackbase THEN Ret(mem, -1)
     ELSE With(copyout(mem, pt, low, [i \in 1..Head(args) |-> byte]), LAMBDA c :
            IF c.r # 0 THEN c ELSE PushArgs(c.m, pt, Tail(args), byte, low, stackbase))

\* Guard page, stack page and arguments above the segments.
MakeStack(l, pt, image) ==
  LET done(mm, s, ok) == [m |-> mm, sz |-> s, ok |-> ok]
      top == PGROUNDUP(l.sz)
  IN IF ~l.ok THEN l
     ELSE With(uvmalloc(l.m, pt, top, top + 2 * PGSIZE), LAMBDA s :
       IF s.r = 0 THEN done(s.m, top, FALSE)
       ELSE With(PushArgs(uvmclear(s.m, pt, s.r - 2 * PGSIZE), pt, image.args, image.arg,
                          s.r, s.r - PGSIZE), LAMBDA a :
              done(a.m, s.r, a.r = 0)))

\* exec, once the file's header has been read and is an ELF header; the limit of
\* MAXARG arguments is left out.
exec(p, image) ==
  /\ Running(p) /\ image.magic
  /\ \E t \in {proc_pagetable(m, trapframe[p])} :
       IF t.r = NoPage THEN m' = t.m /\ UNCHANGED <<pagetable, sz>>
       ELSE \E new \in {MakeStack(LoadSegments(t.m, t.r, image.segs, 0), t.r, image)} :
         IF ~new.ok
         THEN m' = proc_freepagetable(new.m, t.r, new.sz) /\ UNCHANGED <<pagetable, sz>>
         ELSE /\ m' = proc_freepagetable(new.m, pagetable[p], sz[p])
              /\ pagetable' = [pagetable EXCEPT ![p] = t.r]
              /\ sz' = [sz EXCEPT ![p] = new.sz]
  /\ UNCHANGED trapframe

-----------------------------------------------------------------------------
Next ==
  \/ \E p, np \in Proc : fork(p, np)
  \/ \E p \in Proc :
       \/ freeproc(p)
       \/ \E n \in Increments : growproc(p, n)
       \/ \E image \in Images : exec(p, image)
       \/ \E a \in Addrs, v \in Byte : store(p, a, v)
       \/ \E q \in Proc, from, to \in Addrs, len \in Lens : transfer(p, q, from, to, len)

Spec == Init /\ [][Next]_vars

-----------------------------------------------------------------------------
(* Properties                                                              *)

TypeOK ==
  /\ m.free \in [Page -> 0..1]
  /\ pagetable \in [Proc -> Page \cup {NoPage}]
  /\ trapframe \in [Proc -> Page \cup {NoPage}]
  /\ sz \in [Proc -> 0..(W32 - 1)]

\* The page-table pages below and including pt, and the PTEs in them that are leaves.
RECURSIVE Tables(_, _)
Tables(pt, level) ==
  {pt} \cup (IF level = 0 THEN {}
             ELSE UNION {Tables(m.ram[pt][i].pa, level - 1) :
                           i \in {j \in 0..(FANOUT - 1) : m.ram[pt][j] # NoPte}})
TablesOf(p) == IF Alive(p) THEN Tables(pagetable[p], LEVELS - 1) ELSE {}
UserPte(p, vpn) == Pte(m, pagetable[p], vpn * PGSIZE)
Vpns == 0..((TRAPFRAME \div PGSIZE) - 1)
Mapped(p) == IF Alive(p) THEN {vpn \in Vpns : UserPte(p, vpn) # NoPte} ELSE {}

\* The uses of pages: as a page-table page, as a trapframe, or mapped in a user
\* address space.
Uses ==
  UNION {{<<"table", p, pg>> : pg \in TablesOf(p)} : p \in Proc}
  \cup {<<"trapframe", p, trapframe[p]>> : p \in {q \in Proc : Alive(q)}}
  \cup UNION {{<<"user", p * MAXVA + vpn, UserPte(p, vpn).pa>> : vpn \in Mapped(p)} : p \in Proc}

\* Every page is in exactly one place, whatever fails and when: none leaks,
\* none is freed twice, none is shared or used after it was freed
\* (vm.c:233, 326, exec.c:122, proc.c:123, 284).  And exactly the pages below sz
\* are mapped, which uvmfree, uvmcopy and uvmdealloc rely on (they panic
\* otherwise), with the trapframe and the trampoline above them; none of the
\* other panics happens either.
PagesConserved ==
  LET uses == Uses
  IN /\ TypeOK
     /\ \A pg \in Page : m.free[pg] + Cardinality({u \in uses : u[3] = pg}) = 1
     /\ ~m.panic
     /\ \A p \in Proc : Alive(p) =>
          /\ Mapped(p) = {vpn \in Vpns : vpn * PGSIZE < sz[p]}
          /\ Pte(m, pagetable[p], TRAPFRAME) = [pa |-> trapframe[p], flags |-> {"R", "W"}]
          /\ Pte(m, pagetable[p], TRAMPOLINE) = [pa |-> Trampoline, flags |-> {"R", "X"}]

\* What a process sees through its page table.
Seen(p, a) == LET pte == UserPte(p, a \div PGSIZE)
              IN IF "U" \in pte.flags THEN m.ram[pte.pa][a % PGSIZE] ELSE NoAccess
Space(p) == IF Alive(p)
            THEN [size |-> sz[p], mem |-> [a \in 0..(PGROUNDUP(sz[p]) - 1) |-> Seen(p, a)]]
            ELSE Dead

\* Every process has an address space of its own: fork, exec, sbrk and the
\* kernel's copies do to it what AddressSpaces says, a call that fails does
\* nothing, and no call touches another process's.
Abstract == INSTANCE AddressSpaces WITH space <- [p \in Proc |-> Space(p)]
OwnAddressSpace == Abstract!Spec
=============================================================================
