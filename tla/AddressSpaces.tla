--------------------------- MODULE AddressSpaces ----------------------------
(***************************************************************************)
(* What the kernel's memory code promises a process: an address space of   *)
(* its own.  fork copies it, exec replaces it with a program's image, sbrk *)
(* moves its end, the kernel copies bytes from one to another, and a call  *)
(* that fails leaves all of them as they were.                             *)
(***************************************************************************)
EXTENDS Integers, Sequences

CONSTANTS Proc, Byte,
          Zero,       \* the byte 0
          NoAccess,   \* what a process sees of a guard page
          Dead,       \* the address space of no process
          PGSIZE, W64,
          Increments, Addrs, Lens,   \* arguments of sbrk and of the copies
          Images                     \* programs with their arguments

VARIABLE space   \* space[p]: its size and the bytes of its pages, or Dead

RoundUp(n) == ((n + PGSIZE - 1) \div PGSIZE) * PGSIZE
Accessible(s, a) == a \in DOMAIN s.mem /\ s.mem[a] # NoAccess

\* The blocks that exec pushes on the stack.
PushedSize(args) ==
  LET upTo[i \in 0..Len(args)] == IF i = 0 THEN 0 ELSE upTo[i - 1] + args[i] IN upTo[Len(args)]

\* A program that exec accepts.
Sound(image) ==
  /\ image.magic /\ PushedSize(image.args) <= PGSIZE
  /\ \A i \in DOMAIN image.segs : LET ph == image.segs[i] IN
       ph.load => /\ ph.filesz <= ph.memsz
                  /\ ph.vaddr + ph.memsz < W64
                  /\ ph.vaddr % PGSIZE = 0
                  /\ ~ph.short

-----------------------------------------------------------------------------
(* One address space, s, after a call                                      *)

\* exec: the segments, later ones over earlier ones, zeros between them, and
\* above them a guard page and a stack page that ends in the arguments.
Exec(image) ==
  LET loads == {i \in DOMAIN image.segs : image.segs[i].load}
      ends == {0} \cup {image.segs[i].vaddr + image.segs[i].memsz : i \in loads}
      top == RoundUp(CHOOSE e \in ends : \A f \in ends : f <= e)
      end == top + 2 * PGSIZE
      Covers(a) == {i \in loads : a \in image.segs[i].vaddr
                                       ..(image.segs[i].vaddr + image.segs[i].filesz - 1)}
      Loaded(a) == IF Covers(a) = {} THEN Zero
                   ELSE image.segs[CHOOSE i \in Covers(a) : \A j \in Covers(a) : j <= i].byte
  IN [size |-> end,
      mem  |-> [a \in 0..(end - 1) |->
                  IF a < top THEN Loaded(a)
                  ELSE IF a < top + PGSIZE THEN NoAccess
                  ELSE IF a < end - PushedSize(image.args) THEN Zero ELSE image.arg]]

\* sbrk: a page that was there keeps its bytes, a new one is zero.
Sbrk(s, n) ==
  [size |-> s.size + n,
   mem  |-> [a \in 0..(RoundUp(s.size + n) - 1) |->
               IF a \in DOMAIN s.mem THEN s.mem[a] ELSE Zero]]

\* The kernel copies bytes to address a, up to the first that is out of bounds.
Copyout(s, a, bytes) ==
  LET there == {i \in DOMAIN bytes : \A j \in 1..i : Accessible(s, a + j - 1)}
  IN [s EXCEPT !.mem = [b \in DOMAIN @ |->
        IF b - a + 1 \in there THEN bytes[b - a + 1] ELSE @[b]]]

\* What a call may make of s: a process that asks sbrk to take more than there
\* is keeps what it has.
Outcomes(s) ==
  {Exec(image) : image \in {i \in Images : Sound(i)}}
  \cup {Sbrk(s, n) : n \in {i \in Increments : s.size + i >= 0}}
  \cup {[s EXCEPT !.mem[a] = v] : a \in {b \in Addrs : Accessible(s, b)}, v \in Byte}

\* What copyin and copyinstr may bring into the kernel: len bytes, or fewer
\* than len up to a zero.
Copies(s) ==
  {[i \in 1..len |-> s.mem[a + i - 1]] :
     <<a, len>> \in {c \in Addrs \X Lens : \A i \in 1..c[2] : Accessible(s, c[1] + i - 1)}}
  \cup {[i \in 1..n |-> s.mem[a + i - 1]] :
     <<a, n>> \in {c \in Addrs \X UNION {0..(len - 1) : len \in Lens} :
                     \A i \in 0..c[2] :
                        Accessible(s, c[1] + i) /\ (s.mem[c[1] + i] = Zero <=> i = c[2])}}

-----------------------------------------------------------------------------
\* The first process starts with one page, initcode.
Init ==
  \E p \in Proc, code \in [0..(PGSIZE - 1) -> Byte] :
     space = [q \in Proc |-> IF q = p THEN [size |-> PGSIZE, mem |-> code] ELSE Dead]

Fail == UNCHANGED space

Live(old) == {p \in Proc : old[p] # Dead}
Fork(old) ==
  space' \in {[old EXCEPT ![c] = old[p]] : p \in Live(old), c \in Proc \ Live(old)}
Exit(old) == space' \in {[old EXCEPT ![p] = Dead] : p \in Live(old)}
Change(old) ==
  \E p \in Live(old) : space' \in {[old EXCEPT ![p] = s] : s \in Outcomes(old[p])}
Transfer(old) ==
  \E p, q \in Live(old) : \E bytes \in Copies(old[p]) :
     space' \in {[old EXCEPT ![q] = Copyout(old[q], to, bytes)] : to \in Addrs}

Next ==
  \/ Fail
  \/ \E old \in {space} : Fork(old) \/ Exit(old) \/ Change(old) \/ Transfer(old)

Spec == Init /\ [][Next]_space
=============================================================================
